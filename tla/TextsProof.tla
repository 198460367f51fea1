----------------------------- MODULE TextsProof ------------------------------
\* Proofs about Texts: what comes out of diff, of imports, of the lines of a
\* script and of archives is right, whatever goes in.  The loops of the code are
\* functions from the number of iterations; what they compute is proved by
\* induction on that number.
EXTENDS Texts, Integers, FiniteSets, WellFoundedInduction, FiniteSetTheorems,
        FunctionTheorems, SequenceTheorems, TLAPS

\* Of natural numbers one is the least.
LEMMA Least ==
  ASSUME NEW T, T \subseteq Nat, T # {}
  PROVE  \E n \in T : \A m \in T : n <= m
  <1>1. PICK n \in T : \A m \in T : ~ (<<m, n>> \in OpToRel(<, Nat))
    BY NatLessThanWellFounded, WFMin
  <1>2. \A m \in T : ~(m < n)
    BY <1>1 DEF OpToRel
  <1> QED BY <1>2

\* What Min and Max choose.
LEMMA MinIs ==
  ASSUME NEW T, T \subseteq Nat, T # {}
  PROVE  Sets!Min(T) \in T /\ \A m \in T : Sets!Min(T) <= m
  <1>1. PICK n \in T : \A m \in T : n <= m
    BY Least
  <1> QED BY <1>1 DEF Sets!Min

\* What Max chooses.
LEMMA MaxIs ==
  ASSUME NEW T, NEW b \in Nat, T \subseteq 0 .. b, T # {}
  PROVE  Sets!Max(T) \in T /\ \A m \in T : Sets!Max(T) >= m
  <1> DEFINE U == {b - m : m \in T}
  <1>0. U \subseteq Nat /\ U # {}
    <2>1. \A m \in T : b - m \in Nat
      OBVIOUS
    <2> QED BY <2>1
  <1>1. PICK n \in U : \A m \in U : n <= m
    BY <1>0, Least
  <1>2. PICK k \in T : n = b - k
    BY <1>1
  <1>3. \A m \in T : k >= m
    BY <1>1, <1>2
  <1> QED BY <1>2, <1>3 DEF Sets!Max

\* The loop of Positions.
LEMMA PositionsLoop ==
  ASSUME NEW x, NEW u, Len(x) \in Nat
  PROVE  \E f : /\ f[0] = <<>>
                /\ \A n \in 1 .. Len(x) : f[n] = IF x[n] \in u THEN Append(f[n - 1], n) ELSE f[n - 1]
                /\ Positions(x, u) = f[Len(x)]
  <1> DEFINE len == Len(x)
             Body(f, n) == IF n = 0 THEN <<>> ELSE IF x[n] \in u THEN Append(f[n - 1], n) ELSE f[n - 1]
             upTo[n \in 0 .. len] == IF n = 0 THEN <<>> ELSE IF x[n] \in u THEN Append(upTo[n - 1], n) ELSE upTo[n - 1]
  <1>1. Positions(x, u) = upTo[len]
    BY DEF Positions
  <1>2. \E f : f = [n \in 0 .. len |-> Body(f, n)]
    <2> DEFINE Lacking == {n \in 0 .. len : ~ \E f : f = [k \in 0 .. n |-> Body(f, k)]}
    <2>1. Lacking = {}
      <3> SUFFICES ASSUME Lacking # {} PROVE FALSE
        OBVIOUS
      <3>0. Lacking \subseteq Nat
        OBVIOUS
      <3>1. PICK n \in Lacking : \A m \in Lacking : n <= m
        BY <3>0, Least
      <3> HIDE DEF Body
      <3>2. CASE n = 0
        <4> DEFINE f == [k \in 0 .. 0 |-> <<>>]
        <4>1. \A k \in 0 .. 0 : Body(f, k) = f[k]
          BY DEF Body
        <4>2. f = [k \in 0 .. 0 |-> Body(f, k)]
          BY <4>1
        <4> HIDE DEF f
        <4> QED BY <3>2, <4>2
      <3>3. CASE n # 0
        <4>1. n - 1 \in 0 .. len /\ n \in 0 .. len /\ n - 1 \notin Lacking
          BY <3>1, <3>3
        <4>2. PICK f : f = [k \in 0 .. n - 1 |-> Body(f, k)]
          BY <4>1
        <4> DEFINE g == [k \in 0 .. n |-> IF k = n THEN Body(f, n) ELSE f[k]]
        <4>3. \A k \in 0 .. n - 1 : g[k] = f[k]
          BY <4>1
        <4>4. \A k \in 0 .. n : Body(g, k) = Body(f, k)
          BY <4>1, <4>3 DEF Body
        <4>5. \A k \in 0 .. n : g[k] = Body(g, k)
          <5> SUFFICES ASSUME NEW k \in 0 .. n PROVE g[k] = Body(g, k)
            OBVIOUS
          <5>1. CASE k = n
            BY <4>4, <5>1
          <5>2. CASE k # n
            <6>1. k \in 0 .. n - 1
              BY <4>1, <5>2
            <6>2. f[k] = Body(f, k)
              BY <4>2, <6>1
            <6> QED BY <4>3, <4>4, <6>1, <6>2
          <5> QED BY <5>1, <5>2
        <4>6. g = [k \in 0 .. n |-> Body(g, k)]
          BY <4>5
        <4> HIDE DEF g
        <4> QED BY <4>6
      <3> QED BY <3>2, <3>3
    <2> QED BY <2>1
  <1>3. upTo = [n \in 0 .. len |-> Body(upTo, n)]
    BY <1>2
  <1> HIDE DEF upTo
  <1>4. \A n \in 0 .. len : upTo[n] = Body(upTo, n)
    BY <1>3
  <1>5. upTo[0] = <<>>
    <2>1. upTo[0] = Body(upTo, 0)
      BY <1>4
    <2> QED BY <2>1
  <1>6. ASSUME NEW n \in 1 .. len PROVE upTo[n] = IF x[n] \in u THEN Append(upTo[n - 1], n) ELSE upTo[n - 1]
    <2>1. n \in 0 .. len /\ n # 0
      OBVIOUS
    <2>2. upTo[n] = Body(upTo, n)
      BY <1>4, <2>1
    <2> QED BY <2>1, <2>2
  <1> QED BY <1>1, <1>5, <1>6

\* Positions are those of lines in u, in order.
LEMMA PositionsAre ==
  ASSUME NEW A, NEW x \in Seq(A), NEW u
  PROVE  /\ Positions(x, u) \in Seq(1 .. Len(x))
         /\ \A m, n \in DOMAIN Positions(x, u) : m < n => Positions(x, u)[m] < Positions(x, u)[n]
         /\ \A i \in DOMAIN x : x[i] \in u <=> \E n \in DOMAIN Positions(x, u) : Positions(x, u)[n] = i
  <1> DEFINE len == Len(x)
             Right(f, n) ==
               /\ f[n] \in Seq(1 .. n)
               /\ \A k, m \in 1 .. Len(f[n]) : k < m => f[n][k] < f[n][m]
               /\ \A k \in 1 .. Len(f[n]) : x[f[n][k]] \in u
               /\ \A i \in 1 .. n : x[i] \in u => \E k \in 1 .. Len(f[n]) : f[n][k] = i
  <1>1. len \in Nat /\ DOMAIN x = 1 .. len
    OBVIOUS
  <1>2. PICK f : /\ f[0] = <<>>
                 /\ \A n \in 1 .. len : f[n] = IF x[n] \in u THEN Append(f[n - 1], n) ELSE f[n - 1]
                 /\ Positions(x, u) = f[len]
    BY <1>1, PositionsLoop
  <1> HIDE DEF len
  <1>3. Right(f, len)
    <2> DEFINE Wrong == {n \in 0 .. len : ~Right(f, n)}
    <2> SUFFICES ASSUME Wrong # {} PROVE FALSE
      BY <1>1
    <2>0. Wrong \subseteq Nat
      BY <1>1
    <2>1. PICK n \in Wrong : \A m \in Wrong : n <= m
      BY <2>0, Least
    <2>2. n # 0
      <3>1. Right(f, 0)
        BY <1>2
      <3> QED BY <2>1, <3>1
    <2>3. n - 1 \in 0 .. len /\ n \in 1 .. len /\ Right(f, n - 1)
      BY <1>1, <2>1, <2>2
    <2>a. PICK p : p = f[n - 1]
      OBVIOUS
    <2>b. PICK q : q = f[n]
      OBVIOUS
    <2>c. p \in Seq(1 .. n - 1) /\ n \in Nat
      BY <2>3, <2>a
    <2>d. p \in [1 .. Len(p) -> 1 .. n - 1] /\ p \in Seq(1 .. n) /\ Len(p) \in Nat
      BY <2>3, <2>c, LenProperties, SeqMonotonic, SMTT(30)
    <2>e. \A k, m \in 1 .. Len(p) : k < m => p[k] < p[m]
      BY <2>3, <2>a
    <2>f. \A k \in 1 .. Len(p) : p[k] \in 1 .. n - 1
      BY <2>d
    <2>g. \A k \in 1 .. Len(p) : x[p[k]] \in u
      BY <2>3, <2>a
    <2>h. \A i \in 1 .. n - 1 : x[i] \in u => \E k \in 1 .. Len(p) : p[k] = i
      BY <2>3, <2>a
    <2>5. ~ Right(f, n)
      BY <2>1
    <2>6. CASE x[n] \in u
      <3>1. q = Append(p, n)
        BY <1>2, <2>3, <2>6, <2>a, <2>b
      <3>2. /\ q \in Seq(1 .. n) /\ Len(q) = Len(p) + 1
            /\ \A k \in 1 .. Len(p) : q[k] = p[k]
            /\ q[Len(p) + 1] = n
        BY <2>3, <2>d, <3>1, AppendProperties
      <3>a. Len(p) \in Nat /\ Len(q) = Len(p) + 1
        BY <2>d, <3>2
      <3>b. (\A k \in 1 .. Len(p) : q[k] = p[k]) /\ q[Len(p) + 1] = n
        BY <3>2
      <3>3. \A k \in 1 .. Len(q) : k = Len(p) + 1 \/ k \in 1 .. Len(p)
        BY <2>d, <3>2
      <3>4. ASSUME NEW k \in 1 .. Len(q), NEW m \in 1 .. Len(q), k < m PROVE q[k] < q[m]
        <4>1. k \in 1 .. Len(p)
          BY <3>a, <3>4
        <4>2. q[k] = p[k] /\ p[k] \in 1 .. n - 1
          BY <2>f, <3>b, <4>1
        <4>3. CASE m = Len(p) + 1
          BY <2>c, <3>b, <4>2, <4>3
        <4>4. CASE m \in 1 .. Len(p)
          BY <2>e, <3>b, <3>4, <4>1, <4>4
        <4> QED BY <3>3, <4>3, <4>4
      <3>5. ASSUME NEW k \in 1 .. Len(q) PROVE x[q[k]] \in u
        <4>1. CASE k = Len(p) + 1
          BY <2>6, <3>2, <4>1
        <4>2. CASE k \in 1 .. Len(p)
          BY <2>g, <3>2, <4>2
        <4> QED BY <3>3, <4>1, <4>2
      <3>6. ASSUME NEW i \in 1 .. n, x[i] \in u PROVE \E k \in 1 .. Len(q) : q[k] = i
        <4>1. CASE i = n
          <5>1. Len(q) \in 1 .. Len(q) /\ q[Len(q)] = i
            BY <2>d, <3>2, <4>1
          <5> QED BY <5>1
        <4>2. CASE i # n
          <5>1. PICK k \in 1 .. Len(p) : p[k] = i
            BY <2>c, <2>h, <3>6, <4>2
          <5>2. k \in 1 .. Len(q) /\ q[k] = i
            BY <2>d, <3>2, <5>1
          <5> QED BY <5>2
        <4> QED BY <4>1, <4>2
      <3> QED BY <2>5, <2>b, <3>2, <3>4, <3>5, <3>6
    <2>7. CASE x[n] \notin u
      <3>1. q = p
        BY <1>2, <2>3, <2>7, <2>a, <2>b
      <3>2. ASSUME NEW i \in 1 .. n, x[i] \in u PROVE \E k \in 1 .. Len(q) : q[k] = i
        BY <2>3, <2>c, <2>h, <2>7, <3>1, <3>2
      <3> QED BY <2>d, <2>e, <2>g, <2>5, <2>b, <3>1, <3>2
    <2> QED BY <2>6, <2>7
  <1>4. f[len] \in Seq(1 .. len) /\ DOMAIN f[len] = 1 .. Len(f[len])
    BY <1>3
  <1>5. ASSUME NEW i \in DOMAIN x
        PROVE  x[i] \in u <=> \E n \in DOMAIN f[len] : f[len][n] = i
    BY <1>1, <1>3, <1>4
  <1> QED BY <1>2, <1>3, <1>4, <1>5 DEF len

\* Lines that occur once are as many as their positions.
LEMMA UniquesCounted ==
  ASSUME NEW A, NEW x \in Seq(A), NEW u, \A s \in u : Once(x, s)
  PROVE  /\ IsFiniteSet(u) /\ Cardinality(u) = Len(Positions(x, u))
         /\ \A s \in u : \E n \in DOMAIN Positions(x, u) : x[Positions(x, u)[n]] = s
         /\ \A m, n \in DOMAIN Positions(x, u) :
              x[Positions(x, u)[m]] = x[Positions(x, u)[n]] => m = n
  <1>1. PICK p : p = Positions(x, u)
    OBVIOUS
  <1>2. PICK len : len = Len(p)
    OBVIOUS
  <1>3. p \in Seq(1 .. Len(x))
    BY <1>1, PositionsAre
  <1>4. len \in Nat /\ DOMAIN p = 1 .. len /\ DOMAIN x = 1 .. Len(x)
    BY <1>2, <1>3
  <1>5. \A n \in 1 .. len : p[n] \in 1 .. Len(x)
    BY <1>2, <1>3, LenProperties
  <1>6. \A m, n \in 1 .. len : m < n => p[m] < p[n]
    BY <1>1, <1>4, PositionsAre
  <1>7. \A i \in 1 .. Len(x) : x[i] \in u <=> \E n \in 1 .. len : p[n] = i
    BY <1>1, <1>4, PositionsAre
  <1>8. \A n \in 1 .. len : x[p[n]] \in u
    BY <1>5, <1>7
  <1>9. ASSUME NEW s \in u PROVE \E n \in 1 .. len : x[p[n]] = s
    <2>1. PICK i \in 1 .. Len(x) : x[i] = s
      BY <1>4 DEF Once
    <2> QED BY <1>7, <2>1
  <1>10. ASSUME NEW m \in 1 .. len, NEW n \in 1 .. len, x[p[m]] = x[p[n]] PROVE m = n
    <2>1. Once(x, x[p[m]])
      BY <1>8
    <2>2. p[m] = p[n]
      BY <1>4, <1>5, <1>10, <2>1 DEF Once
    <2>3. p[m] \in Nat /\ m \in Nat /\ n \in Nat
      BY <1>5
    <2> QED BY <1>6, <2>2, <2>3
  <1> DEFINE f == [n \in 1 .. len |-> x[p[n]]]
  <1>11. f \in Bijection(1 .. len, u)
    <2>1. f \in [1 .. len -> u]
      BY <1>8
    <2>2. f \in Injection(1 .. len, u)
      BY <2>1, <1>10, Fun_IsInj
    <2>3. f \in Surjection(1 .. len, u)
      BY <2>1, <1>9, Fun_IsSurj
    <2> QED BY <2>2, <2>3 DEF Bijection
  <1>12. Cardinality(u) = len
    BY <1>4, <1>11, FS_CountingElements DEF ExistsBijection
  <1>13. IsFiniteSet(u)
    BY <1>4, <1>11, FS_NatBijection DEF ExistsBijection
  <1> QED BY <1>1, <1>2, <1>4, <1>9, <1>10, <1>12, <1>13

\* Ranks are a permutation.
LEMMA RanksAre ==
  ASSUME NEW A, NEW x \in Seq(A), NEW y \in Seq(A),
         NEW xi, NEW yi, NEW n,
         xi = Positions(x, Uniques(x, y)), yi = Positions(y, Uniques(x, y)), n = Len(xi)
  PROVE  /\ n \in Nat /\ Len(yi) = n /\ DOMAIN xi = 1 .. n /\ DOMAIN yi = 1 .. n
         /\ Ranks(x, y, xi, yi) \in [1 .. n -> 1 .. n]
         /\ \A i \in 1 .. n : y[yi[Ranks(x, y, xi, yi)[i]]] = x[xi[i]]
         /\ \A i, k \in 1 .. n : Ranks(x, y, xi, yi)[i] = Ranks(x, y, xi, yi)[k] => i = k
  <1>1. PICK u : u = Uniques(x, y)
    OBVIOUS
  <1>2. (\A s \in u : Once(x, s)) /\ (\A s \in u : Once(y, s))
    BY <1>1 DEF Uniques
  <1>3. xi \in Seq(1 .. Len(x)) /\ yi \in Seq(1 .. Len(y))
    BY <1>1, PositionsAre
  <1>4. n \in Nat /\ DOMAIN xi = 1 .. n /\ DOMAIN yi = 1 .. Len(yi)
    BY <1>3
  <1>5. Cardinality(u) = n /\ Cardinality(u) = Len(yi)
    BY <1>1, <1>2, UniquesCounted
  <1>6. \A i, k \in 1 .. n : x[xi[i]] = x[xi[k]] => i = k
    BY <1>1, <1>2, <1>4, UniquesCounted, SMTT(30)
  <1>7. \A s \in u : \E j \in 1 .. n : y[yi[j]] = s
    BY <1>1, <1>2, <1>4, <1>5, UniquesCounted
  <1>8. \A i \in 1 .. n : x[xi[i]] \in u
    <2>1. \A i \in 1 .. n : xi[i] \in DOMAIN x
      BY <1>3, LenProperties
    <2> QED BY <1>1, <1>4, <2>1, PositionsAre
  <1>9. DOMAIN yi = 1 .. n
    BY <1>4, <1>5
  <1> DEFINE J == Ranks(x, y, xi, yi)
  <1>10. J = [i \in 1 .. n |-> CHOOSE j \in 1 .. n : y[yi[j]] = x[xi[i]]]
    BY <1>4, <1>9 DEF Ranks
  <1>11. \A i \in 1 .. n : J[i] \in 1 .. n /\ y[yi[J[i]]] = x[xi[i]]
    <2> SUFFICES ASSUME NEW i \in 1 .. n PROVE J[i] \in 1 .. n /\ y[yi[J[i]]] = x[xi[i]]
      OBVIOUS
    <2>1. J[i] = CHOOSE j \in 1 .. n : y[yi[j]] = x[xi[i]]
      BY <1>10
    <2>2. \E j \in 1 .. n : y[yi[j]] = x[xi[i]]
      BY <1>7, <1>8
    <2> HIDE DEF J
    <2> QED BY <2>1, <2>2
  <1>12. J \in [1 .. n -> 1 .. n]
    BY <1>10, <1>11
  <1> HIDE DEF J
  <1>13. \A i, k \in 1 .. n : J[i] = J[k] => i = k
    BY <1>6, <1>11
  <1> QED BY <1>4, <1>5, <1>9, <1>11, <1>12, <1>13 DEF J

\* The loop of Lengths.
LEMMA LengthsLoop ==
  ASSUME NEW J, Len(J) \in Nat
  PROVE  \E f : /\ f[0] = [T |-> [z \in 1 .. Len(J) |-> Len(J) + 1], L |-> <<>>]
                /\ \A n \in 1 .. Len(J) : f[n] = Place(f[n - 1], J[n])
                /\ Lengths(J) = f[Len(J)].L
  <1> DEFINE len == Len(J)
             Body(f, n) == IF n = 0 THEN [T |-> [z \in 1 .. Len(J) |-> Len(J) + 1], L |-> <<>>] ELSE Place(f[n - 1], J[n])
             upTo[n \in 0 .. len] == IF n = 0 THEN [T |-> [z \in 1 .. Len(J) |-> Len(J) + 1], L |-> <<>>] ELSE Place(upTo[n - 1], J[n])
  <1>1. Lengths(J) = upTo[len].L
    BY DEF Lengths
  <1>2. \E f : f = [n \in 0 .. len |-> Body(f, n)]
    <2> DEFINE Lacking == {n \in 0 .. len : ~ \E f : f = [k \in 0 .. n |-> Body(f, k)]}
    <2>1. Lacking = {}
      <3> SUFFICES ASSUME Lacking # {} PROVE FALSE
        OBVIOUS
      <3>0. Lacking \subseteq Nat
        OBVIOUS
      <3>1. PICK n \in Lacking : \A m \in Lacking : n <= m
        BY <3>0, Least
      <3> HIDE DEF Body
      <3>2. CASE n = 0
        <4> DEFINE f == [k \in 0 .. 0 |-> [T |-> [z \in 1 .. Len(J) |-> Len(J) + 1], L |-> <<>>]]
        <4>1. \A k \in 0 .. 0 : Body(f, k) = f[k]
          BY DEF Body
        <4>2. f = [k \in 0 .. 0 |-> Body(f, k)]
          BY <4>1
        <4> HIDE DEF f
        <4> QED BY <3>2, <4>2
      <3>3. CASE n # 0
        <4>1. n - 1 \in 0 .. len /\ n \in 0 .. len /\ n - 1 \notin Lacking
          BY <3>1, <3>3
        <4>2. PICK f : f = [k \in 0 .. n - 1 |-> Body(f, k)]
          BY <4>1
        <4> DEFINE g == [k \in 0 .. n |-> IF k = n THEN Body(f, n) ELSE f[k]]
        <4>3. \A k \in 0 .. n - 1 : g[k] = f[k]
          BY <4>1
        <4>4. \A k \in 0 .. n : Body(g, k) = Body(f, k)
          BY <4>1, <4>3 DEF Body
        <4>5. \A k \in 0 .. n : g[k] = Body(g, k)
          <5> SUFFICES ASSUME NEW k \in 0 .. n PROVE g[k] = Body(g, k)
            OBVIOUS
          <5>1. CASE k = n
            BY <4>4, <5>1
          <5>2. CASE k # n
            <6>1. k \in 0 .. n - 1
              BY <4>1, <5>2
            <6>2. f[k] = Body(f, k)
              BY <4>2, <6>1
            <6> QED BY <4>3, <4>4, <6>1, <6>2
          <5> QED BY <5>1, <5>2
        <4>6. g = [k \in 0 .. n |-> Body(g, k)]
          BY <4>5
        <4> HIDE DEF g
        <4> QED BY <4>6
      <3> QED BY <3>2, <3>3
    <2> QED BY <2>1
  <1>3. upTo = [n \in 0 .. len |-> Body(upTo, n)]
    BY <1>2
  <1> HIDE DEF upTo
  <1>4. \A n \in 0 .. len : upTo[n] = Body(upTo, n)
    BY <1>3
  <1>5. upTo[0] = [T |-> [z \in 1 .. Len(J) |-> Len(J) + 1], L |-> <<>>]
    <2>1. upTo[0] = Body(upTo, 0)
      BY <1>4
    <2> QED BY <2>1
  <1>6. ASSUME NEW n \in 1 .. len PROVE upTo[n] = Place(upTo[n - 1], J[n])
    <2>1. n \in 0 .. len /\ n # 0
      OBVIOUS
    <2>2. upTo[n] = Body(upTo, n)
      BY <1>4, <2>1
    <2> QED BY <2>1, <2>2
  <1> QED BY <1>1, <1>5, <1>6

\* T after one more: the first entry that is not below j becomes j.
LEMMA PlaceIs ==
  ASSUME NEW n \in Nat, NEW i \in 1 .. n, NEW J, \A p \in 1 .. n : J[p] \in 1 .. n,
         NEW T \in [1 .. n -> Nat], NEW L, \A m \in 1 .. n : T[m] \in 1 .. n + 1,
         \A k \in 1 .. n : T[k] >= k,
         \A k, m \in 1 .. n : k < m => T[k] < T[m] \/ T[m] = n + 1
  PROVE  \E k \in 1 .. n :
           /\ Place([T |-> T, L |-> L], J[i]) = [T |-> [T EXCEPT ![k] = J[i]], L |-> Append(L, k)]
           /\ \A m \in 1 .. n : m < k => T[m] < J[i]
           /\ \A m \in 1 .. n : m >= k => T[m] >= J[i]
  <1> DEFINE high == {m \in 1 .. n : T[m] >= J[i]}
             k == Sets!Min(high)
  <1>1. high \subseteq Nat /\ high # {}
    <2>1. n \in 1 .. n /\ T[n] >= n /\ J[i] \in 1 .. n /\ T[n] \in 1 .. n + 1
      OBVIOUS
    <2>2. n \in high
      BY <2>1
    <2>3. high \subseteq Nat
      OBVIOUS
    <2> HIDE DEF high, k
    <2> QED BY <2>2, <2>3
  <1>2. k \in high /\ \A m \in high : k <= m
    BY <1>1, MinIs
  <1>3. Place([T |-> T, L |-> L], J[i]) = [T |-> [T EXCEPT ![k] = J[i]], L |-> Append(L, k)]
    <2>1. DOMAIN T = 1 .. n
      OBVIOUS
    <2>2. k = Sets!Min({m \in DOMAIN T : T[m] >= J[i]})
      BY <2>1
    <2> HIDE DEF k
    <2> QED BY <2>2 DEF Place
  <1> HIDE DEF k
  <1>4. \A m \in 1 .. n : m < k => T[m] < J[i]
    BY <1>2
  <1>5. ASSUME NEW m \in 1 .. n, m >= k PROVE T[m] >= J[i]
    <2>1. T[k] \in 1 .. n + 1 /\ T[m] \in 1 .. n + 1 /\ J[i] \in 1 .. n /\ T[k] >= J[i] /\ k \in 1 .. n
      BY <1>2
    <2>2. m = k \/ T[k] < T[m] \/ T[m] = n + 1
      BY <1>5, <2>1
    <2> QED BY <2>1, <2>2
  <1> QED BY <1>2, <1>3, <1>4, <1>5

\* What is kept from one place to the next: T rises until it has no entry, each
\* entry of it is the rank at a place of that length, and L tells the lengths of
\* increasing subsequences.
Table(T, n) ==
  /\ T \in [1 .. n -> Nat]
  /\ \A k \in 1 .. n : T[k] \in 1 .. n + 1
  /\ \A k \in 1 .. n : T[k] >= k
  /\ \A k, m \in 1 .. n : k < m => T[k] < T[m] \/ T[m] = n + 1
Typed(L, i, n) == L \in Seq(Nat) /\ Len(L) = i /\ \A p \in 1 .. i : L[p] \in 1 .. n
Ends(T, L, J, i, n) == \A k \in 1 .. n : T[k] = n + 1 \/ \E p \in 1 .. i : L[p] = k /\ J[p] = T[k]
Bounds(T, L, J, i) == \A p \in 1 .. i : T[L[p]] <= J[p]
Grows(L, J, i) == \A p, q \in 1 .. i : p < q /\ J[p] < J[q] => L[p] < L[q]
Follows(L, J, i) ==
  \A q \in 1 .. i : L[q] > 1 => \E p \in 1 .. i : p < q /\ L[p] = L[q] - 1 /\ J[p] < J[q]
Splits(T, n, k, j) ==
  /\ \A m \in 1 .. n : m < k => T[m] < j
  /\ \A m \in 1 .. n : m >= k => T[m] >= j

\* T keeps its order when an entry is replaced.
LEMMA TableStep ==
  ASSUME NEW n \in Nat, NEW j \in 1 .. n, NEW k \in 1 .. n, NEW T, Table(T, n), Splits(T, n, k, j)
  PROVE  Table([T EXCEPT ![k] = j], n)
  <1>1. PICK U : U = [T EXCEPT ![k] = j]
    OBVIOUS
  <1>2. T \in [1 .. n -> Nat] /\ j \in Nat
    BY DEF Table
  <1>3. U \in [1 .. n -> Nat] /\ U[k] = j /\ \A m \in 1 .. n : m # k => U[m] = T[m]
    BY <1>1, <1>2
  <1>4. (\A m \in 1 .. n : T[m] \in 1 .. n + 1) /\ \A m \in 1 .. n : T[m] >= m
    BY DEF Table
  <1>5. \A l, m \in 1 .. n : l < m => T[l] < T[m] \/ T[m] = n + 1
    BY DEF Table
  <1>6. (\A m \in 1 .. n : m < k => T[m] < j) /\ \A m \in 1 .. n : m >= k => T[m] >= j
    BY DEF Splits
  <1> HIDE DEF Table
  <1>7. ASSUME NEW m \in 1 .. n PROVE U[m] \in 1 .. n + 1 /\ U[m] >= m
    <2>1. CASE m = k
      <3>1. CASE k = 1
        BY <1>3, <2>1, <3>1
      <3>2. CASE k # 1
        <4>1. k - 1 \in 1 .. n /\ k - 1 < k
          BY <3>2
        <4>2. T[k - 1] < j /\ T[k - 1] >= k - 1 /\ T[k - 1] \in 1 .. n + 1
          BY <1>4, <1>6, <4>1
        <4>3. j >= k
          BY <4>2
        <4> QED BY <1>3, <2>1, <4>3
      <3> QED BY <3>1, <3>2
    <2>2. CASE m # k
      BY <1>3, <1>4, <2>2
    <2> QED BY <2>1, <2>2
  <1>8. ASSUME NEW l \in 1 .. n, NEW m \in 1 .. n, l < m PROVE U[l] < U[m] \/ U[m] = n + 1
    <2>1. T[l] < T[m] \/ T[m] = n + 1
      BY <1>5, <1>8
    <2>2. CASE m = k
      BY <1>3, <1>6, <1>8, <2>2
    <2>3. CASE l = k
      <3>1. T[k] >= j /\ U[m] = T[m] /\ U[l] = j /\ T[k] \in 1 .. n + 1 /\ T[m] \in 1 .. n + 1
        BY <1>3, <1>4, <1>6, <1>8, <2>3
      <3> QED BY <2>1, <2>3, <3>1
    <2>4. CASE m # k /\ l # k
      BY <1>3, <2>1, <2>4
    <2> QED BY <2>2, <2>3, <2>4
  <1>9. Table(U, n)
    BY <1>3, <1>7, <1>8 DEF Table
  <1> QED BY <1>1, <1>9

\* L keeps telling the lengths, with one place more.
LEMMA LengthsStep ==
  ASSUME NEW n \in Nat, NEW i \in 1 .. n, NEW k \in 1 .. n,
         NEW T, NEW U, NEW L, NEW M, NEW J, \A p \in 1 .. n : J[p] \in 1 .. n,
         Table(T, n), Splits(T, n, k, J[i]), Typed(L, i - 1, n),
         Ends(T, L, J, i - 1, n), Bounds(T, L, J, i - 1), Grows(L, J, i - 1), Follows(L, J, i - 1),
         U = [T EXCEPT ![k] = J[i]], M = Append(L, k)
  PROVE  Typed(M, i, n) /\ Ends(U, M, J, i, n) /\ Bounds(U, M, J, i) /\ Grows(M, J, i) /\ Follows(M, J, i)
  <1>1. /\ M \in Seq(Nat)
        /\ Len(M) = i
        /\ M[i] = k /\ \A p \in 1 .. i - 1 : M[p] = L[p]
    <2>1. L \in Seq(Nat) /\ Len(L) = i - 1 /\ k \in Nat
      BY DEF Typed
    <2> QED BY <2>1, AppendProperties
  <1>2. \A p \in 1 .. i - 1 : L[p] \in 1 .. n
    BY DEF Typed
  <1>3. \A p \in 1 .. i : p = i \/ p \in 1 .. i - 1
    OBVIOUS
  <1>4. \A p \in 1 .. i - 1 : p \in 1 .. i /\ p \in 1 .. n /\ p < i
    OBVIOUS
  <1>5. J[i] \in 1 .. n /\ i \in 1 .. i
    OBVIOUS
  <1>6. U[k] = J[i] /\ \A m \in 1 .. n : m # k => U[m] = T[m]
    <2>1. T \in [1 .. n -> Nat]
      BY DEF Table
    <2> QED BY <2>1
  <1>7. \A m \in 1 .. n : T[m] \in 1 .. n + 1
    BY DEF Table
  <1>8. (\A m \in 1 .. n : m < k => T[m] < J[i]) /\ \A m \in 1 .. n : m >= k => T[m] >= J[i]
    BY DEF Splits
  <1>a. \A m \in 1 .. n : T[m] = n + 1 \/ \E p \in 1 .. i - 1 : L[p] = m /\ J[p] = T[m]
    BY DEF Ends
  <1>b. \A p \in 1 .. i - 1 : T[L[p]] <= J[p]
    BY DEF Bounds
  <1>c. \A p, q \in 1 .. i - 1 : p < q /\ J[p] < J[q] => L[p] < L[q]
    BY DEF Grows
  <1>d. \A q \in 1 .. i - 1 : L[q] > 1 => \E p \in 1 .. i - 1 : p < q /\ L[p] = L[q] - 1 /\ J[p] < J[q]
    BY DEF Follows
  <1>9. Typed(M, i, n)
    <2>1. \A p \in 1 .. i : M[p] \in 1 .. n
      BY <1>1, <1>2, <1>3
    <2> QED BY <1>1, <2>1 DEF Typed
  <1>10. Ends(U, M, J, i, n)
    <2> SUFFICES ASSUME NEW m \in 1 .. n
                 PROVE  U[m] = n + 1 \/ \E p \in 1 .. i : M[p] = m /\ J[p] = U[m]
      BY DEF Ends
    <2>1. CASE m = k
      BY <1>1, <1>5, <1>6, <2>1
    <2>2. CASE m # k
      <3>1. U[m] = T[m]
        BY <1>6, <2>2
      <3>2. CASE T[m] # n + 1
        <4>1. PICK p \in 1 .. i - 1 : L[p] = m /\ J[p] = T[m]
          BY <1>a, <3>2
        <4> QED BY <1>1, <1>4, <3>1, <4>1
      <3> QED BY <3>1, <3>2
    <2> QED BY <2>1, <2>2
  <1>11. Bounds(U, M, J, i)
    <2> SUFFICES ASSUME NEW p \in 1 .. i PROVE U[M[p]] <= J[p]
      BY DEF Bounds
    <2>1. CASE p = i
      <3>1. U[M[p]] = J[i] /\ J[p] = J[i]
        BY <1>1, <1>6, <2>1
      <3>2. J[i] <= J[i]
        BY <1>5
      <3> QED BY <3>1, <3>2
    <2>2. CASE p \in 1 .. i - 1
      <3>1. PICK l \in 1 .. n : l = L[p] /\ M[p] = l
        BY <1>1, <1>2, <2>2
      <3>2. T[l] <= J[p] /\ J[p] \in 1 .. n /\ T[l] \in 1 .. n + 1
        BY <1>b, <1>4, <1>7, <2>2, <3>1
      <3>3. CASE l = k
        <4>1. T[l] >= J[i] /\ U[l] = J[i]
          BY <1>6, <1>8, <3>3
        <4> QED BY <1>5, <3>1, <3>2, <4>1
      <3>4. CASE l # k
        BY <1>6, <3>1, <3>2, <3>4
      <3> QED BY <3>3, <3>4
    <2> QED BY <1>3, <2>1, <2>2
  <1>12. Grows(M, J, i)
    <2> SUFFICES ASSUME NEW p \in 1 .. i, NEW q \in 1 .. i, p < q, J[p] < J[q] PROVE M[p] < M[q]
      BY DEF Grows
    <2>a. p \in 1 .. i - 1
      OBVIOUS
    <2>1. PICK l \in 1 .. n : l = L[p] /\ M[p] = l
      BY <1>1, <1>2, <2>a
    <2>2. CASE q = i
      <3>1. T[l] <= J[p] /\ T[l] \in 1 .. n + 1 /\ J[p] \in 1 .. n
        BY <1>b, <1>4, <1>7, <2>a, <2>1
      <3>2. ~(l >= k)
        <4>1. l >= k => T[l] >= J[i]
          BY <1>8
        <4> QED BY <1>5, <2>2, <3>1, <4>1
      <3> QED BY <1>1, <2>1, <2>2, <3>2
    <2>3. CASE q \in 1 .. i - 1
      <3>1. L[p] < L[q] /\ M[q] = L[q]
        BY <1>1, <1>c, <2>a, <2>3
      <3> QED BY <2>1, <3>1
    <2> QED BY <1>3, <2>2, <2>3
  <1>13. Follows(M, J, i)
    <2> SUFFICES ASSUME NEW q \in 1 .. i, M[q] > 1
                 PROVE  \E p \in 1 .. i : p < q /\ M[p] = M[q] - 1 /\ J[p] < J[q]
      BY DEF Follows
    <2>1. CASE q = i
      <3>1. k - 1 \in 1 .. n /\ k - 1 < k
        BY <1>1, <2>1
      <3>2. T[k - 1] < J[i] /\ T[k - 1] \in 1 .. n + 1
        BY <1>7, <1>8, <3>1
      <3>3. T[k - 1] # n + 1
        BY <1>5, <3>2
      <3>4. PICK p \in 1 .. i - 1 : L[p] = k - 1 /\ J[p] = T[k - 1]
        BY <1>a, <3>1, <3>3
      <3>5. p \in 1 .. i /\ p < q /\ M[p] = M[q] - 1 /\ J[p] < J[q]
        BY <1>1, <1>4, <2>1, <3>2, <3>4
      <3> QED BY <3>5
    <2>2. CASE q \in 1 .. i - 1
      <3>1. PICK p \in 1 .. i - 1 : p < q /\ L[p] = L[q] - 1 /\ J[p] < J[q]
        BY <1>1, <1>d, <2>2
      <3>2. p \in 1 .. i /\ M[p] = L[p] /\ M[q] = L[q]
        BY <1>1, <1>4, <2>2, <3>1
      <3> QED BY <3>1, <3>2
    <2> QED BY <1>3, <2>1, <2>2
  <1> QED BY <1>9, <1>10, <1>11, <1>12, <1>13

\* Lengths are those of increasing subsequences, and the longest such: they grow
\* along every increasing subsequence, and one that ends at some place can be
\* followed back from it.
LEMMA LengthsAre ==
  ASSUME NEW n \in Nat, NEW J, Len(J) = n, \A p \in 1 .. n : J[p] \in 1 .. n
  PROVE  /\ Typed(Lengths(J), n, n)
         /\ Grows(Lengths(J), J, n)
         /\ Follows(Lengths(J), J, n)
  <1> DEFINE Right(st, i) ==
               \E T, L :
                 /\ st = [T |-> T, L |-> L] /\ Table(T, n) /\ Typed(L, i, n)
                 /\ Ends(T, L, J, i, n) /\ Bounds(T, L, J, i) /\ Grows(L, J, i) /\ Follows(L, J, i)
  <1>1. PICK f : /\ f[0] = [T |-> [z \in 1 .. n |-> n + 1], L |-> <<>>]
                 /\ \A i \in 1 .. n : f[i] = Place(f[i - 1], J[i])
                 /\ Lengths(J) = f[n].L
    BY LengthsLoop
  <1>2. Right(f[0], 0)
    <2>1. PICK T : T = [z \in 1 .. n |-> n + 1]
      OBVIOUS
    <2>2. T \in [1 .. n -> Nat] /\ \A k \in 1 .. n : T[k] = n + 1
      BY <2>1
    <2>3. Table(T, n)
      BY <2>2 DEF Table
    <2>4. Typed(<<>>, 0, n)
      BY DEF Typed
    <2>5. Ends(T, <<>>, J, 0, n) /\ Bounds(T, <<>>, J, 0)
      BY <2>2 DEF Ends, Bounds
    <2>6. Grows(<<>>, J, 0) /\ Follows(<<>>, J, 0)
      BY DEF Grows, Follows
    <2>7. f[0] = [T |-> T, L |-> <<>>]
      BY <1>1, <2>1
    <2> QED BY <2>3, <2>4, <2>5, <2>6, <2>7
  <1>3. ASSUME NEW i \in 1 .. n, Right(f[i - 1], i - 1) PROVE Right(f[i], i)
    <2>1. PICK T, L :
             /\ f[i - 1] = [T |-> T, L |-> L] /\ Table(T, n) /\ Typed(L, i - 1, n)
             /\ Ends(T, L, J, i - 1, n) /\ Bounds(T, L, J, i - 1)
             /\ Grows(L, J, i - 1) /\ Follows(L, J, i - 1)
      BY <1>3
    <2>2. PICK k \in 1 .. n :
             /\ Place([T |-> T, L |-> L], J[i]) = [T |-> [T EXCEPT ![k] = J[i]], L |-> Append(L, k)]
             /\ Splits(T, n, k, J[i])
      <3>1. T \in [1 .. n -> Nat] /\ \A m \in 1 .. n : T[m] \in 1 .. n + 1
        BY <2>1 DEF Table
      <3>2. /\ \A m \in 1 .. n : T[m] >= m
            /\ \A l, m \in 1 .. n : l < m => T[l] < T[m] \/ T[m] = n + 1
        BY <2>1 DEF Table
      <3> QED BY <3>1, <3>2, PlaceIs, ZenonT(30) DEF Splits
    <2>3. PICK U, M : U = [T EXCEPT ![k] = J[i]] /\ M = Append(L, k)
      OBVIOUS
    <2>4. f[i] = [T |-> U, L |-> M]
      BY <1>1, <2>1, <2>2, <2>3
    <2>5. Table(U, n)
      <3>1. J[i] \in 1 .. n
        OBVIOUS
      <3> QED BY <2>1, <2>2, <2>3, <3>1, TableStep
    <2>6. Typed(M, i, n) /\ Ends(U, M, J, i, n) /\ Bounds(U, M, J, i) /\ Grows(M, J, i) /\ Follows(M, J, i)
      BY <2>1, <2>2, <2>3, LengthsStep
    <2> QED BY <2>4, <2>5, <2>6
  <1>4. Right(f[n], n)
    <2> DEFINE Wrong == {i \in 0 .. n : ~Right(f[i], i)}
    <2> HIDE DEF Right
    <2> SUFFICES ASSUME Wrong # {} PROVE FALSE
      OBVIOUS
    <2>1. Wrong \subseteq Nat
      OBVIOUS
    <2>2. PICK i \in Wrong : \A m \in Wrong : i <= m
      BY <2>1, Least
    <2>3. i # 0
      BY <1>2, <2>2
    <2>4. i \in 1 .. n /\ i - 1 \in 0 .. n /\ i - 1 \notin Wrong
      BY <2>2, <2>3
    <2> QED BY <1>3, <2>2, <2>4
  <1>5. PICK L : f[n].L = L /\ Typed(L, n, n) /\ Grows(L, J, n) /\ Follows(L, J, n)
    BY <1>4
  <1> QED BY <1>1, <1>5

\* The loop of Chosen.
LEMMA ChosenLoop ==
  ASSUME NEW L, Len(L) \in Nat
  PROVE  \E f : /\ f[0] = [k |-> Longest(L), seq |-> <<>>]
                /\ \A n \in 1 .. Len(L) : f[n] = Take(f[n - 1], L, Len(L) + 1 - n)
                /\ Chosen(L) = f[Len(L)].seq
  <1> DEFINE len == Len(L)
             Body(f, n) == IF n = 0 THEN [k |-> Longest(L), seq |-> <<>>] ELSE Take(f[n - 1], L, Len(L) + 1 - n)
             after[n \in 0 .. len] == IF n = 0 THEN [k |-> Longest(L), seq |-> <<>>] ELSE Take(after[n - 1], L, Len(L) + 1 - n)
  <1>1. Chosen(L) = after[len].seq
    BY DEF Chosen
  <1>2. \E f : f = [n \in 0 .. len |-> Body(f, n)]
    <2> DEFINE Lacking == {n \in 0 .. len : ~ \E f : f = [k \in 0 .. n |-> Body(f, k)]}
    <2>1. Lacking = {}
      <3> SUFFICES ASSUME Lacking # {} PROVE FALSE
        OBVIOUS
      <3>0. Lacking \subseteq Nat
        OBVIOUS
      <3>1. PICK n \in Lacking : \A m \in Lacking : n <= m
        BY <3>0, Least
      <3> HIDE DEF Body
      <3>2. CASE n = 0
        <4> DEFINE f == [k \in 0 .. 0 |-> [k |-> Longest(L), seq |-> <<>>]]
        <4>1. \A k \in 0 .. 0 : Body(f, k) = f[k]
          BY DEF Body
        <4>2. f = [k \in 0 .. 0 |-> Body(f, k)]
          BY <4>1
        <4> HIDE DEF f
        <4> QED BY <3>2, <4>2
      <3>3. CASE n # 0
        <4>1. n - 1 \in 0 .. len /\ n \in 0 .. len /\ n - 1 \notin Lacking
          BY <3>1, <3>3
        <4>2. PICK f : f = [k \in 0 .. n - 1 |-> Body(f, k)]
          BY <4>1
        <4> DEFINE g == [k \in 0 .. n |-> IF k = n THEN Body(f, n) ELSE f[k]]
        <4>3. \A k \in 0 .. n - 1 : g[k] = f[k]
          BY <4>1
        <4>4. \A k \in 0 .. n : Body(g, k) = Body(f, k)
          BY <4>1, <4>3 DEF Body
        <4>5. \A k \in 0 .. n : g[k] = Body(g, k)
          <5> SUFFICES ASSUME NEW k \in 0 .. n PROVE g[k] = Body(g, k)
            OBVIOUS
          <5>1. CASE k = n
            BY <4>4, <5>1
          <5>2. CASE k # n
            <6>1. k \in 0 .. n - 1
              BY <4>1, <5>2
            <6>2. f[k] = Body(f, k)
              BY <4>2, <6>1
            <6> QED BY <4>3, <4>4, <6>1, <6>2
          <5> QED BY <5>1, <5>2
        <4>6. g = [k \in 0 .. n |-> Body(g, k)]
          BY <4>5
        <4> HIDE DEF g
        <4> QED BY <4>6
      <3> QED BY <3>2, <3>3
    <2> QED BY <2>1
  <1>3. after = [n \in 0 .. len |-> Body(after, n)]
    BY <1>2
  <1> HIDE DEF after
  <1>4. \A n \in 0 .. len : after[n] = Body(after, n)
    BY <1>3
  <1>5. after[0] = [k |-> Longest(L), seq |-> <<>>]
    <2>1. after[0] = Body(after, 0)
      BY <1>4
    <2> QED BY <2>1
  <1>6. ASSUME NEW n \in 1 .. len PROVE after[n] = Take(after[n - 1], L, Len(L) + 1 - n)
    <2>1. n \in 0 .. len /\ n # 0
      OBVIOUS
    <2>2. after[n] = Body(after, n)
      BY <1>4, <2>1
    <2> QED BY <2>1, <2>2
  <1> QED BY <1>1, <1>5, <1>6

\* What is chosen from the places after q: places in order, of rising ranks; and
\* of the length that is looked for, one is still to come, of a lower rank.
Rises(seq, J, q, n) ==
  /\ seq \in Seq(Nat)
  /\ \A a \in 1 .. Len(seq) : seq[a] \in q + 1 .. n
  /\ \A a, b \in 1 .. Len(seq) : a < b => seq[a] < seq[b] /\ J[seq[a]] < J[seq[b]]
Pending(k, seq, L, J, q) ==
  k = 0 \/ \E p \in 1 .. q : L[p] = k /\ (Len(seq) > 0 => J[p] < J[seq[1]])

\* One more place is taken, before those that were.
LEMMA TakeStep ==
  ASSUME NEW n \in Nat, NEW q \in 1 .. n, NEW L, NEW J, NEW k \in Nat, NEW seq, L[q] = k,
         \A p \in 1 .. n : J[p] \in 1 .. n,
         Typed(L, n, n), Grows(L, J, n), Follows(L, J, n),
         Rises(seq, J, q, n), Pending(k, seq, L, J, q)
  PROVE  /\ Rises(<<q>> \o seq, J, q - 1, n) /\ Pending(k - 1, <<q>> \o seq, L, J, q - 1)
         /\ Len(<<q>> \o seq) = Len(seq) + 1 /\ k - 1 \in Nat
  <1>1. PICK w : w = <<q>> \o seq
    OBVIOUS
  <1>2. PICK len : len = Len(seq)
    OBVIOUS
  <1>3. seq \in Seq(Nat) /\ <<q>> \in Seq(Nat) /\ Len(<<q>>) = 1 /\ <<q>>[1] = q
    BY DEF Rises
  <1>4. len \in Nat
    BY <1>2, <1>3
  <1>5. w \in Seq(Nat) /\ Len(w) = len + 1 /\ w[1] = q /\ \A a \in 2 .. len + 1 : w[a] = seq[a - 1]
    <2>1. w \in Seq(Nat) /\ Len(w) = 1 + len
      BY <1>1, <1>2, <1>3, ConcatProperties
    <2>2. \A a \in 1 .. 1 + len : w[a] = IF a <= 1 THEN <<q>>[a] ELSE seq[a - 1]
      BY <1>1, <1>2, <1>3, ConcatProperties
    <2> QED BY <1>3, <1>4, <2>1, <2>2
  <1>6. L[q] \in 1 .. n
    BY DEF Typed
  <1>7. \A a \in 1 .. len : seq[a] \in q + 1 .. n
    BY <1>2 DEF Rises
  <1>8. \A a, b \in 1 .. len : a < b => seq[a] < seq[b] /\ J[seq[a]] < J[seq[b]]
    BY <1>2 DEF Rises
  <1>9. len > 0 => J[q] < J[seq[1]]
    <2> SUFFICES ASSUME len > 0 PROVE J[q] < J[seq[1]]
      OBVIOUS
    <2>1. PICK p \in 1 .. q : L[p] = k /\ J[p] < J[seq[1]]
      BY <1>2, <1>6 DEF Pending
    <2>2. ~(p < q /\ J[p] < J[q])
      <3>1. p \in 1 .. n
        OBVIOUS
      <3>2. p < q /\ J[p] < J[q] => L[p] < L[q]
        BY <3>1 DEF Grows
      <3> QED BY <1>6, <2>1, <3>2
    <2>3. seq[1] \in 1 .. n
      BY <1>4, <1>7
    <2>4. J[p] \in 1 .. n /\ J[q] \in 1 .. n /\ J[seq[1]] \in 1 .. n
      BY <2>3
    <2> QED BY <2>1, <2>2, <2>4
  <1>10. ASSUME NEW a \in 1 .. len PROVE seq[a] > q /\ J[seq[a]] > J[q]
    <2>1. seq[a] \in q + 1 .. n /\ seq[1] \in 1 .. n /\ seq[a] \in 1 .. n
      BY <1>4, <1>7
    <2>2. J[seq[a]] \in 1 .. n /\ J[seq[1]] \in 1 .. n /\ J[q] \in 1 .. n
      BY <2>1
    <2>3. a = 1 \/ J[seq[1]] < J[seq[a]]
      BY <1>4, <1>8
    <2> QED BY <1>4, <1>9, <2>1, <2>2, <2>3
  <1>11. Rises(w, J, q - 1, n)
    <2>1. \A a \in 1 .. len + 1 : a = 1 \/ (a \in 2 .. len + 1 /\ a - 1 \in 1 .. len)
      BY <1>4
    <2>2. ASSUME NEW a \in 1 .. len + 1 PROVE w[a] \in q .. n
      <3>1. CASE a = 1
        BY <1>5, <3>1
      <3>2. CASE a # 1
        <4>1. w[a] = seq[a - 1] /\ seq[a - 1] \in q + 1 .. n
          BY <1>5, <1>7, <2>1, <3>2
        <4> QED BY <4>1
      <3> QED BY <3>1, <3>2
    <2>3. ASSUME NEW a \in 1 .. len + 1, NEW b \in 1 .. len + 1, a < b
          PROVE  w[a] < w[b] /\ J[w[a]] < J[w[b]]
      <3>1. b - 1 \in 1 .. len /\ w[b] = seq[b - 1]
        BY <1>4, <1>5, <2>1, <2>3
      <3>2. CASE a = 1
        <4>1. seq[b - 1] > q /\ J[seq[b - 1]] > J[q]
          BY <1>10, <3>1
        <4>2. w[a] = q
          BY <1>5, <3>2
        <4> QED BY <3>1, <4>1, <4>2
      <3>3. CASE a # 1
        <4>1. a - 1 \in 1 .. len /\ w[a] = seq[a - 1] /\ a - 1 < b - 1
          BY <1>4, <1>5, <2>1, <2>3, <3>3
        <4> QED BY <1>8, <3>1, <4>1
      <3> QED BY <3>2, <3>3
    <2>4. q - 1 + 1 = q
      OBVIOUS
    <2> QED BY <1>5, <2>2, <2>3, <2>4 DEF Rises
  <1>12. k - 1 \in Nat
    BY <1>6
  <1>13. Pending(k - 1, w, L, J, q - 1)
    <2> SUFFICES ASSUME k - 1 # 0 PROVE Pending(k - 1, w, L, J, q - 1)
      BY DEF Pending
    <2>1. L[q] > 1
      BY <1>12
    <2>2. PICK p \in 1 .. n : p < q /\ L[p] = L[q] - 1 /\ J[p] < J[q]
      BY <2>1 DEF Follows
    <2>3. p \in 1 .. q - 1 /\ L[p] = k - 1 /\ J[p] < J[w[1]]
      BY <1>5, <2>2
    <2> QED BY <2>3 DEF Pending
  <1> QED BY <1>1, <1>2, <1>5, <1>11, <1>12, <1>13

\* What is chosen is in order on both sides, and as long as the greatest length.
LEMMA ChosenAre ==
  ASSUME NEW n \in Nat, NEW L, NEW J, \A p \in 1 .. n : J[p] \in 1 .. n,
         Typed(L, n, n), Grows(L, J, n), Follows(L, J, n)
  PROVE  /\ Rises(Chosen(L), J, 0, n)
         /\ Len(Chosen(L)) \in Nat
         /\ \A p \in 1 .. n : L[p] <= Len(Chosen(L))
  <1>1. Len(L) = n /\ L \in Seq(Nat) /\ \A p \in 1 .. n : L[p] \in 1 .. n
    BY DEF Typed
  <1>2. PICK f : /\ f[0] = [k |-> Longest(L), seq |-> <<>>]
                 /\ \A i \in 1 .. n : f[i] = Take(f[i - 1], L, n + 1 - i)
                 /\ Chosen(L) = f[n].seq
    BY <1>1, ChosenLoop
  <1>3. PICK top : top = Longest(L)
    OBVIOUS
  <1>4. /\ top \in Nat
        /\ \A p \in 1 .. n : L[p] <= top
        /\ top = 0 \/ \E p \in 1 .. n : L[p] = top
    <2>1. PICK T : T = {L[i] : i \in DOMAIN L} \cup {0}
      OBVIOUS
    <2>2. DOMAIN L = 1 .. n
      BY <1>1
    <2>3. T \subseteq 0 .. n /\ T # {}
      BY <1>1, <2>1, <2>2
    <2>4. top \in T /\ \A m \in T : top >= m
      BY <1>3, <2>1, <2>3, MaxIs DEF Longest
    <2>5. top \in Nat
      BY <2>3, <2>4
    <2>6. \A p \in 1 .. n : L[p] \in T
      BY <2>1, <2>2
    <2>7. \A p \in 1 .. n : L[p] <= top
      BY <2>4, <2>6
    <2>8. top = 0 \/ \E p \in 1 .. n : L[p] = top
      BY <2>1, <2>2, <2>4
    <2> QED BY <2>5, <2>7, <2>8
  <1> DEFINE Right(st, i) ==
               \E k, seq :
                 /\ k \in Nat /\ st = [k |-> k, seq |-> seq] /\ Len(seq) = top - k
                 /\ Rises(seq, J, n - i, n) /\ Pending(k, seq, L, J, n - i)
  <1>5. Right(f[0], 0)
    <2>1. Rises(<<>>, J, n, n)
      BY DEF Rises
    <2>2. Pending(top, <<>>, L, J, n)
      BY <1>4 DEF Pending
    <2>3. Len(<<>>) = top - top /\ f[0] = [k |-> top, seq |-> <<>>] /\ n - 0 = n
      BY <1>2, <1>3, <1>4
    <2> QED BY <1>4, <2>1, <2>2, <2>3
  <1>6. ASSUME NEW i \in 1 .. n, Right(f[i - 1], i - 1) PROVE Right(f[i], i)
    <2>1. PICK k, seq :
             /\ k \in Nat /\ f[i - 1] = [k |-> k, seq |-> seq] /\ Len(seq) = top - k
             /\ Rises(seq, J, n - (i - 1), n) /\ Pending(k, seq, L, J, n - (i - 1))
      BY <1>6
    <2>2. PICK q \in 1 .. n : q = n + 1 - i
      OBVIOUS
    <2>3. n - (i - 1) = q /\ n - i = q - 1
      BY <2>2
    <2>4. f[i] = Take([k |-> k, seq |-> seq], L, q)
      BY <1>2, <2>1, <2>2
    <2>5. CASE L[q] = k
      <3>1. f[i] = [k |-> k - 1, seq |-> <<q>> \o seq]
        BY <2>4, <2>5 DEF Take
      <3>2. /\ Rises(<<q>> \o seq, J, q - 1, n) /\ Pending(k - 1, <<q>> \o seq, L, J, q - 1)
            /\ Len(<<q>> \o seq) = Len(seq) + 1 /\ k - 1 \in Nat
        BY <2>1, <2>3, <2>5, TakeStep
      <3>3. Len(<<q>> \o seq) = top - (k - 1)
        BY <1>4, <2>1, <3>2
      <3> QED BY <2>3, <3>1, <3>2, <3>3
    <2>6. CASE L[q] # k
      <3>1. f[i] = [k |-> k, seq |-> seq]
        BY <2>4, <2>6 DEF Take
      <3>2. Rises(seq, J, q - 1, n)
        <4>1. Rises(seq, J, q, n)
          BY <2>1, <2>3
        <4>2. \A a \in 1 .. Len(seq) : seq[a] \in q - 1 + 1 .. n
          BY <4>1 DEF Rises
        <4> QED BY <4>1, <4>2 DEF Rises
      <3>3. Pending(k, seq, L, J, q - 1)
        <4>1. Pending(k, seq, L, J, q)
          BY <2>1, <2>3
        <4>2. \A p \in 1 .. q : L[p] = k => p \in 1 .. q - 1
          BY <2>6
        <4> QED BY <4>1, <4>2 DEF Pending
      <3> QED BY <2>1, <2>3, <3>1, <3>2, <3>3
    <2> QED BY <2>5, <2>6
  <1>7. Right(f[n], n)
    <2> DEFINE Wrong == {i \in 0 .. n : ~Right(f[i], i)}
    <2> HIDE DEF Right
    <2> SUFFICES ASSUME Wrong # {} PROVE FALSE
      OBVIOUS
    <2>1. Wrong \subseteq Nat
      OBVIOUS
    <2>2. PICK i \in Wrong : \A m \in Wrong : i <= m
      BY <2>1, Least
    <2>3. i # 0
      BY <1>5, <2>2
    <2>4. i \in 1 .. n /\ i - 1 \in 0 .. n /\ i - 1 \notin Wrong
      BY <2>2, <2>3
    <2> QED BY <1>6, <2>2, <2>4
  <1>8. PICK k, seq : /\ k \in Nat /\ f[n] = [k |-> k, seq |-> seq]
                      /\ Len(seq) = top - k
                      /\ Rises(seq, J, 0, n) /\ Pending(k, seq, L, J, 0)
    BY <1>7
  <1>9. k = 0
    BY <1>8 DEF Pending
  <1>10. Chosen(L) = seq /\ Len(seq) = top
    BY <1>2, <1>4, <1>8, <1>9
  <1> QED BY <1>4, <1>8, <1>10

\* No subsequence that is in order on both sides is longer.
LEMMA NoneLonger ==
  ASSUME NEW n \in Nat, NEW L, NEW J, NEW top \in Nat, NEW P, P \subseteq 1 .. n,
         Typed(L, n, n), Grows(L, J, n), \A p \in 1 .. n : L[p] <= top,
         \A p, q \in P : p < q => J[p] < J[q]
  PROVE  IsFiniteSet(P) /\ Cardinality(P) <= top
  <1> DEFINE f == [p \in P |-> L[p]]
  <1>1. \A p \in 1 .. n : L[p] \in 1 .. n
    BY DEF Typed
  <1>2. f \in [P -> 1 .. top]
    <2>1. \A p \in P : L[p] \in 1 .. top
      BY <1>1
    <2> QED BY <2>1
  <1>3. ASSUME NEW p \in P, NEW q \in P, L[p] = L[q] PROVE p = q
    <2>1. p \in 1 .. n /\ q \in 1 .. n /\ L[p] \in 1 .. n /\ L[q] \in 1 .. n
      BY <1>1
    <2>2. p < q => L[p] < L[q]
      BY <2>1 DEF Grows
    <2>3. q < p => L[q] < L[p]
      BY <2>1 DEF Grows
    <2> QED BY <1>3, <2>1, <2>2, <2>3
  <1>4. f \in Injection(P, 1 .. top)
    <2>1. \A p, q \in P : f[p] = f[q] => p = q
      BY <1>3
    <2> HIDE DEF f
    <2> QED BY <1>2, <2>1, Fun_IsInj
  <1>5. IsFiniteSet(1 .. top) /\ Cardinality(1 .. top) = top
    BY FS_Interval
  <1> HIDE DEF f
  <1> QED BY <1>4, <1>5, FS_Injection

\* Where unique lines are, in rising order on the side of x; J are their ranks in y.
Ranked(x, y, u, xi, yi, J, n) ==
  /\ n \in Nat
  /\ \A p \in 1 .. n : xi[p] \in 1 .. Len(x) /\ yi[p] \in 1 .. Len(y) /\ J[p] \in 1 .. n
  /\ \A p, q \in 1 .. n : p < q => xi[p] < xi[q] /\ yi[p] < yi[q]
  /\ \A p \in 1 .. n : x[xi[p]] \in u /\ y[yi[J[p]]] = x[xi[p]]
  /\ \A s \in u : \E p \in 1 .. n : x[xi[p]] = s

\* So the positions and ranks that tgs computes are.
LEMMA UniquesRanked ==
  ASSUME NEW A, NEW x \in Seq(A), NEW y \in Seq(A), NEW u, NEW xi, NEW yi, NEW J,
         u = Uniques(x, y), xi = Positions(x, u), yi = Positions(y, u), J = Ranks(x, y, xi, yi)
  PROVE  Ranked(x, y, u, xi, yi, J, Len(xi)) /\ Len(J) = Len(xi)
  <1>1. PICK n : n = Len(xi)
    OBVIOUS
  <1>2. (\A s \in u : Once(x, s)) /\ (\A s \in u : Once(y, s))
    BY DEF Uniques
  <1>3. n \in Nat /\ Len(yi) = n /\ DOMAIN xi = 1 .. n /\ DOMAIN yi = 1 .. n
    BY <1>1, RanksAre
  <1>j. J \in [1 .. n -> 1 .. n]
    BY <1>1, RanksAre
  <1>y. \A i \in 1 .. n : y[yi[J[i]]] = x[xi[i]]
    BY <1>1, RanksAre
  <1>4. \A p \in 1 .. n : xi[p] \in 1 .. Len(x)
    <2>1. xi \in Seq(1 .. Len(x))
      BY PositionsAre
    <2> QED BY <1>1, <2>1, LenProperties
  <1>5. \A p \in 1 .. n : yi[p] \in 1 .. Len(y)
    <2>1. yi \in Seq(1 .. Len(y))
      BY PositionsAre
    <2> QED BY <1>3, <2>1, LenProperties
  <1>6. \A p, q \in 1 .. n : p < q => xi[p] < xi[q]
    <2>1. \A p, q \in DOMAIN xi : p < q => xi[p] < xi[q]
      BY PositionsAre
    <2>2. DOMAIN xi = 1 .. n
      BY <1>3
    <2> QED BY <2>1, <2>2
  <1>7. \A p, q \in 1 .. n : p < q => yi[p] < yi[q]
    <2>1. \A p, q \in DOMAIN yi : p < q => yi[p] < yi[q]
      BY PositionsAre
    <2>2. DOMAIN yi = 1 .. n
      BY <1>3
    <2> QED BY <2>1, <2>2
  <1>8. \A p \in 1 .. n : x[xi[p]] \in u
    <2>1. DOMAIN x = 1 .. Len(x)
      OBVIOUS
    <2> QED BY <1>3, <1>4, <2>1, PositionsAre
  <1>9. \A s \in u : \E p \in 1 .. n : x[xi[p]] = s
    BY <1>2, <1>3, UniquesCounted
  <1>10. \A p \in 1 .. n : J[p] \in 1 .. n
    BY <1>j
  <1>11. Len(J) = n
    BY <1>3, <1>j
  <1>12. Ranked(x, y, u, xi, yi, J, n)
    <2>1. \A p \in 1 .. n : y[yi[J[p]]] = x[xi[p]]
      BY <1>y
    <2>2. n \in Nat
      BY <1>3
    <2> QED BY <2>1, <2>2, <1>4, <1>5, <1>6, <1>7, <1>8, <1>9, <1>10 DEF Ranked
  <1> QED BY <1>1, <1>11, <1>12

\* A set of unique lines that is in order on both sides is no larger than the
\* greatest length.
LEMMA InOrderBounded ==
  ASSUME NEW A, NEW x \in Seq(A), NEW y \in Seq(A), NEW u, NEW xi, NEW yi, NEW J, NEW n,
         Ranked(x, y, u, xi, yi, J, n), NEW L, NEW top \in Nat,
         Typed(L, n, n), Grows(L, J, n), \A p \in 1 .. n : L[p] <= top,
         NEW set, set \subseteq u, InOrder(x, y, set)
  PROVE  IsFiniteSet(set) /\ Cardinality(set) <= top
  <1>1. PICK P : P = {p \in 1 .. n : x[xi[p]] \in set}
    OBVIOUS
  <1>2. /\ n \in Nat
        /\ \A p \in 1 .. n : xi[p] \in 1 .. Len(x) /\ yi[p] \in 1 .. Len(y) /\ J[p] \in 1 .. n
    BY DEF Ranked
  <1>3. \A p, q \in 1 .. n : p < q => xi[p] < xi[q] /\ yi[p] < yi[q]
    BY DEF Ranked
  <1>4. \A p \in 1 .. n : x[xi[p]] = y[yi[J[p]]]
    BY DEF Ranked
  <1>5. \A s \in set : \E p \in P : x[xi[p]] = s
    BY <1>1 DEF Ranked
  <1>6. P \subseteq 1 .. n
    BY <1>1
  <1>7. ASSUME NEW p \in P, NEW q \in P, p < q PROVE J[p] < J[q]
    <2>1. p \in 1 .. n /\ q \in 1 .. n
      BY <1>6
    <2>2. PICK i, k : i = xi[p] /\ k = xi[q]
      OBVIOUS
    <2>3. PICK j, l : j = yi[J[p]] /\ l = yi[J[q]]
      OBVIOUS
    <2>4. J[p] \in 1 .. n /\ J[q] \in 1 .. n
      BY <1>2, <2>1
    <2>5. i \in DOMAIN x /\ k \in DOMAIN x /\ j \in DOMAIN y /\ l \in DOMAIN y
      <3>1. DOMAIN x = 1 .. Len(x) /\ DOMAIN y = 1 .. Len(y)
        OBVIOUS
      <3> QED BY <1>2, <2>1, <2>2, <2>3, <2>4, <3>1
    <2>6. i < k
      BY <1>3, <1>7, <2>1, <2>2
    <2>7. x[i] \in set /\ x[k] \in set /\ x[i] = y[j] /\ x[k] = y[l]
      BY <1>1, <1>4, <2>1, <2>2, <2>3
    <2>8. j < l
      BY <2>5, <2>6, <2>7 DEF InOrder
    <2>9. J[q] < J[p] => l < j
      BY <1>3, <2>3, <2>4
    <2>10. J[p] # J[q]
      <3>1. j \in Nat /\ l \in Nat
        BY <2>5
      <3> QED BY <2>3, <2>8, <3>1
    <2>11. j \in Nat /\ l \in Nat
      BY <2>5
    <2> QED BY <1>2, <2>4, <2>8, <2>9, <2>10, <2>11
  <1>8. IsFiniteSet(P) /\ Cardinality(P) <= top
    BY <1>2, <1>6, <1>7, NoneLonger
  <1> DEFINE f == [p \in P |-> x[xi[p]]]
  <1>9. f \in Surjection(P, set)
    <2>1. f \in [P -> set]
      BY <1>1
    <2>2. \A s \in set : \E p \in P : f[p] = s
      BY <1>5
    <2> HIDE DEF f
    <2> QED BY <2>1, <2>2, Fun_IsSurj
  <1> HIDE DEF f
  <1>10. IsFiniteSet(set) /\ Cardinality(set) <= Cardinality(P)
    BY <1>8, <1>9, FS_Surjection
  <1>11. Cardinality(set) \in Nat /\ Cardinality(P) \in Nat
    BY <1>8, <1>10, FS_CardinalityType
  <1> QED BY <1>8, <1>10, <1>11

\* The matches: the two ends of the texts and between them r unique lines, in
\* order on both sides, where no set of unique lines in order has more.
MatchesRight(x, y, ms, r) ==
  /\ r \in Nat /\ Len(ms) = r + 2
  /\ ms[1] = Pair(0, 0) /\ ms[r + 2] = Pair(Len(x), Len(y))
  /\ \A k \in 2 .. r + 1 :
       /\ ms[k] = Pair(ms[k].x, ms[k].y)
       /\ ms[k].x \in 0 .. Len(x) - 1 /\ ms[k].y \in 0 .. Len(y) - 1
       /\ x[ms[k].x + 1] \in Uniques(x, y) /\ x[ms[k].x + 1] = y[ms[k].y + 1]
  /\ \A k, l \in 2 .. r + 1 : k < l => ms[k].x < ms[l].x /\ ms[k].y < ms[l].y
  /\ \A set \in SUBSET Uniques(x, y) :
       InOrder(x, y, set) => IsFiniteSet(set) /\ Cardinality(set) <= r

\* The matches of tgs.
LEMMA TgsRight ==
  ASSUME NEW A, NEW x \in Seq(A), NEW y \in Seq(A)
  PROVE  \E r : MatchesRight(x, y, Tgs(x, y), r)
  <1>1. PICK u, xi, yi : u = Uniques(x, y) /\ xi = Positions(x, u) /\ yi = Positions(y, u)
    OBVIOUS
  <1>2. PICK J, n : J = Ranks(x, y, xi, yi) /\ n = Len(xi)
    OBVIOUS
  <1>3. Ranked(x, y, u, xi, yi, J, n) /\ Len(J) = n
    BY <1>1, <1>2, UniquesRanked
  <1>4. /\ n \in Nat
        /\ \A p \in 1 .. n : xi[p] \in 1 .. Len(x) /\ yi[p] \in 1 .. Len(y) /\ J[p] \in 1 .. n
    BY <1>3 DEF Ranked
  <1>5. PICK L : L = Lengths(J)
    OBVIOUS
  <1>6. Typed(L, n, n) /\ Grows(L, J, n) /\ Follows(L, J, n)
    BY <1>3, <1>4, <1>5, LengthsAre
  <1>7. PICK chosen, r : chosen = Chosen(L) /\ r = Len(chosen)
    OBVIOUS
  <1>8. Rises(chosen, J, 0, n) /\ r \in Nat /\ \A p \in 1 .. n : L[p] <= r
    BY <1>4, <1>6, <1>7, ChosenAre
  <1>9. \A p, q \in 1 .. n : p < q => xi[p] < xi[q] /\ yi[p] < yi[q]
    BY <1>3 DEF Ranked
  <1>10. \A p \in 1 .. n : x[xi[p]] \in u /\ y[yi[J[p]]] = x[xi[p]]
    BY <1>3 DEF Ranked
  <1>11. chosen \in Seq(Nat) /\ DOMAIN chosen = 1 .. r
    BY <1>7, <1>8 DEF Rises
  <1>12. \A a \in 1 .. r : chosen[a] \in 1 .. n
    BY <1>7, <1>8 DEF Rises
  <1>13. \A a, b \in 1 .. r : a < b => chosen[a] < chosen[b] /\ J[chosen[a]] < J[chosen[b]]
    BY <1>7, <1>8 DEF Rises
  <1>14. PICK B : B = [x : Int, y : Int]
    OBVIOUS
  <1>15. PICK seq : seq = [a \in 1 .. r |-> Pair(xi[chosen[a]] - 1, yi[J[chosen[a]]] - 1)]
    OBVIOUS
  <1>16. \A a \in 1 .. r : xi[chosen[a]] \in 1 .. Len(x) /\ yi[J[chosen[a]]] \in 1 .. Len(y)
    BY <1>4, <1>12
  <1>17. Len(x) \in Nat /\ Len(y) \in Nat
    OBVIOUS
  <1>18. seq \in Seq(B) /\ Len(seq) = r
    <2>1. \A a \in 1 .. r : Pair(xi[chosen[a]] - 1, yi[J[chosen[a]]] - 1) \in B
      BY <1>14, <1>16, <1>17 DEF Pair
    <2>2. seq \in [1 .. r -> B]
      BY <1>15, <2>1
    <2> QED BY <1>8, <2>2
  <1>19. PICK ms : ms = Tgs(x, y)
    OBVIOUS
  <1>20. ms = (<<Pair(0, 0)>> \o seq) \o <<Pair(Len(x), Len(y))>>
    <2>1. ms = (<<Pair(0, 0)>> \o [a \in DOMAIN chosen |-> Pair(xi[chosen[a]] - 1, yi[J[chosen[a]]] - 1)])
                \o <<Pair(Len(x), Len(y))>>
      BY <1>1, <1>2, <1>5, <1>7, <1>19 DEF Tgs
    <2> QED BY <1>11, <1>15, <2>1
  <1>21. <<Pair(0, 0)>> \in Seq(B) /\ <<Pair(Len(x), Len(y))>> \in Seq(B)
    BY <1>14, <1>17 DEF Pair
  <1>22. PICK w : w = <<Pair(0, 0)>> \o seq
    OBVIOUS
  <1>23. w \in Seq(B) /\ Len(w) = r + 1 /\ w[1] = Pair(0, 0) /\ \A k \in 2 .. r + 1 : w[k] = seq[k - 1]
    <2>0. Len(<<Pair(0, 0)>>) = 1
      OBVIOUS
    <2>1. w \in Seq(B) /\ Len(w) = 1 + r
      BY <2>0, <1>18, <1>21, <1>22, ConcatProperties
    <2>2. \A a \in 1 .. 1 + r : w[a] = IF a <= 1 THEN <<Pair(0, 0)>>[a] ELSE seq[a - 1]
      BY <2>0, <1>18, <1>21, <1>22, ConcatProperties
    <2> QED BY <1>8, <2>1, <2>2
  <1>24. /\ Len(ms) = r + 2 /\ ms[r + 2] = Pair(Len(x), Len(y))
         /\ \A k \in 1 .. r + 1 : ms[k] = w[k]
    <2>1. ms = w \o <<Pair(Len(x), Len(y))>>
      BY <1>20, <1>22
    <2>2. Len(ms) = r + 1 + 1
      BY <1>21, <1>23, <2>1, ConcatProperties
    <2>3. \A a \in 1 .. r + 1 + 1 : ms[a] = IF a <= r + 1 THEN w[a] ELSE <<Pair(Len(x), Len(y))>>[a - (r + 1)]
      BY <1>21, <1>23, <2>1, ConcatProperties
    <2> QED BY <1>8, <2>2, <2>3
  <1>25. ms[1] = Pair(0, 0)
    BY <1>8, <1>23, <1>24
  <1>26. ASSUME NEW k \in 2 .. r + 1
         PROVE  /\ k - 1 \in 1 .. r
                /\ ms[k].x = xi[chosen[k - 1]] - 1 /\ ms[k].y = yi[J[chosen[k - 1]]] - 1
                /\ ms[k] = Pair(ms[k].x, ms[k].y)
    <2>1. k - 1 \in 1 .. r /\ k \in 1 .. r + 1
      BY <1>8
    <2>2. ms[k] = Pair(xi[chosen[k - 1]] - 1, yi[J[chosen[k - 1]]] - 1)
      BY <1>15, <1>23, <1>24, <2>1
    <2> QED BY <2>1, <2>2 DEF Pair
  <1>27. ASSUME NEW k \in 2 .. r + 1
         PROVE  /\ ms[k] = Pair(ms[k].x, ms[k].y)
                /\ ms[k].x \in 0 .. Len(x) - 1 /\ ms[k].y \in 0 .. Len(y) - 1
                /\ x[ms[k].x + 1] \in Uniques(x, y) /\ x[ms[k].x + 1] = y[ms[k].y + 1]
    <2>1. PICK p \in 1 .. n : p = chosen[k - 1]
      BY <1>12, <1>26
    <2>2. PICK a, b : a = xi[p] /\ b = yi[J[p]]
      OBVIOUS
    <2>3. a \in 1 .. Len(x) /\ b \in 1 .. Len(y)
      BY <1>4, <2>2
    <2>4. x[a] \in u /\ y[b] = x[a]
      BY <1>10, <2>2
    <2>5. ms[k].x = a - 1 /\ ms[k].y = b - 1
      BY <1>26, <2>1, <2>2
    <2>6. a - 1 + 1 = a /\ b - 1 + 1 = b
      BY <2>3
    <2> QED BY <1>1, <1>17, <1>26, <2>3, <2>4, <2>5, <2>6
  <1>28. ASSUME NEW k \in 2 .. r + 1, NEW l \in 2 .. r + 1, k < l
         PROVE  ms[k].x < ms[l].x /\ ms[k].y < ms[l].y
    <2>1. PICK p \in 1 .. n, q \in 1 .. n : p = chosen[k - 1] /\ q = chosen[l - 1]
      BY <1>12, <1>26
    <2>2. k - 1 \in 1 .. r /\ l - 1 \in 1 .. r /\ k - 1 < l - 1
      BY <1>26, <1>28
    <2>3. p < q /\ J[p] < J[q]
      BY <1>13, <2>1, <2>2
    <2>4. xi[p] < xi[q] /\ yi[J[p]] < yi[J[q]]
      BY <1>4, <1>9, <2>3
    <2>5. PICK a, b, c, d : a = xi[p] /\ b = xi[q] /\ c = yi[J[p]] /\ d = yi[J[q]]
      OBVIOUS
    <2>6. a \in 1 .. Len(x) /\ b \in 1 .. Len(x)
      BY <1>4, <2>5
    <2>7. c \in 1 .. Len(y) /\ d \in 1 .. Len(y)
      BY <1>4, <2>5
    <2>8. ms[k].x = a - 1 /\ ms[k].y = c - 1 /\ ms[l].x = b - 1 /\ ms[l].y = d - 1
      BY <1>26, <2>1, <2>5
    <2>9. a < b /\ c < d
      BY <2>4, <2>5
    <2>10. a - 1 < b - 1 /\ c - 1 < d - 1
      BY <1>17, <2>6, <2>7, <2>9
    <2> QED BY <2>8, <2>10
  <1>29. ASSUME NEW set \in SUBSET Uniques(x, y), InOrder(x, y, set)
         PROVE  IsFiniteSet(set) /\ Cardinality(set) <= r
    BY <1>1, <1>3, <1>6, <1>8, <1>29, InOrderBounded
  <1>30. MatchesRight(x, y, ms, r)
    BY <1>8, <1>24, <1>25, <1>27, <1>28, <1>29 DEF MatchesRight
  <1> QED BY <1>19, <1>30

\* The three tags are three.
LEMMA TagsDiffer == Kept # Deleted /\ Kept # Inserted /\ Deleted # Inserted
  BY Zenon DEF Kept, Deleted, Inserted

\* A slice of a sequence.
LEMMA SliceIs ==
  ASSUME NEW A, NEW x \in Seq(A), NEW a \in Nat, NEW b \in Nat, a <= b, b <= Len(x)
  PROVE  /\ Slice(x, a, b) \in Seq(A)
         /\ Len(Slice(x, a, b)) = b - a
         /\ \A d \in 1 .. b - a : Slice(x, a, b)[d] = x[a + d]
  <1>1. \A i \in a + 1 .. b : x[i] \in A
    OBVIOUS
  <1>2. a + 1 \in Int /\ b \in Int
    OBVIOUS
  <1>3. PICK s : s = SubSeq(x, a + 1, b)
    OBVIOUS
  <1>4. s \in Seq(A) /\ Len(s) = IF a + 1 <= b THEN b - (a + 1) + 1 ELSE 0
    BY <1>1, <1>2, <1>3, SubSeqProperties
  <1>5. \A i \in 1 .. b - (a + 1) + 1 : s[i] = x[(a + 1) + i - 1]
    BY <1>1, <1>2, <1>3, SubSeqProperties
  <1>6. \A d \in 1 .. b - a : d \in 1 .. b - (a + 1) + 1 /\ (a + 1) + d - 1 = a + d
    OBVIOUS
  <1>7. Len(s) = b - a
    BY <1>4
  <1>8. \A d \in 1 .. b - a : s[d] = x[a + d]
    BY <1>5, <1>6
  <1> QED BY <1>3, <1>4, <1>7, <1>8 DEF Slice

\* The lines of a chunk: each has a tag.
Printed(A) == Seq({Kept, Deleted, Inserted} \X A)

\* The text w is t and then so many lines l under a tag.
Added(A, t, tag, l, w) ==
  /\ w \in Printed(A)
  /\ Len(t) \in Nat /\ Len(l) \in Nat /\ Len(w) = Len(t) + Len(l)
  /\ DOMAIN t = 1 .. Len(t) /\ DOMAIN w = 1 .. Len(w)
  /\ \A k \in 1 .. Len(t) : w[k] = t[k]
  /\ \A d \in 1 .. Len(l) : w[Len(t) + d] = <<tag, l[d]>>

\* So Add adds lines to the text of a chunk.
LEMMA TextAdded ==
  ASSUME NEW A, NEW t \in Printed(A), NEW tag \in {Kept, Deleted, Inserted}, NEW l \in Seq(A)
  PROVE  Added(A, t, tag, l, t \o [n \in DOMAIN l |-> <<tag, l[n]>>])
  <1>1. PICK E : E = {Kept, Deleted, Inserted} \X A
    OBVIOUS
  <1>2. PICK s : s = [n \in DOMAIN l |-> <<tag, l[n]>>]
    OBVIOUS
  <1>3. PICK b : b = Len(l)
    OBVIOUS
  <1>4. b \in Nat /\ DOMAIN l = 1 .. b /\ \A d \in 1 .. b : l[d] \in A
    BY <1>3
  <1>5. s \in [1 .. b -> E] /\ \A d \in 1 .. b : s[d] = <<tag, l[d]>>
    BY <1>1, <1>2, <1>4
  <1>6. s \in Seq(E) /\ Len(s) = b
    BY <1>4, <1>5
  <1>7. t \in Seq(E)
    BY <1>1 DEF Printed
  <1>8. PICK w : w = t \o s
    OBVIOUS
  <1>9. w \in Seq(E) /\ Len(w) = Len(t) + b
    BY <1>6, <1>7, <1>8, ConcatProperties
  <1>10. \A k \in 1 .. Len(t) + b : w[k] = IF k <= Len(t) THEN t[k] ELSE s[k - Len(t)]
    BY <1>6, <1>7, <1>8, ConcatProperties
  <1>11. Len(t) \in Nat /\ DOMAIN t = 1 .. Len(t) /\ DOMAIN w = 1 .. Len(w)
    BY <1>7, <1>9
  <1>12. \A k \in 1 .. Len(t) : w[k] = t[k]
    BY <1>4, <1>10, <1>11
  <1>13. ASSUME NEW d \in 1 .. b PROVE w[Len(t) + d] = <<tag, l[d]>>
    <2>1. PICK a, k : a = Len(t) /\ k = a + d
      OBVIOUS
    <2>2. k \in 1 .. Len(t) + b /\ ~(k <= Len(t)) /\ k - Len(t) = d
      BY ONLY <1>4, <1>11, <2>1, d \in 1 .. b
    <2>3. w[k] = s[d]
      BY ONLY <1>10, <2>2
    <2>4. s[d] = <<tag, l[d]>>
      BY ONLY <1>5, d \in 1 .. b
    <2> QED BY ONLY <2>1, <2>3, <2>4
  <1>15. w \in Printed(A)
    BY <1>1, <1>9 DEF Printed
  <1>14. Added(A, t, tag, l, w)
    BY <1>15, <1>3, <1>4, <1>9, <1>11, <1>12, <1>13 DEF Added
  <1> QED BY <1>2, <1>8, <1>14

\* What is counted with them,
LEMMA CountAdded ==
  ASSUME NEW A, NEW t, NEW tag, NEW l, NEW w, Added(A, t, tag, l, w), NEW T
  PROVE  /\ \A k \in 0 .. Len(t) : Count(w, T, k) = Count(t, T, k)
         /\ Count(t, T, Len(t)) \in Nat
         /\ \A d \in 0 .. Len(l) : Count(w, T, Len(t) + d) =
              Count(t, T, Len(t)) + IF tag \in {Kept, T} THEN d ELSE 0
  <1>1. PICK a, b : a = Len(t) /\ b = Len(l)
    OBVIOUS
  <1>2. a \in Nat /\ b \in Nat
    BY <1>1 DEF Added
  <1>3. \A k \in 1 .. a : w[k] = t[k]
    BY <1>1 DEF Added
  <1>4. \A d \in 1 .. b : w[a + d][1] = tag
    BY <1>1 DEF Added
  <1>5. ASSUME NEW k \in 0 .. a PROVE Count(w, T, k) = Count(t, T, k)
    <2>1. \A n \in 1 .. k : w[n] = t[n]
      BY <1>2, <1>3
    <2>2. {n \in 1 .. k : w[n][1] \in {Kept, T}} = {n \in 1 .. k : t[n][1] \in {Kept, T}}
      BY <2>1
    <2> QED BY <2>2 DEF Count
  <1>6. PICK S : S = {n \in 1 .. a : t[n][1] \in {Kept, T}}
    OBVIOUS
  <1>7. S \subseteq 1 .. a /\ Count(t, T, a) = Cardinality(S)
    BY <1>6 DEF Count
  <1>8. IsFiniteSet(S)
    <2>1. IsFiniteSet(1 .. a)
      BY <1>2, FS_Interval
    <2> QED BY <1>7, <2>1, FS_Subset
  <1>9. Count(t, T, a) \in Nat
    BY <1>7, <1>8, FS_CardinalityType
  <1>10. ASSUME NEW d \in 0 .. b
         PROVE  Count(w, T, a + d) = Count(t, T, a) + IF tag \in {Kept, T} THEN d ELSE 0
    <2>1. PICK R : R = {n \in 1 .. a + d : w[n][1] \in {Kept, T}}
      OBVIOUS
    <2>2. \A n \in 1 .. a + d : (n \in 1 .. a) \/ (n \in a + 1 .. a + d /\ n - a \in 1 .. b /\ a + (n - a) = n)
      BY <1>2
    <2>3. \A n \in 1 .. a : n \in 1 .. a + d
      BY <1>2
    <2>4. \A n \in a + 1 .. a + d : n \in 1 .. a + d /\ w[n][1] = tag
      BY <1>2, <1>4, <2>2
    <2>5. CASE tag \in {Kept, T}
      <3>1. \A n \in R : n \in S \/ n \in a + 1 .. a + d
        BY <1>3, <1>6, <2>1, <2>2
      <3>2. \A n \in S : n \in R
        BY <1>3, <1>6, <2>1, <2>3
      <3>3. \A n \in a + 1 .. a + d : n \in R
        BY <2>1, <2>4, <2>5
      <3>4. R = S \cup (a + 1 .. a + d)
        BY <3>1, <3>2, <3>3
      <3>5. S \cap (a + 1 .. a + d) = {}
        BY <1>2, <1>7
      <3>6. IsFiniteSet(a + 1 .. a + d) /\ Cardinality(a + 1 .. a + d) = d
        <4>1. a + 1 \in Int /\ a + d \in Int /\ d \in Nat
          BY <1>2
        <4>2. PICK lo \in Int, hi \in Int : lo = a + 1 /\ hi = a + d
          BY <4>1
        <4>3. IsFiniteSet(lo .. hi) /\ Cardinality(lo .. hi) = IF lo > hi THEN 0 ELSE hi - lo + 1
          BY FS_Interval
        <4>4. (lo > hi => d = 0) /\ hi - lo + 1 = d
          BY <1>2, <4>1, <4>2
        <4> QED BY <4>2, <4>3, <4>4
      <3>7. Cardinality(R) = Cardinality(S) + d - Cardinality({})
        <4>1. PICK I : I = a + 1 .. a + d
          OBVIOUS
        <4>2. IsFiniteSet(I) /\ Cardinality(I) = d /\ R = S \cup I /\ S \cap I = {}
          BY <3>4, <3>5, <3>6, <4>1
        <4>3. Cardinality(S \cup I) = Cardinality(S) + Cardinality(I) - Cardinality(S \cap I)
          BY <1>8, <4>2, FS_Union
        <4> QED BY <4>2, <4>3
      <3>8. Cardinality(R) = Cardinality(S) + d
        BY <1>7, <1>9, <3>7, FS_EmptySet
      <3> QED BY <1>7, <2>1, <2>5, <3>8 DEF Count
    <2>6. CASE tag \notin {Kept, T}
      <3>1. \A n \in R : n \in S
        BY <1>3, <1>6, <2>1, <2>2, <2>4, <2>6
      <3>2. \A n \in S : n \in R
        BY <1>3, <1>6, <2>1, <2>3
      <3>3. R = S
        BY <3>1, <3>2
      <3> QED BY <1>7, <1>9, <2>1, <2>6, <3>3 DEF Count
    <2> QED BY <2>5, <2>6
  <1> QED BY <1>1, <1>5, <1>9, <1>10

\* The lines l are those of x from there.
Reads(l, x, from) == \A d \in 1 .. Len(l) : l[d] = x[from + d]

\* and that they are said of the right places.
LEMMA SaysAdded ==
  ASSUME NEW A, NEW t, NEW tag, NEW l, NEW w, Added(A, t, tag, l, w), NEW T, NEW x, NEW from \in Nat,
         Says(t, T, x, from), tag \in {Kept, T} => Reads(l, x, from + Count(t, T, Len(t)))
  PROVE  Says(w, T, x, from)
  <1>1. PICK a, b, c : a = Len(t) /\ b = Len(l) /\ c = Count(t, T, a)
    OBVIOUS
  <1>2. a \in Nat /\ b \in Nat /\ c \in Nat
    <2>1. a \in Nat /\ b \in Nat
      BY <1>1 DEF Added
    <2>2. c \in Nat
      BY <1>1, CountAdded
    <2> QED BY <2>1, <2>2
  <1>3. DOMAIN t = 1 .. a /\ DOMAIN w = 1 .. a + b
    BY <1>1 DEF Added
  <1>4. \A k \in 1 .. a : w[k] = t[k]
    BY <1>1 DEF Added
  <1>5. \A d \in 1 .. b : w[a + d] = <<tag, l[d]>>
    BY <1>1 DEF Added
  <1>6. \A k \in 0 .. a : Count(w, T, k) = Count(t, T, k)
    BY <1>1, CountAdded
  <1>7. \A d \in 0 .. b : Count(w, T, a + d) = c + IF tag \in {Kept, T} THEN d ELSE 0
    BY <1>1, CountAdded
  <1> SUFFICES ASSUME NEW k \in 1 .. a + b, w[k][1] \in {Kept, T}
               PROVE  w[k][2] = x[from + Count(w, T, k)]
    BY <1>3 DEF Says
  <1>8. CASE k <= a
    <2>1. k \in 1 .. a /\ k \in 0 .. a
      BY <1>2, <1>8
    <2>2. w[k] = t[k] /\ Count(w, T, k) = Count(t, T, k)
      BY <1>4, <1>6, <2>1
    <2> QED BY <1>3, <2>1, <2>2 DEF Says
  <1>9. CASE ~(k <= a)
    <2>1. PICK d \in 1 .. b : d = k - a /\ k = a + d
      BY <1>2, <1>9
    <2>2. w[k] = <<tag, l[d]>>
      BY <1>5, <2>1
    <2>3. tag \in {Kept, T}
      BY <2>2
    <2>4. Count(w, T, k) = c + d
      <3>1. d \in 0 .. b
        OBVIOUS
      <3> QED BY <1>7, <2>1, <2>3, <3>1
    <2>5. l[d] = x[from + c + d]
      BY <1>1, <2>3 DEF Reads
    <2>6. from + (c + d) = from + c + d
      BY <1>2
    <2> QED BY <2>2, <2>4, <2>5, <2>6
  <1> QED BY <1>8, <1>9

\* The chunk, as it is put together, is about the lines of x from a to c and of y
\* from b to d.
Holds(A, x, y, chunk, a, b, c, d) ==
  /\ a \in Nat /\ b \in Nat /\ c \in Nat /\ d \in Nat
  /\ a <= c /\ c <= Len(x) /\ b <= d /\ d <= Len(y)
  /\ chunk = [start |-> Pair(a, b), count |-> Pair(c - a, d - b), text |-> chunk.text]
  /\ chunk.text \in Printed(A)
  /\ Count(chunk.text, Deleted, Len(chunk.text)) = c - a
  /\ Count(chunk.text, Inserted, Len(chunk.text)) = d - b
  /\ Says(chunk.text, Deleted, x, a) /\ Says(chunk.text, Inserted, y, b)

\* It is after lines are added.
LEMMA ChunkAdded ==
  ASSUME NEW A, NEW x \in Seq(A), NEW y \in Seq(A), NEW chunk, NEW a, NEW b, NEW c, NEW d,
         Holds(A, x, y, chunk, a, b, c, d),
         NEW tag \in {Kept, Deleted, Inserted}, NEW l \in Seq(A), NEW e, NEW f,
         e = c + IF tag # Inserted THEN Len(l) ELSE 0, f = d + IF tag # Deleted THEN Len(l) ELSE 0,
         e <= Len(x), f <= Len(y),
         tag # Inserted => Reads(l, x, c), tag # Deleted => Reads(l, y, d)
  PROVE  /\ Holds(A, x, y, Add(chunk, tag, l), a, b, e, f)
         /\ Added(A, chunk.text, tag, l, Add(chunk, tag, l).text)
  <1>1. PICK t, w : t = chunk.text /\ w = t \o [n \in DOMAIN l |-> <<tag, l[n]>>]
    OBVIOUS
  <1>2. t \in Printed(A)
    BY <1>1 DEF Holds
  <1>3. Added(A, t, tag, l, w)
    BY <1>1, <1>2, TextAdded
  <1>4. PICK len : len = Len(l)
    OBVIOUS
  <1>5. len \in Nat
    BY <1>4
  <1>6. a \in Nat /\ b \in Nat /\ c \in Nat /\ d \in Nat /\ a <= c /\ b <= d
    BY DEF Holds
  <1>7. e \in Nat /\ f \in Nat /\ a <= e /\ b <= f
    BY <1>4, <1>5, <1>6
  <1>8. chunk = [start |-> Pair(a, b), count |-> Pair(c - a, d - b), text |-> t]
    BY <1>1 DEF Holds
  <1>9. Add(chunk, tag, l) = [start |-> Pair(a, b), count |-> Pair(e - a, f - b), text |-> w]
    <2>1. PICK h : h = Add(chunk, tag, l)
      OBVIOUS
    <2>2. h = [chunk EXCEPT !.text = w,
                 !.count = Pair(chunk.count.x + IF tag # Inserted THEN len ELSE 0,
                                chunk.count.y + IF tag # Deleted THEN len ELSE 0)]
      BY <1>1, <1>4, <2>1 DEF Add
    <2>3. chunk.count.x = c - a /\ chunk.count.y = d - b
      BY <1>8 DEF Pair
    <2>4. e - a = c - a + (IF tag # Inserted THEN len ELSE 0)
      BY <1>4, <1>5, <1>6
    <2>5. f - b = d - b + (IF tag # Deleted THEN len ELSE 0)
      BY <1>4, <1>5, <1>6
    <2>6. Pair(e - a, f - b) = Pair(chunk.count.x + IF tag # Inserted THEN len ELSE 0,
                                   chunk.count.y + IF tag # Deleted THEN len ELSE 0)
      BY <2>3, <2>4, <2>5
    <2>7. h = [chunk EXCEPT !.text = w, !.count = Pair(e - a, f - b)]
      BY <2>2, <2>6
    <2> QED BY <1>8, <2>1, <2>7
  <1>10. Count(t, Deleted, Len(t)) = c - a /\ Count(t, Inserted, Len(t)) = d - b
    BY <1>1 DEF Holds
  <1>11. /\ tag \in {Kept, Deleted} <=> tag # Inserted
         /\ tag \in {Kept, Inserted} <=> tag # Deleted
    BY TagsDiffer
  <1>12. Len(w) = Len(t) + len /\ Len(t) \in Nat
    BY <1>3, <1>4 DEF Added
  <1>13. \A T : Count(w, T, Len(w)) = Count(t, T, Len(t)) + IF tag \in {Kept, T} THEN len ELSE 0
    <2>1. len \in 0 .. Len(l)
      BY <1>4, <1>5
    <2> QED BY <1>3, <1>12, <2>1, CountAdded
  <1>14. Count(w, Deleted, Len(w)) = e - a
    <2>1. Count(w, Deleted, Len(w)) = c - a + IF tag # Inserted THEN len ELSE 0
      BY <1>10, <1>11, <1>13
    <2> QED BY <1>4, <1>5, <1>6, <2>1
  <1>15. Count(w, Inserted, Len(w)) = f - b
    <2>1. Count(w, Inserted, Len(w)) = d - b + IF tag # Deleted THEN len ELSE 0
      BY <1>10, <1>11, <1>13
    <2> QED BY <1>4, <1>5, <1>6, <2>1
  <1>16. Says(w, Deleted, x, a)
    <2>1. Says(t, Deleted, x, a)
      BY <1>1 DEF Holds
    <2>2. a + Count(t, Deleted, Len(t)) = c
      BY <1>6, <1>10
    <2>3. tag \in {Kept, Deleted} => Reads(l, x, a + Count(t, Deleted, Len(t)))
      BY <1>11, <2>2
    <2> QED BY <1>3, <1>6, <2>1, <2>3, SaysAdded
  <1>17. Says(w, Inserted, y, b)
    <2>1. Says(t, Inserted, y, b)
      BY <1>1 DEF Holds
    <2>2. b + Count(t, Inserted, Len(t)) = d
      BY <1>6, <1>10
    <2>3. tag \in {Kept, Inserted} => Reads(l, y, b + Count(t, Inserted, Len(t)))
      BY <1>11, <2>2
    <2> QED BY <1>3, <1>6, <2>1, <2>3, SaysAdded
  <1>18. w \in Printed(A)
    BY <1>3 DEF Added
  <1>19. Add(chunk, tag, l).text = w
    BY <1>9
  <1>20. Holds(A, x, y, Add(chunk, tag, l), a, b, e, f)
    BY <1>6, <1>7, <1>9, <1>14, <1>15, <1>16, <1>17, <1>18, <1>19 DEF Holds
  <1> QED BY <1>1, <1>3, <1>19, <1>20

\* Near the two ends of a chunk something changes.
Fronted(text) == \E n \in DOMAIN text : text[n][1] # Kept /\ n <= C + 1
Backed(text, k) == \E n \in DOMAIN text : text[n][1] # Kept /\ n >= Len(text) - k

\* What is removed with lines that are added,
LEMMA RemovesAdded ==
  ASSUME NEW A, NEW t, NEW tag, NEW l, NEW w, Added(A, t, tag, l, w), NEW s
  PROVE  Removes(w, s) <=> Removes(t, s) \/ (tag = Deleted /\ \E d \in 1 .. Len(l) : l[d] = s)
  <1>1. PICK a, b : a = Len(t) /\ b = Len(l)
    OBVIOUS
  <1>2. a \in Nat /\ b \in Nat /\ DOMAIN t = 1 .. a /\ DOMAIN w = 1 .. a + b
    BY <1>1 DEF Added
  <1>3. \A k \in 1 .. a : w[k] = t[k]
    BY <1>1 DEF Added
  <1>4. \A d \in 1 .. b : w[a + d] = <<tag, l[d]>>
    BY <1>1 DEF Added
  <1>5. ASSUME Removes(t, s) PROVE Removes(w, s)
    <2>1. PICK n \in 1 .. a : t[n] = <<Deleted, s>>
      BY <1>2, <1>5 DEF Removes
    <2>2. n \in 1 .. a + b /\ w[n] = <<Deleted, s>>
      BY <1>2, <1>3, <2>1
    <2> QED BY <1>2, <2>2 DEF Removes
  <1>6. ASSUME tag = Deleted, NEW d \in 1 .. b, l[d] = s PROVE Removes(w, s)
    <2>1. a + d \in 1 .. a + b /\ w[a + d] = <<Deleted, s>>
      BY <1>2, <1>4, <1>6
    <2> QED BY <1>2, <2>1 DEF Removes
  <1>7. ASSUME Removes(w, s) PROVE Removes(t, s) \/ (tag = Deleted /\ \E d \in 1 .. b : l[d] = s)
    <2>1. PICK n \in 1 .. a + b : w[n] = <<Deleted, s>>
      BY <1>2, <1>7 DEF Removes
    <2>2. CASE n <= a
      <3>1. n \in 1 .. a /\ t[n] = <<Deleted, s>>
        BY <1>2, <1>3, <2>1, <2>2
      <3> QED BY <1>2, <3>1 DEF Removes
    <2>3. CASE ~(n <= a)
      <3>1. PICK d \in 1 .. b : n = a + d
        <4>1. n - a \in 1 .. b /\ n = a + (n - a)
          BY <1>2, <2>3
        <4> QED BY <4>1
      <3>2. <<tag, l[d]>> = <<Deleted, s>>
        BY <1>4, <2>1, <3>1
      <3> QED BY <3>2
    <2> QED BY <2>2, <2>3
  <1> QED BY <1>1, <1>5, <1>6, <1>7

\* and what the ends of a chunk are then.
LEMMA FrontAdded ==
  ASSUME NEW A, NEW t, NEW tag, NEW l, NEW w, Added(A, t, tag, l, w)
  PROVE  /\ Fronted(t) => Fronted(w)
         /\ tag # Kept /\ Len(l) > 0 /\ Len(t) <= C => Fronted(w)
         /\ tag # Kept /\ Len(l) > 0 => Backed(w, 0)
         /\ \A k, m \in Nat : Backed(t, k) /\ Len(l) + k <= m => Backed(w, m)
  <1>1. PICK a, b : a = Len(t) /\ b = Len(l)
    OBVIOUS
  <1>2. a \in Nat /\ b \in Nat /\ DOMAIN t = 1 .. a /\ DOMAIN w = 1 .. a + b /\ Len(w) = a + b
    BY <1>1 DEF Added
  <1>3. \A k \in 1 .. a : w[k] = t[k]
    BY <1>1 DEF Added
  <1>4. \A d \in 1 .. b : w[a + d] = <<tag, l[d]>>
    BY <1>1 DEF Added
  <1>5. \A n \in 1 .. a : n \in 1 .. a + b
    BY <1>2
  <1>6. Fronted(t) => Fronted(w)
    BY <1>2, <1>3, <1>5 DEF Fronted
  <1>7. ASSUME tag # Kept, b > 0, a <= C PROVE Fronted(w)
    <2>1. C \in Nat
      BY DiffAssumption
    <2>2. a + 1 \in 1 .. a + b /\ a + 1 <= C + 1 /\ 1 \in 1 .. b
      BY <1>2, <1>7, <2>1
    <2>3. w[a + 1][1] = tag
      BY <1>4, <2>2
    <2> QED BY <1>2, <1>7, <2>2, <2>3 DEF Fronted
  <1>8. ASSUME tag # Kept, b > 0 PROVE Backed(w, 0)
    <2>1. a + b \in 1 .. a + b /\ b \in 1 .. b /\ a + b >= a + b - 0
      BY <1>2, <1>8
    <2>2. w[a + b][1] = tag
      BY <1>4, <2>1
    <2> QED BY <1>2, <1>8, <2>1, <2>2 DEF Backed
  <1>9. ASSUME NEW k \in Nat, NEW m \in Nat, Backed(t, k), b + k <= m PROVE Backed(w, m)
    <2>1. PICK n \in 1 .. a : t[n][1] # Kept /\ n >= a - k
      BY <1>1, <1>2, <1>9 DEF Backed
    <2>3. n >= Len(w) - m
      BY <1>2, <1>9, <2>1
    <2>4. n \in 1 .. a + b /\ w[n][1] # Kept
      BY <1>3, <1>5, <2>1
    <2> QED BY <1>2, <2>3, <2>4 DEF Backed
  <1> QED BY <1>1, <1>6, <1>7, <1>8, <1>9

\* The lines that differ, after the chunk so far.
IsDiffering(A, x, y, st, a, b, c, d, e, f, D) ==
  /\ x \in Seq(A) /\ y \in Seq(A)
  /\ Holds(A, x, y, st.chunk, a, b, c, d) /\ st.done = Pair(c, d)
  /\ e \in Nat /\ f \in Nat /\ c <= e /\ e <= Len(x) /\ d <= f /\ f <= Len(y)
  /\ D = Differing(x, y, st, Pair(e, f))

\* The chunk is about them too, and at its ends there is a change.
LEMMA DifferingRight ==
  ASSUME NEW A, NEW x, NEW y, NEW st, NEW a, NEW b, NEW c, NEW d, NEW e, NEW f, NEW D,
         IsDiffering(A, x, y, st, a, b, c, d, e, f, D)
  PROVE  /\ Holds(A, x, y, D, a, b, e, f)
         /\ Len(D.text) = Len(st.chunk.text) + (e - c) + (f - d)
         /\ \A s : Removes(D.text, s) <=> Removes(st.chunk.text, s) \/ \E i \in c + 1 .. e : x[i] = s
         /\ (Len(st.chunk.text) <= C \/ Fronted(st.chunk.text)) /\ (c < e \/ d < f) =>
              Fronted(D.text) /\ Backed(D.text, 0)
  <1>a. x \in Seq(A) /\ y \in Seq(A) /\ e \in Nat /\ f \in Nat
    BY DEF IsDiffering
  <1>b. c <= e /\ e <= Len(x) /\ d <= f /\ f <= Len(y)
    BY DEF IsDiffering
  <1>c. Holds(A, x, y, st.chunk, a, b, c, d) /\ st.done = Pair(c, d) /\ D = Differing(x, y, st, Pair(e, f))
    BY DEF IsDiffering
  <1> USE <1>a, <1>b, <1>c
  <1>1. c \in Nat /\ d \in Nat
    BY DEF Holds
  <1>2. PICK k : k = Slice(x, c, e)
    OBVIOUS
  <1>3. PICK l : l = Slice(y, d, f)
    OBVIOUS
  <1>4. k \in Seq(A) /\ Len(k) = e - c /\ \A i \in 1 .. e - c : k[i] = x[c + i]
    BY <1>1, <1>2, SliceIs
  <1>5. l \in Seq(A) /\ Len(l) = f - d /\ \A i \in 1 .. f - d : l[i] = y[d + i]
    BY <1>1, <1>3, SliceIs, ZenonT(30)
  <1>6. PICK E : E = Add(st.chunk, Deleted, k)
    OBVIOUS
  <1>7. D = Add(E, Inserted, l)
    BY <1>2, <1>3, <1>6 DEF Differing, Pair
  <1>8. PICK t : t = st.chunk.text
    OBVIOUS
  <1>9. Holds(A, x, y, E, a, b, e, d) /\ Added(A, t, Deleted, k, E.text)
    <2>1. Reads(k, x, c)
      BY <1>4 DEF Reads
    <2>2. e = c + (IF Deleted # Inserted THEN Len(k) ELSE 0)
      BY <1>1, <1>4, TagsDiffer
    <2>3. d = d + (IF Deleted # Deleted THEN Len(k) ELSE 0)
      BY <1>1
    <2>4. Deleted \in {Kept, Deleted, Inserted} /\ d <= Len(y)
      BY DEF Holds
    <2> QED BY <1>4, <1>6, <1>8, <2>1, <2>2, <2>3, <2>4, ChunkAdded
  <1>10. Holds(A, x, y, D, a, b, e, f) /\ Added(A, E.text, Inserted, l, D.text)
    <2>1. Reads(l, y, d)
      BY <1>5 DEF Reads
    <2>2. e = e + (IF Inserted # Inserted THEN Len(l) ELSE 0)
      OBVIOUS
    <2>3. f = d + (IF Inserted # Deleted THEN Len(l) ELSE 0)
      BY <1>1, <1>5, TagsDiffer
    <2>4. Inserted \in {Kept, Deleted, Inserted}
      OBVIOUS
    <2> QED BY <1>5, <1>7, <1>9, <2>1, <2>2, <2>3, <2>4, ChunkAdded, SMTT(30)
  <1>11. Len(t) \in Nat /\ Len(E.text) = Len(t) + (e - c) /\ Len(D.text) = Len(E.text) + (f - d)
    BY <1>4, <1>5, <1>9, <1>10 DEF Added
  <1>12. Len(D.text) = Len(t) + (e - c) + (f - d)
    BY <1>11
  <1>13. ASSUME NEW s PROVE Removes(D.text, s) <=> Removes(t, s) \/ \E i \in c + 1 .. e : x[i] = s
    <2>1. Removes(D.text, s) <=> Removes(E.text, s)
      BY <1>10, RemovesAdded, TagsDiffer
    <2>2. Removes(E.text, s) <=> Removes(t, s) \/ \E i \in 1 .. e - c : k[i] = s
      BY <1>4, <1>9, RemovesAdded
    <2>3. (\E i \in 1 .. e - c : k[i] = s) <=> \E i \in c + 1 .. e : x[i] = s
      <3>1. ASSUME NEW i \in 1 .. e - c, k[i] = s PROVE \E n \in c + 1 .. e : x[n] = s
        <4>1. c + i \in c + 1 .. e /\ x[c + i] = s
          BY <1>1, <1>4, <3>1
        <4> QED BY <4>1
      <3>2. ASSUME NEW n \in c + 1 .. e, x[n] = s PROVE \E i \in 1 .. e - c : k[i] = s
        <4>1. PICK i \in 1 .. e - c : c + i = n
          <5>1. n - c \in 1 .. e - c /\ c + (n - c) = n
            BY <1>1
          <5> QED BY <5>1
        <4>2. k[i] = s
          BY <1>4, <3>2, <4>1
        <4> QED BY <4>2
      <3> QED BY <3>1, <3>2
    <2> QED BY <2>1, <2>2, <2>3
  <1>14. ASSUME Len(t) <= C \/ Fronted(t), c < e \/ d < f PROVE Fronted(D.text) /\ Backed(D.text, 0)
    <2>1. Deleted # Kept /\ Inserted # Kept
      BY TagsDiffer
    <2>2. CASE c < e
      <3>1. Len(k) > 0
        BY <1>1, <1>4, <2>2
      <3>2. Fronted(E.text) /\ Backed(E.text, 0)
        BY <1>9, <1>14, <2>1, <3>1, FrontAdded
      <3>3. Fronted(D.text)
        BY <1>10, <3>2, FrontAdded
      <3>4. CASE d < f
        <4>1. Len(l) > 0
          BY <1>1, <1>5, <3>4
        <4> QED BY <1>10, <2>1, <3>3, <4>1, FrontAdded
      <3>5. CASE ~(d < f)
        <4>1. Len(l) + 0 <= 0
          BY <1>1, <1>5, <3>5
        <4>2. 0 \in Nat
          OBVIOUS
        <4> QED BY <1>10, <3>2, <3>3, <4>1, <4>2, FrontAdded
      <3> QED BY <3>4, <3>5
    <2>3. CASE ~(c < e)
      <3>a. e = c /\ d < f
        BY <1>1, <1>14, <2>3
      <3>b. PICK m, n : m = Len(t) /\ n = Len(E.text)
        OBVIOUS
      <3>c. m \in Nat /\ n = m + (e - c)
        BY <1>11, <3>b
      <3>d. n = m
        BY <1>1, <3>a, <3>c
      <3>1. Len(E.text) = Len(t) /\ d < f
        BY <3>a, <3>b, <3>d
      <3>2. Len(l) > 0
        BY <1>1, <1>5, <3>1
      <3>3. Len(E.text) <= C \/ Fronted(E.text)
        BY <1>9, <1>14, <3>1, FrontAdded
      <3> QED BY <1>10, <2>1, <3>2, <3>3, FrontAdded
    <2> QED BY <2>2, <2>3
  <1> QED BY <1>8, <1>10, <1>12, <1>13, <1>14

\* The lines of a match, or some of them, after that.
Same(x, y, e, f, g) == \A d \in 1 .. g : x[e + d] = y[f + d]
IsCommon(A, x, y, D, a, b, e, f, g, p, q, W) ==
  /\ x \in Seq(A) /\ y \in Seq(A)
  /\ Holds(A, x, y, D, a, b, e, f)
  /\ g \in Nat /\ p = e + g /\ q = f + g
  /\ p <= Len(x) /\ q <= Len(y) /\ Same(x, y, e, f, g)
  /\ W = Add(D, Kept, Slice(x, e, p))

\* The chunk is about them too, and its ends have no more context.
LEMMA CommonRight ==
  ASSUME NEW A, NEW x, NEW y, NEW D, NEW a, NEW b, NEW e, NEW f, NEW g, NEW p, NEW q, NEW W,
         IsCommon(A, x, y, D, a, b, e, f, g, p, q, W)
  PROVE  /\ Holds(A, x, y, W, a, b, p, q)
         /\ Len(D.text) \in Nat /\ Len(W.text) = Len(D.text) + g
         /\ \A s : Removes(W.text, s) <=> Removes(D.text, s)
         /\ Fronted(D.text) => Fronted(W.text)
         /\ Backed(D.text, 0) /\ g <= C => Backed(W.text, C)
  <1>a. x \in Seq(A) /\ y \in Seq(A) /\ g \in Nat /\ p = e + g /\ q = f + g
    BY DEF IsCommon
  <1>b. p <= Len(x) /\ q <= Len(y) /\ Same(x, y, e, f, g)
    BY DEF IsCommon
  <1>c. Holds(A, x, y, D, a, b, e, f) /\ W = Add(D, Kept, Slice(x, e, p))
    BY DEF IsCommon
  <1>1. e \in Nat /\ f \in Nat
    BY <1>c DEF Holds
  <1>2. PICK l : l = Slice(x, e, p)
    OBVIOUS
  <1>4. p - e = g /\ e <= p /\ p \in Nat
    BY <1>a, <1>1
  <1>5. l \in Seq(A) /\ Len(l) = g /\ \A i \in 1 .. g : l[i] = x[e + i]
    <2>2. l \in Seq(A) /\ Len(l) = p - e /\ \A i \in 1 .. p - e : l[i] = x[e + i]
      <3>1. x \in Seq(A) /\ e \in Nat /\ p \in Nat /\ e <= p /\ p <= Len(x)
        BY <1>a, <1>b, <1>1, <1>4
      <3>2. /\ Slice(x, e, p) \in Seq(A) /\ Len(Slice(x, e, p)) = p - e
            /\ \A i \in 1 .. p - e : Slice(x, e, p)[i] = x[e + i]
        BY <3>1, SliceIs
      <3> QED BY <1>2, <3>2
    <2> QED BY <1>4, <2>2
  <1>6. Reads(l, x, e) /\ Reads(l, y, f)
    BY <1>b, <1>5 DEF Reads, Same
  <1>7. Holds(A, x, y, W, a, b, p, q) /\ Added(A, D.text, Kept, l, W.text)
    <2>1. p = e + (IF Kept # Inserted THEN Len(l) ELSE 0)
      BY <1>a, <1>5, TagsDiffer
    <2>2. q = f + (IF Kept # Deleted THEN Len(l) ELSE 0)
      BY <1>a, <1>5, TagsDiffer
    <2>3. Kept \in {Kept, Deleted, Inserted}
      OBVIOUS
    <2> QED BY <1>a, <1>b, <1>c, <1>2, <1>5, <1>6, <2>1, <2>2, <2>3, ChunkAdded
  <1>8. Len(D.text) \in Nat /\ Len(W.text) = Len(D.text) + g
    BY <1>5, <1>7 DEF Added
  <1>9. \A s : Removes(W.text, s) <=> Removes(D.text, s)
    BY <1>7, RemovesAdded, TagsDiffer
  <1>10. Fronted(D.text) => Fronted(W.text)
    BY <1>7, FrontAdded
  <1>11. Backed(D.text, 0) /\ g <= C => Backed(W.text, C)
    <2>1. g \in Nat /\ 0 \in Nat /\ C \in Nat /\ (g <= C => Len(l) + 0 <= C)
      BY <1>a, <1>5, DiffAssumption
    <2> QED BY <1>7, <2>1, FrontAdded
  <1> QED BY <1>7, <1>8, <1>9, <1>10, <1>11

\* A chunk that is new has no lines.
LEMMA NewChunkRight ==
  ASSUME NEW A, NEW x \in Seq(A), NEW y \in Seq(A), NEW a \in Nat, NEW b \in Nat, a <= Len(x), b <= Len(y)
  PROVE  /\ Holds(A, x, y, NewChunk(Pair(a, b)), a, b, a, b)
         /\ Len(NewChunk(Pair(a, b)).text) = 0
         /\ \A s : ~Removes(NewChunk(Pair(a, b)).text, s)
  <1>1. PICK h : h = NewChunk(Pair(a, b))
    OBVIOUS
  <1>2. h = [start |-> Pair(a, b), count |-> Pair(0, 0), text |-> <<>>] /\ h.text = <<>>
    BY <1>1 DEF NewChunk
  <1>3. a - a = 0 /\ b - b = 0 /\ a <= a /\ b <= b
    OBVIOUS
  <1>4. \A T : Count(<<>>, T, 0) = 0
    <2>1. \A T : {n \in 1 .. 0 : <<>>[n][1] \in {Kept, T}} = {}
      OBVIOUS
    <2> QED BY <2>1, FS_EmptySet DEF Count
  <1>5. \A T, z, k : Says(<<>>, T, z, k)
    BY DEF Says
  <1>6. <<>> \in Printed(A) /\ Len(<<>>) = 0
    BY DEF Printed
  <1>7. Holds(A, x, y, h, a, b, a, b)
    BY <1>2, <1>3, <1>4, <1>5, <1>6 DEF Holds
  <1>8. \A s : ~Removes(h.text, s)
    BY <1>2 DEF Removes
  <1> QED BY <1>1, <1>2, <1>6, <1>7, <1>8

\* The chunks that are printed.
Chunks(A) == [start : [x : Nat, y : Nat], count : [x : Nat, y : Nat], text : Printed(A)]

\* What the header says of a chunk.
LEMMA HeaderRight ==
  ASSUME NEW A, NEW x, NEW y, NEW W, NEW a, NEW b, NEW c, NEW d, Holds(A, x, y, W, a, b, c, d),
         Fronted(W.text), Backed(W.text, C), NEW h, h = Header(W)
  PROVE  /\ ChunkRight(x, y, h) /\ h.text = W.text
         /\ From(h.start.x, h.count.x) = a /\ From(h.start.y, h.count.y) = b
         /\ h.count.x = c - a /\ h.count.y = d - b
         /\ h \in Chunks(A)
  <1>1. PICK t : t = W.text
    OBVIOUS
  <1>2. /\ a \in Nat /\ b \in Nat /\ c \in Nat /\ d \in Nat /\ a <= c /\ b <= d
        /\ W = [start |-> Pair(a, b), count |-> Pair(c - a, d - b), text |-> t]
    BY <1>1 DEF Holds
  <1>3. W.count.x = c - a /\ W.count.y = d - b /\ W.start = Pair(a, b) /\ W.start.x = a /\ W.start.y = b
    BY <1>2 DEF Pair
  <1>4. h = [W EXCEPT !.start = Pair(a + IF c - a > 0 THEN 1 ELSE 0, b + IF d - b > 0 THEN 1 ELSE 0)]
    BY <1>3 DEF Header
  <1>5. h = [start |-> Pair(a + IF c - a > 0 THEN 1 ELSE 0, b + IF d - b > 0 THEN 1 ELSE 0),
             count |-> Pair(c - a, d - b), text |-> t]
    BY <1>2, <1>4
  <1>6. h.text = t /\ h.count = Pair(c - a, d - b) /\ h.count.x = c - a /\ h.count.y = d - b
    BY <1>5 DEF Pair
  <1>7. h.start.x = (a + IF c - a > 0 THEN 1 ELSE 0) /\ h.start.y = (b + IF d - b > 0 THEN 1 ELSE 0)
    BY <1>5 DEF Pair
  <1>8. From(h.start.x, h.count.x) = a
    BY <1>2, <1>6, <1>7 DEF From
  <1>9. From(h.start.y, h.count.y) = b
    BY <1>2, <1>6, <1>7 DEF From
  <1>10. h.count = Pair(Count(t, Deleted, Len(t)), Count(t, Inserted, Len(t)))
    BY <1>1, <1>6 DEF Holds
  <1>11. Says(t, Deleted, x, a) /\ Says(t, Inserted, y, b)
    BY <1>1 DEF Holds
  <1>12. \E n \in {m \in DOMAIN t : t[m][1] # Kept} : n <= C + 1
    BY <1>1 DEF Fronted
  <1>13. \E n \in {m \in DOMAIN t : t[m][1] # Kept} : n >= Len(t) - C
    BY <1>1 DEF Backed
  <1>16. End(h).x <= Len(x) /\ End(h).y <= Len(y)
    <2>1. End(h).x = a + (c - a) /\ End(h).y = b + (d - b)
      BY <1>6, <1>8, <1>9 DEF End, Begin, Pair
    <2>2. c <= Len(x) /\ d <= Len(y)
      BY DEF Holds
    <2>3. a + (c - a) = c /\ b + (d - b) = d
      BY <1>2
    <2> QED BY <2>1, <2>2, <2>3
  <1>14. ChunkRight(x, y, h)
    BY <1>6, <1>8, <1>9, <1>10, <1>11, <1>12, <1>13, <1>16 DEF ChunkRight
  <1>15. h \in Chunks(A)
    <2>1. t \in Printed(A)
      BY <1>1 DEF Holds
    <2>2. PICK k, l, m, n : /\ k = (a + IF c - a > 0 THEN 1 ELSE 0) /\ l = (b + IF d - b > 0 THEN 1 ELSE 0)
                            /\ m = c - a /\ n = d - b
      OBVIOUS
    <2>3. k \in Nat /\ l \in Nat /\ m \in Nat /\ n \in Nat
      BY <1>2, <2>2
    <2>4. h = [start |-> Pair(k, l), count |-> Pair(m, n), text |-> t]
      BY <1>5, <2>2
    <2> QED BY <2>1, <2>3, <2>4 DEF Pair, Chunks
  <1> QED BY <1>1, <1>6, <1>8, <1>9, <1>14, <1>15

\* The same lines on both sides from a to b, and from c to d.
Gap(x, y, a, b, c, d) ==
  /\ a \in Nat /\ b \in Nat /\ c \in Nat /\ d \in Nat
  /\ a <= c /\ c <= Len(x) /\ b <= d /\ d <= Len(y) /\ c - a = d - b
  /\ Same(x, y, a, b, c - a)

\* Two such stretches, one after the other.
LEMMA GapLonger ==
  ASSUME NEW x, NEW y, NEW a, NEW b, NEW c, NEW d, NEW e, NEW f,
         Gap(x, y, a, b, c, d), Gap(x, y, c, d, e, f)
  PROVE  Gap(x, y, a, b, e, f)
  <1>1. /\ a \in Nat /\ b \in Nat /\ c \in Nat /\ d \in Nat /\ e \in Nat /\ f \in Nat
        /\ a <= c /\ b <= d /\ c - a = d - b /\ c <= e /\ d <= f /\ e - c = f - d
        /\ e <= Len(x) /\ f <= Len(y)
    BY DEF Gap
  <1>2. \A n \in 1 .. c - a : x[a + n] = y[b + n]
    BY DEF Gap, Same
  <1>3. \A n \in 1 .. e - c : x[c + n] = y[d + n]
    BY DEF Gap, Same
  <1>4. ASSUME NEW n \in 1 .. e - a PROVE x[a + n] = y[b + n]
    <2>1. CASE n <= c - a
      <3>1. n \in 1 .. c - a
        BY <1>1, <2>1
      <3> QED BY <1>2, <3>1
    <2>2. CASE ~(n <= c - a)
      <3>1. PICK m \in 1 .. e - c : a + n = c + m /\ b + n = d + m
        <4>1. n - (c - a) \in 1 .. e - c /\ a + n = c + (n - (c - a)) /\ b + n = d + (n - (c - a))
          BY <1>1, <2>2
        <4> QED BY <4>1
      <3> QED BY <1>3, <3>1
    <2> QED BY <2>1, <2>2
  <1>5. a <= e /\ b <= f /\ e - a = f - b
    BY <1>1
  <1> QED BY <1>1, <1>4, <1>5 DEF Gap, Same

\* There nothing changes.
LEMMA GapIsUnchanged ==
  ASSUME NEW A, NEW x \in Seq(A), NEW y \in Seq(A), NEW a, NEW b, NEW c, NEW d, Gap(x, y, a, b, c, d)
  PROVE  Unchanged(x, y, Pair(a, b), Pair(c, d))
  <1>1. /\ a \in Nat /\ b \in Nat /\ c \in Nat /\ d \in Nat
        /\ a <= c /\ b <= d /\ c - a = d - b /\ c <= Len(x) /\ d <= Len(y)
    BY DEF Gap
  <1>2. PICK k, l : k = Slice(x, a, c) /\ l = Slice(y, b, d)
    OBVIOUS
  <1>3. k \in Seq(A) /\ Len(k) = c - a /\ \A n \in 1 .. c - a : k[n] = x[a + n]
    BY <1>1, <1>2, SliceIs, ZenonT(30)
  <1>4. l \in Seq(A) /\ Len(l) = d - b /\ \A n \in 1 .. d - b : l[n] = y[b + n]
    BY <1>1, <1>2, SliceIs, ZenonT(30)
  <1>5. \A n \in 1 .. c - a : k[n] = l[n]
    BY <1>1, <1>3, <1>4 DEF Gap, Same
  <1>6. k = l
    BY <1>1, <1>3, <1>4, <1>5, SeqEqual
  <1> QED BY <1>1, <1>2, <1>6 DEF Unchanged, Pair

\* The chunks patch x up to a and y up to b.
To(out, i) == IF i = 0 THEN Pair(0, 0) ELSE End(out[i])
Between(x, y, p, q) == Gap(x, y, p.x, p.y, q.x, q.y)
PatchedTo(A, x, y, out, a, b) ==
  /\ out \in Seq(Chunks(A))
  /\ \A i \in DOMAIN out : ChunkRight(x, y, out[i])
  /\ \A i \in DOMAIN out : Between(x, y, To(out, i - 1), Begin(out[i]))
  /\ Between(x, y, To(out, Len(out)), Pair(a, b))

\* The chunks patch further what does not change.
LEMMA PatchedLonger ==
  ASSUME NEW A, NEW x, NEW y, NEW out, NEW a, NEW b, NEW c, NEW d,
         PatchedTo(A, x, y, out, a, b), Gap(x, y, a, b, c, d)
  PROVE  PatchedTo(A, x, y, out, c, d)
  <1>1. PICK p : p = To(out, Len(out))
    OBVIOUS
  <1>2. Gap(x, y, p.x, p.y, a, b)
    BY <1>1 DEF PatchedTo, Between, Pair
  <1>3. Gap(x, y, p.x, p.y, c, d)
    BY <1>2, GapLonger
  <1>4. Between(x, y, p, Pair(c, d))
    BY <1>3 DEF Between, Pair
  <1> QED BY <1>1, <1>4 DEF PatchedTo

\* One more chunk patches further.
LEMMA PatchedMore ==
  ASSUME NEW A, NEW x, NEW y, NEW out, NEW a, NEW b, NEW c \in Nat, NEW d \in Nat, NEW h \in Chunks(A),
         PatchedTo(A, x, y, out, a, b), ChunkRight(x, y, h), Begin(h) = Pair(a, b), End(h) = Pair(c, d),
         c <= Len(x), d <= Len(y)
  PROVE  PatchedTo(A, x, y, Append(out, h), c, d)
  <1>1. PICK w, n : w = Append(out, h) /\ n = Len(out)
    OBVIOUS
  <1>2. out \in Seq(Chunks(A))
    BY DEF PatchedTo
  <1>3. n \in Nat /\ DOMAIN out = 1 .. n
    BY <1>1, <1>2
  <1>4. w \in Seq(Chunks(A)) /\ Len(w) = n + 1 /\ w[n + 1] = h /\ \A i \in 1 .. n : w[i] = out[i]
    BY <1>1, <1>2, AppendProperties
  <1>5. DOMAIN w = 1 .. n + 1
    BY <1>4
  <1>6. \A i \in 1 .. n + 1 : i = n + 1 \/ i \in 1 .. n
    BY <1>3
  <1>7. \A i \in 0 .. n : To(w, i) = To(out, i)
    <2>1. \A i \in 0 .. n : i = 0 \/ i \in 1 .. n
      BY <1>3
    <2> QED BY <1>4, <2>1 DEF To
  <1>8. \A i \in DOMAIN w : ChunkRight(x, y, w[i])
    BY <1>3, <1>4, <1>5, <1>6 DEF PatchedTo
  <1>9. ASSUME NEW i \in DOMAIN w PROVE Between(x, y, To(w, i - 1), Begin(w[i]))
    <2>1. i - 1 \in 0 .. n
      BY <1>3, <1>5
    <2>2. To(w, i - 1) = To(out, i - 1)
      BY <1>7, <2>1
    <2>3. CASE i = n + 1
      <3>1. i - 1 = n /\ w[i] = h
        BY <1>3, <1>4, <2>3
      <3>2. Between(x, y, To(out, n), Pair(a, b))
        BY <1>1 DEF PatchedTo
      <3> QED BY <2>2, <3>1, <3>2
    <2>4. CASE i \in 1 .. n
      <3>1. Between(x, y, To(out, i - 1), Begin(out[i]))
        BY <1>3, <2>4 DEF PatchedTo
      <3> QED BY <1>4, <2>2, <2>4, <3>1
    <2> QED BY <1>5, <1>6, <2>3, <2>4
  <1>10. Between(x, y, To(w, Len(w)), Pair(c, d))
    <2>1. To(w, Len(w)) = Pair(c, d)
      BY <1>3, <1>4 DEF To
    <2>2. Gap(x, y, c, d, c, d)
      BY DEF Gap, Same
    <2> QED BY <2>1, <2>2 DEF Between, Pair
  <1>11. PatchedTo(A, x, y, w, c, d)
    BY <1>4, <1>8, <1>9, <1>10 DEF PatchedTo
  <1> QED BY <1>1, <1>11

\* What patches all of both texts.
LEMMA PatchesRight ==
  ASSUME NEW A, NEW x \in Seq(A), NEW y \in Seq(A), NEW out, PatchedTo(A, x, y, out, Len(x), Len(y))
  PROVE  Patches(x, y, out)
  <1>1. PICK n : n = Len(out)
    OBVIOUS
  <1>2. n \in Nat /\ DOMAIN out = 1 .. n
    <2>1. out \in Seq(Chunks(A))
      BY DEF PatchedTo
    <2> QED BY <1>1, <2>1
  <1> DEFINE from(i) == IF i > Len(out) THEN Pair(Len(x), Len(y)) ELSE Begin(out[i])
             to(i) == IF i = 0 THEN Pair(0, 0) ELSE End(out[i])
  <1>3. ASSUME NEW p, NEW q, p = Pair(p.x, p.y), q = Pair(q.x, q.y), Between(x, y, p, q)
        PROVE  Unchanged(x, y, p, q)
    BY <1>3, GapIsUnchanged DEF Between
  <1>4. \A i : to(i) = Pair(to(i).x, to(i).y) /\ from(i) = Pair(from(i).x, from(i).y)
    BY DEF Pair, Begin, End
  <1>5. ASSUME NEW i \in 0 .. n PROVE Between(x, y, to(i), from(i + 1))
    <2>1. CASE i = n
      <3>1. from(i + 1) = Pair(Len(x), Len(y)) /\ to(i) = To(out, n)
        BY <1>1, <1>2, <2>1 DEF To
      <3> QED BY <1>1, <3>1 DEF PatchedTo
    <2>2. CASE i # n
      <3>1. i + 1 \in 1 .. n /\ i + 1 - 1 = i
        BY <1>2, <2>2
      <3>2. from(i + 1) = Begin(out[i + 1]) /\ to(i) = To(out, i + 1 - 1)
        BY <1>1, <1>2, <3>1 DEF To
      <3>3. Between(x, y, To(out, i + 1 - 1), Begin(out[i + 1]))
        <4>1. \A k \in DOMAIN out : Between(x, y, To(out, k - 1), Begin(out[k]))
          BY DEF PatchedTo
        <4>2. i + 1 \in DOMAIN out
          BY <1>2, <3>1
        <4> QED BY <4>1, <4>2
      <3> QED BY <3>2, <3>3
    <2> QED BY <2>1, <2>2
  <1>6. \A i \in 0 .. Len(out) : Unchanged(x, y, to(i), from(i + 1))
    BY <1>1, <1>3, <1>4, <1>5
  <1>7. \A i \in DOMAIN out : ChunkRight(x, y, out[i])
    BY DEF PatchedTo
  <1> QED BY <1>6, <1>7 DEF Patches

\* A part of such a stretch.
LEMMA GapSplit ==
  ASSUME NEW x, NEW y, NEW e, NEW f, NEW p, NEW q, Gap(x, y, e, f, p, q),
         NEW k \in Nat, NEW l \in Nat, e <= k, k <= p, k - e = l - f,
         Len(x) \in Nat, Len(y) \in Nat
  PROVE  Gap(x, y, e, f, k, l) /\ Gap(x, y, k, l, p, q)
  <1>1. /\ e \in Nat /\ f \in Nat /\ p \in Nat /\ q \in Nat
        /\ e <= p /\ p <= Len(x) /\ f <= q /\ q <= Len(y) /\ p - e = q - f
    BY DEF Gap
  <1>2. \A n \in 1 .. p - e : x[e + n] = y[f + n]
    BY DEF Gap, Same
  <1>3. /\ f <= l /\ l <= q /\ k <= Len(x) /\ l <= Len(y) /\ p - k = q - l
    BY <1>1
  <1>4. \A n \in 1 .. k - e : n \in 1 .. p - e
    BY <1>1
  <1>5. Same(x, y, e, f, k - e)
    BY <1>2, <1>4 DEF Same
  <1>6. ASSUME NEW n \in 1 .. p - k PROVE x[k + n] = y[l + n]
    <2>1. PICK m \in 1 .. p - e : k + n = e + m /\ l + n = f + m
      <3>1. (k - e) + n \in 1 .. p - e /\ k + n = e + ((k - e) + n) /\ l + n = f + ((k - e) + n)
        BY <1>1
      <3> QED BY <3>1
    <2> QED BY <1>2, <2>1
  <1>7. Same(x, y, k, l, p - k)
    BY <1>6 DEF Same
  <1>8. Gap(x, y, e, f, k, l)
    BY <1>1, <1>3, <1>5 DEF Gap
  <1>9. Gap(x, y, k, l, p, q)
    BY <1>1, <1>3, <1>7 DEF Gap
  <1> QED BY <1>8, <1>9

\* An empty one.
LEMMA GapNone ==
  ASSUME NEW x, NEW y, NEW k \in Nat, NEW l \in Nat, k <= Len(x), l <= Len(y)
  PROVE  Gap(x, y, k, l, k, l)
  <1>1. 1 .. k - k = {} /\ k <= k /\ l <= l /\ k - k = l - l
    OBVIOUS
  <1> QED BY <1>1 DEF Gap, Same

\* CommonRight for the lines from a place to another.
IsGrown(A, x, y, D, a, b, e, f, p, q, W) ==
  /\ x \in Seq(A) /\ y \in Seq(A)
  /\ Holds(A, x, y, D, a, b, e, f) /\ Gap(x, y, e, f, p, q)
  /\ W = Add(D, Kept, Slice(x, e, p))

\* CommonRight for a match that was grown.
LEMMA GrownRight ==
  ASSUME NEW A, NEW x, NEW y, NEW D, NEW a, NEW b, NEW e, NEW f, NEW p, NEW q, NEW W,
         IsGrown(A, x, y, D, a, b, e, f, p, q, W)
  PROVE  /\ Holds(A, x, y, W, a, b, p, q)
         /\ Len(D.text) \in Nat /\ Len(W.text) = Len(D.text) + (p - e)
         /\ \A s : Removes(W.text, s) <=> Removes(D.text, s)
         /\ Fronted(D.text) => Fronted(W.text)
         /\ Backed(D.text, 0) /\ p - e <= C => Backed(W.text, C)
  <1>1. /\ e \in Nat /\ f \in Nat /\ p \in Nat /\ q \in Nat
        /\ e <= p /\ p <= Len(x) /\ f <= q /\ q <= Len(y) /\ p - e = q - f
    BY DEF IsGrown, Gap
  <1>2. PICK g : g = p - e
    OBVIOUS
  <1>3. g \in Nat /\ p = e + g /\ q = f + g
    BY <1>1, <1>2
  <1>4. Same(x, y, e, f, g)
    BY <1>2 DEF IsGrown, Gap
  <1>5. x \in Seq(A) /\ y \in Seq(A) /\ Holds(A, x, y, D, a, b, e, f) /\ W = Add(D, Kept, Slice(x, e, p))
    BY DEF IsGrown
  <1>6. IsCommon(A, x, y, D, a, b, e, f, g, p, q, W)
    BY <1>1, <1>3, <1>4, <1>5 DEF IsCommon
  <1>7. Holds(A, x, y, W, a, b, p, q) /\ Len(D.text) \in Nat /\ Len(W.text) = Len(D.text) + g
    BY <1>6, CommonRight
  <1>8. \A s : Removes(W.text, s) <=> Removes(D.text, s)
    BY <1>6, CommonRight
  <1>9. Fronted(D.text) => Fronted(W.text)
    BY <1>6, CommonRight
  <1>10. Backed(D.text, 0) /\ g <= C => Backed(W.text, C)
    BY <1>6, CommonRight
  <1> QED BY <1>2, <1>7, <1>8, <1>9, <1>10

\* A chunk is printed, with so many lines of the match.
IsPrinted(A, x, y, D, a, b, e, f, p, q, out, w) ==
  /\ x \in Seq(A) /\ y \in Seq(A)
  /\ Holds(A, x, y, D, a, b, e, f) /\ Fronted(D.text) /\ Backed(D.text, 0)
  /\ Gap(x, y, e, f, p, q) /\ p - e <= C
  /\ PatchedTo(A, x, y, out, a, b)
  /\ w = Append(out, Header(Add(D, Kept, Slice(x, e, p))))

\* The chunks printed patch the texts up to there.
LEMMA PrintedRight ==
  ASSUME NEW A, NEW x, NEW y, NEW D, NEW a, NEW b, NEW e, NEW f, NEW p, NEW q, NEW out, NEW w,
         IsPrinted(A, x, y, D, a, b, e, f, p, q, out, w)
  PROVE  /\ PatchedTo(A, x, y, w, p, q)
         /\ \A s : OutRemoves(w, s) <=> OutRemoves(out, s) \/ Removes(D.text, s)
         /\ Len(w) # 0
  <1>1. PICK W, h : W = Add(D, Kept, Slice(x, e, p)) /\ h = Header(W)
    OBVIOUS
  <1>a. /\ Fronted(D.text) /\ Backed(D.text, 0) /\ p - e <= C
        /\ PatchedTo(A, x, y, out, a, b) /\ w = Append(out, h)
    BY <1>1 DEF IsPrinted
  <1>b. IsGrown(A, x, y, D, a, b, e, f, p, q, W)
    BY <1>1 DEF IsPrinted, IsGrown
  <1>2. Holds(A, x, y, W, a, b, p, q) /\ Fronted(W.text) /\ Backed(W.text, C)
    BY <1>a, <1>b, GrownRight
  <1>r. \A s : Removes(W.text, s) <=> Removes(D.text, s)
    BY <1>b, GrownRight
  <1>3. ChunkRight(x, y, h) /\ h.text = W.text /\ h \in Chunks(A)
    BY <1>1, <1>2, HeaderRight
  <1>4. From(h.start.x, h.count.x) = a /\ From(h.start.y, h.count.y) = b
    BY <1>1, <1>2, HeaderRight
  <1>c. h.count.x = p - a /\ h.count.y = q - b
    BY <1>1, <1>2, HeaderRight
  <1>5. /\ a \in Nat /\ b \in Nat /\ p \in Nat /\ q \in Nat
        /\ p <= Len(x) /\ q <= Len(y)
    BY <1>2 DEF Holds
  <1>6. Begin(h) = Pair(a, b)
    BY <1>4 DEF Begin
  <1>7. End(h) = Pair(p, q)
    <2>1. Begin(h).x = a /\ Begin(h).y = b
      BY <1>6 DEF Pair
    <2>2. a + (p - a) = p /\ b + (q - b) = q
      BY <1>5
    <2> QED BY <1>c, <2>1, <2>2 DEF End
  <1>8. PatchedTo(A, x, y, w, p, q)
    BY <1>a, <1>3, <1>5, <1>6, <1>7, PatchedMore
  <1>9. PICK n : n = Len(out)
    OBVIOUS
  <1>10. out \in Seq(Chunks(A))
    BY <1>a DEF PatchedTo
  <1>11. n \in Nat /\ DOMAIN out = 1 .. n
    BY <1>9, <1>10
  <1>12. w \in Seq(Chunks(A)) /\ Len(w) = n + 1 /\ w[n + 1] = h /\ \A i \in 1 .. n : w[i] = out[i]
    BY <1>a, <1>3, <1>9, <1>10, AppendProperties
  <1>13. DOMAIN w = 1 .. n + 1
    BY <1>12
  <1>14. \A i \in 1 .. n + 1 : i = n + 1 \/ i \in 1 .. n
    BY <1>11
  <1>15. \A i \in 1 .. n : i \in 1 .. n + 1
    BY <1>11
  <1>16. n + 1 \in 1 .. n + 1 /\ n + 1 # 0
    BY <1>11
  <1>17. ASSUME NEW s PROVE OutRemoves(w, s) <=> OutRemoves(out, s) \/ Removes(D.text, s)
    <2>1. Removes(h.text, s) <=> Removes(D.text, s)
      BY <1>r, <1>3
    <2>2. OutRemoves(w, s) => OutRemoves(out, s) \/ Removes(h.text, s)
      BY <1>11, <1>12, <1>13, <1>14 DEF OutRemoves
    <2>3. OutRemoves(out, s) => OutRemoves(w, s)
      BY <1>11, <1>12, <1>13, <1>15 DEF OutRemoves
    <2>4. Removes(h.text, s) => OutRemoves(w, s)
      BY <1>12, <1>13, <1>16 DEF OutRemoves
    <2> QED BY <2>1, <2>2, <2>3, <2>4
  <1> QED BY <1>8, <1>12, <1>16, <1>17

\* The state before or after a match, as far as the chunks go.
Emitted(A, x, y, st, a, b, c, d) ==
  /\ st.done = Pair(c, d) /\ st.over = FALSE
  /\ st = [done |-> st.done, chunk |-> st.chunk, out |-> st.out, over |-> st.over]
  /\ Holds(A, x, y, st.chunk, a, b, c, d)
  /\ PatchedTo(A, x, y, st.out, a, b)
  /\ Len(st.chunk.text) <= C \/ Fronted(st.chunk.text)
AllRemoved(st, s) == OutRemoves(st.out, s) \/ Removes(st.chunk.text, s)

\* A match was grown to the lines from e and f to p and q.
IsRun(A, x, y, st, a, b, c, d, e, f, p, q) ==
  /\ x \in Seq(A) /\ y \in Seq(A)
  /\ Emitted(A, x, y, st, a, b, c, d) /\ Gap(x, y, e, f, p, q)
  /\ c <= e /\ d <= f
  /\ c < e \/ d < f \/ Len(st.chunk.text) = 0

\* The chunk with the lines that differ.
IsOpened(A, x, y, D, a, b, e, f) ==
  /\ Holds(A, x, y, D, a, b, e, f)
  /\ Len(D.text) # 0 => Fronted(D.text) /\ Backed(D.text, 0)
  /\ Len(D.text) = 0 => a = e /\ b = f
  /\ Len(D.text) \in Nat
RemovesMore(w, t, x, c, e) == \A s : Removes(w, s) <=> Removes(t, s) \/ \E i \in c + 1 .. e : x[i] = s

\* It has changes at its ends, unless it is empty.
LEMMA OpenedRight ==
  ASSUME NEW A, NEW x, NEW y, NEW st, NEW a, NEW b, NEW c, NEW d, NEW e, NEW f, NEW p, NEW q,
         IsRun(A, x, y, st, a, b, c, d, e, f, p, q),
         NEW D, D = Differing(x, y, st, Pair(e, f))
  PROVE  /\ IsOpened(A, x, y, D, a, b, e, f)
         /\ RemovesMore(D.text, st.chunk.text, x, c, e)
  <1>1. /\ Holds(A, x, y, st.chunk, a, b, c, d) /\ st.done = Pair(c, d)
        /\ Len(st.chunk.text) <= C \/ Fronted(st.chunk.text)
    BY DEF IsRun, Emitted
  <1>2. x \in Seq(A) /\ y \in Seq(A) /\ c <= e /\ d <= f /\ (c < e \/ d < f \/ Len(st.chunk.text) = 0)
    BY DEF IsRun
  <1>3. e \in Nat /\ f \in Nat /\ p \in Nat /\ q \in Nat /\ e <= p /\ f <= q /\ p <= Len(x) /\ q <= Len(y)
    BY DEF IsRun, Gap
  <1>4. e <= Len(x) /\ f <= Len(y)
    BY <1>2, <1>3
  <1>5. IsDiffering(A, x, y, st, a, b, c, d, e, f, D)
    BY <1>1, <1>2, <1>3, <1>4 DEF IsDiffering
  <1>6. Holds(A, x, y, D, a, b, e, f) /\ Len(D.text) = Len(st.chunk.text) + (e - c) + (f - d)
    BY <1>5, DifferingRight
  <1>7. \A s : Removes(D.text, s) <=> Removes(st.chunk.text, s) \/ \E i \in c + 1 .. e : x[i] = s
    BY <1>5, DifferingRight, SMTT(30)
  <1>8. (Len(st.chunk.text) <= C \/ Fronted(st.chunk.text)) /\ (c < e \/ d < f) =>
              Fronted(D.text) /\ Backed(D.text, 0)
    BY <1>5, DifferingRight
  <1>9. a \in Nat /\ b \in Nat /\ c \in Nat /\ d \in Nat /\ a <= c /\ b <= d
    BY <1>1 DEF Holds
  <1>10. PICK m, n : m = Len(st.chunk.text) /\ n = Len(D.text)
    OBVIOUS
  <1>11. m \in Nat
    <2>1. st.chunk.text \in Printed(A)
      BY <1>1 DEF Holds
    <2> QED BY <1>10, <2>1 DEF Printed
  <1>12. n = m + (e - c) + (f - d) /\ (c < e \/ d < f \/ m = 0)
    BY <1>2, <1>6, <1>10
  <1>13. n \in Nat /\ (n # 0 => c < e \/ d < f) /\ (n = 0 <=> c = e /\ d = f /\ m = 0)
    BY <1>2, <1>3, <1>9, <1>11, <1>12
  <1>14. ASSUME n = 0 PROVE a = e /\ b = f
    <2>1. Count(D.text, Deleted, 0) = e - a /\ Count(D.text, Inserted, 0) = f - b
      BY <1>6, <1>10, <1>14 DEF Holds
    <2>2. \A T : {i \in 1 .. 0 : D.text[i][1] \in {Kept, T}} = {}
      OBVIOUS
    <2>3. e - a = 0 /\ f - b = 0
      BY <2>1, <2>2, FS_EmptySet DEF Count
    <2> QED BY <1>3, <1>9, <2>3
  <1>15. n # 0 => Fronted(D.text) /\ Backed(D.text, 0)
    BY <1>1, <1>8, <1>13
  <1>16. IsOpened(A, x, y, D, a, b, e, f)
    BY <1>6, <1>10, <1>13, <1>14, <1>15 DEF IsOpened
  <1> QED BY <1>7, <1>16 DEF RemovesMore

\* What was printed of it.
IsOut(x, D, e, k, out, w) ==
  w = IF Len(D.text) # 0 THEN Append(out, Header(Add(D, Kept, Slice(x, e, k)))) ELSE out

\* Whether it was printed or not, the texts are patched up to there.
LEMMA OutRight ==
  ASSUME NEW A, NEW x \in Seq(A), NEW y \in Seq(A), NEW D, NEW a, NEW b, NEW e, NEW f, NEW p, NEW q,
         IsOpened(A, x, y, D, a, b, e, f), Gap(x, y, e, f, p, q),
         NEW out, PatchedTo(A, x, y, out, a, b),
         NEW k \in Nat, e <= k, k <= p, k - e <= C, NEW w, IsOut(x, D, e, k, out, w)
  PROVE  /\ \A u, v \in Nat : (Len(D.text) # 0 => k <= u) /\ e <= u /\ u <= p /\ u - e = v - f =>
              PatchedTo(A, x, y, w, u, v)
         /\ \A s : OutRemoves(w, s) <=> OutRemoves(out, s) \/ Removes(D.text, s)
         /\ Len(D.text) # 0 => Len(w) # 0
  <1>1. /\ e \in Nat /\ f \in Nat /\ p \in Nat /\ q \in Nat
        /\ e <= p /\ p <= Len(x) /\ f <= q /\ q <= Len(y) /\ p - e = q - f
    BY DEF Gap
  <1>2. Len(x) \in Nat /\ Len(y) \in Nat
    OBVIOUS
  <1>3. CASE Len(D.text) # 0
    <2>1. PICK l \in Nat : k - e = l - f
      <3>1. f + (k - e) \in Nat /\ k - e = (f + (k - e)) - f
        BY <1>1
      <3> QED BY <3>1
    <2>2. Gap(x, y, e, f, k, l) /\ Gap(x, y, k, l, p, q)
      BY <1>2, <2>1, GapSplit
    <2>3. w = Append(out, Header(Add(D, Kept, Slice(x, e, k))))
      BY <1>3 DEF IsOut
    <2>4. IsPrinted(A, x, y, D, a, b, e, f, k, l, out, w)
      BY <1>3, <2>2, <2>3 DEF IsPrinted, IsOpened
    <2>5. PatchedTo(A, x, y, w, k, l) /\ Len(w) # 0
      BY <2>4, PrintedRight
    <2>6. \A s : OutRemoves(w, s) <=> OutRemoves(out, s) \/ Removes(D.text, s)
      BY <2>4, PrintedRight
    <2>7. ASSUME NEW u \in Nat, NEW v \in Nat, k <= u, e <= u, u <= p, u - e = v - f
          PROVE  PatchedTo(A, x, y, w, u, v)
      <3>1. u - k = v - l
        BY <1>1, <2>1, <2>7
      <3>2. Gap(x, y, k, l, u, v)
        BY <1>2, <2>2, <2>7, <3>1, GapSplit
      <3> QED BY <2>5, <3>2, PatchedLonger
    <2> QED BY <1>3, <2>5, <2>6, <2>7
  <1>4. CASE Len(D.text) = 0
    <2>1. w = out /\ a = e /\ b = f
      BY <1>4 DEF IsOut, IsOpened
    <2>2. \A s : ~Removes(D.text, s)
      <3>1. D.text \in Printed(A)
        BY DEF IsOpened, Holds
      <3>2. DOMAIN D.text = {}
        BY <1>4, <3>1 DEF Printed
      <3> QED BY <3>2 DEF Removes
    <2>3. ASSUME NEW u \in Nat, NEW v \in Nat, e <= u, u <= p, u - e = v - f
          PROVE  PatchedTo(A, x, y, w, u, v)
      <3>1. Gap(x, y, e, f, u, v)
        BY <1>2, <2>3, GapSplit
      <3> QED BY <2>1, <3>1, PatchedLonger
    <2> QED BY <1>4, <2>1, <2>2, <2>3
  <1> QED BY <1>3, <1>4

\* What Emit does with it.
Eof(x, y, p, q) == p >= Len(x) /\ q >= Len(y)
Goes(D, e, p) == p - e < C \/ (Len(D.text) # 0 /\ p - e < 2 * C)
IsEmitted(x, y, st, e, p, q, S, D, k, w) ==
  /\ k = e + IF p - e < C THEN p - e ELSE C
  /\ IsOut(x, D, e, k, st.out, w)
  /\ ~Eof(x, y, p, q) /\ Goes(D, e, p) =>
       S = [st EXCEPT !.done = Pair(p, q), !.chunk = Add(D, Kept, Slice(x, e, p))]
  /\ Eof(x, y, p, q) => S = [st EXCEPT !.out = w, !.over = TRUE]
  /\ ~Eof(x, y, p, q) /\ ~Goes(D, e, p) =>
       S = [done |-> Pair(p, q), out |-> w, over |-> FALSE,
            chunk |-> Add(NewChunk(Pair(p - C, q - C)), Kept, Slice(x, p - C, p))]

\* Emit by cases.
LEMMA EmitIs ==
  ASSUME NEW x, NEW y, NEW st, NEW e, NEW f, NEW p, NEW q, NEW S,
         S = Emit(x, y, st, Pair(e, f), Pair(p, q)),
         NEW D, D = Differing(x, y, st, Pair(e, f)), D.text # <<>> <=> Len(D.text) # 0
  PROVE  \E k, w : IsEmitted(x, y, st, e, p, q, S, D, k, w)
  <1>1. Pair(e, f).x = e /\ Pair(e, f).y = f /\ Pair(p, q).x = p /\ Pair(p, q).y = q
    BY DEF Pair
  <1> DEFINE common == p - e
             context == IF common < C THEN common ELSE C
             w == IF D.text # <<>>
                  THEN Append(st.out, Header(Add(D, Kept, Slice(x, e, e + context))))
                  ELSE st.out
             eof == p >= Len(x) /\ q >= Len(y)
             goes == common < C \/ (D.text # <<>> /\ common < 2 * C)
  <1>2. S = IF ~eof /\ goes
            THEN [st EXCEPT !.done = Pair(p, q), !.chunk = Add(D, Kept, Slice(x, e, p))]
            ELSE IF eof THEN [st EXCEPT !.out = w, !.over = TRUE]
            ELSE [done |-> Pair(p, q), out |-> w, over |-> FALSE,
                  chunk |-> Add(NewChunk(Pair(p - C, q - C)), Kept, Slice(x, p - C, p))]
    BY <1>1, Zenon DEF Emit
  <1>3. D.text # <<>> <=> Len(D.text) # 0
    OBVIOUS
  <1>4. IsOut(x, D, e, e + context, st.out, w)
    BY <1>3 DEF IsOut
  <1>5. eof <=> Eof(x, y, p, q)
    BY DEF Eof
  <1>6. goes <=> Goes(D, e, p)
    BY <1>3 DEF Goes
  <1> HIDE DEF eof, goes, w
  <1> WITNESS e + context, w
  <1>7. ~Eof(x, y, p, q) /\ Goes(D, e, p) =>
                S = [st EXCEPT !.done = Pair(p, q), !.chunk = Add(D, Kept, Slice(x, e, p))]
    BY <1>2, <1>5, <1>6
  <1>8. Eof(x, y, p, q) => S = [st EXCEPT !.out = w, !.over = TRUE]
    BY <1>2, <1>5, <1>6
  <1>9. ~Eof(x, y, p, q) /\ ~Goes(D, e, p) =>
                S = [done |-> Pair(p, q), out |-> w, over |-> FALSE,
                     chunk |-> Add(NewChunk(Pair(p - C, q - C)), Kept, Slice(x, p - C, p))]
    BY <1>2, <1>5, <1>6
  <1> QED BY <1>4, <1>7, <1>8, <1>9 DEF IsEmitted

\* The chunk goes on.
SameRemoved(w, t) == \A s : Removes(w, s) <=> Removes(t, s)

\* The chunk then has what was emitted.
LEMMA EmitMore ==
  ASSUME NEW A, NEW x \in Seq(A), NEW y \in Seq(A), NEW D, NEW W, NEW a, NEW b, NEW e, NEW f, NEW p, NEW q,
         IsOpened(A, x, y, D, a, b, e, f), Gap(x, y, e, f, p, q), Goes(D, e, p),
         W = Add(D, Kept, Slice(x, e, p))
  PROVE  /\ Holds(A, x, y, W, a, b, p, q)
         /\ Len(W.text) <= C \/ Fronted(W.text)
         /\ SameRemoved(W.text, D.text)
  <1>1. IsGrown(A, x, y, D, a, b, e, f, p, q, W)
    BY DEF IsGrown, IsOpened
  <1>2. /\ Holds(A, x, y, W, a, b, p, q)
        /\ Len(D.text) \in Nat /\ Len(W.text) = Len(D.text) + (p - e)
    BY <1>1, GrownRight
  <1>3. \A s : Removes(W.text, s) <=> Removes(D.text, s)
    BY ONLY <1>1, GrownRight
  <1>4. Fronted(D.text) => Fronted(W.text)
    BY <1>1, GrownRight
  <1>5. e \in Nat /\ p \in Nat /\ C \in Nat
    BY DiffAssumption DEF Gap
  <1>6. CASE Len(D.text) # 0
    BY <1>2, <1>3, <1>4, <1>6 DEF IsOpened, SameRemoved
  <1>7. CASE Len(D.text) = 0
    <2>1. p - e < C
      BY <1>7 DEF Goes
    <2>2. Len(W.text) = p - e
      BY <1>2, <1>5, <1>7
    <2>3. p - e <= C
      BY <1>5, <2>1
    <2> QED BY <1>2, <1>3, <2>2, <2>3 DEF SameRemoved
  <1> QED BY <1>6, <1>7

\* A new chunk starts with the last lines of a match.
LEMMA EmitNew ==
  ASSUME NEW A, NEW x \in Seq(A), NEW y \in Seq(A), NEW e, NEW f, NEW p, NEW q, NEW W,
         Gap(x, y, e, f, p, q), p - e >= C, NEW u \in Nat, NEW v \in Nat, u = p - C, v = q - C,
         W = Add(NewChunk(Pair(u, v)), Kept, Slice(x, u, p))
  PROVE  /\ Holds(A, x, y, W, u, v, p, q)
         /\ Len(W.text) <= C
         /\ \A s : ~Removes(W.text, s)
  <1>1. /\ e \in Nat /\ f \in Nat /\ p \in Nat /\ q \in Nat
        /\ e <= p /\ p <= Len(x) /\ f <= q /\ q <= Len(y) /\ p - e = q - f
    BY DEF Gap
  <1>2. C \in Nat /\ Len(x) \in Nat /\ Len(y) \in Nat
    BY DiffAssumption
  <1>3. e <= u /\ u <= p /\ u - e = v - f /\ u <= Len(x) /\ v <= Len(y) /\ p - u = C
    BY <1>1, <1>2
  <1>4. Gap(x, y, u, v, p, q)
    BY <1>2, <1>3, GapSplit
  <1>5. PICK N : N = NewChunk(Pair(u, v))
    OBVIOUS
  <1>6. Holds(A, x, y, N, u, v, u, v) /\ Len(N.text) = 0 /\ \A s : ~Removes(N.text, s)
    BY <1>3, <1>5, NewChunkRight
  <1>7. IsGrown(A, x, y, N, u, v, u, v, p, q, W)
    BY <1>4, <1>5, <1>6 DEF IsGrown
  <1>8. Holds(A, x, y, W, u, v, p, q) /\ Len(W.text) = Len(N.text) + (p - u)
    BY <1>7, GrownRight
  <1>9. \A s : Removes(W.text, s) <=> Removes(N.text, s)
    BY <1>7, GrownRight
  <1>10. Len(W.text) <= C
    BY <1>2, <1>3, <1>6, <1>8
  <1> QED BY <1>6, <1>8, <1>9, <1>10

\* After a match: all was printed, or the loop goes on.
EndsAt(A, x, y, st, S, c, e, p, q) ==
  /\ S.over = TRUE /\ PatchedTo(A, x, y, S.out, p, q)
  /\ \A s : OutRemoves(S.out, s) <=> AllRemoved(st, s) \/ \E i \in c + 1 .. e : x[i] = s
GoesOn(A, x, y, st, S, c, e, p, q) ==
  /\ \E k, l : Emitted(A, x, y, S, k, l, p, q)
  /\ \A s : AllRemoved(S, s) <=> AllRemoved(st, s) \/ \E i \in c + 1 .. e : x[i] = s

\* After a match, all is printed, or the loop goes on as it was.
LEMMA EmitRight ==
  ASSUME NEW A, NEW x, NEW y, NEW st, NEW a, NEW b, NEW c, NEW d, NEW e, NEW f, NEW p, NEW q, NEW S,
         IsRun(A, x, y, st, a, b, c, d, e, f, p, q),
         S = Emit(x, y, st, Pair(e, f), Pair(p, q))
  PROVE  /\ p = Len(x) /\ q = Len(y) => EndsAt(A, x, y, st, S, c, e, p, q)
         /\ ~(p = Len(x) /\ q = Len(y)) => GoesOn(A, x, y, st, S, c, e, p, q)
  <1>1. x \in Seq(A) /\ y \in Seq(A) /\ Gap(x, y, e, f, p, q) /\ Emitted(A, x, y, st, a, b, c, d)
    BY DEF IsRun
  <1>2. PICK D : D = Differing(x, y, st, Pair(e, f))
    OBVIOUS
  <1>r. IsRun(A, x, y, st, a, b, c, d, e, f, p, q)
    OBVIOUS
  <1>3. IsOpened(A, x, y, D, a, b, e, f)
    BY <1>2, OpenedRight
  <1>4. RemovesMore(D.text, st.chunk.text, x, c, e)
    BY <1>2, OpenedRight
  <1>5. D.text # <<>> <=> Len(D.text) # 0
    <2>1. D.text \in Seq({Kept, Deleted, Inserted} \X A)
      BY <1>3 DEF IsOpened, Holds, Printed
    <2> QED BY <2>1
  <1>6. PICK k, w : IsEmitted(x, y, st, e, p, q, S, D, k, w)
    BY <1>2, <1>5, EmitIs
  <1>7. /\ e \in Nat /\ f \in Nat /\ p \in Nat /\ q \in Nat
        /\ e <= p /\ p <= Len(x) /\ f <= q /\ q <= Len(y) /\ p - e = q - f
    BY <1>1 DEF Gap
  <1>8. Len(x) \in Nat /\ Len(y) \in Nat /\ C \in Nat /\ C > 0
    BY <1>1, DiffAssumption
  <1>9. Eof(x, y, p, q) <=> p = Len(x) /\ q = Len(y)
    BY <1>7, <1>8 DEF Eof
  <1>10. k \in Nat /\ e <= k /\ k <= p /\ k - e <= C
    BY <1>6, <1>7, <1>8 DEF IsEmitted
  <1>11. PatchedTo(A, x, y, st.out, a, b)
    BY <1>1 DEF Emitted
  <1>o. IsOut(x, D, e, k, st.out, w)
    BY <1>6 DEF IsEmitted
  <1>12. \A u, v \in Nat : (Len(D.text) # 0 => k <= u) /\ e <= u /\ u <= p /\ u - e = v - f =>
              PatchedTo(A, x, y, w, u, v)
    BY <1>1, <1>3, <1>o, <1>10, <1>11, OutRight
  <1>13. \A s : OutRemoves(w, s) <=> OutRemoves(st.out, s) \/ Removes(D.text, s)
    BY <1>1, <1>3, <1>o, <1>10, <1>11, OutRight
  <1>14. \A s : OutRemoves(w, s) <=> AllRemoved(st, s) \/ \E i \in c + 1 .. e : x[i] = s
    BY <1>4, <1>13 DEF AllRemoved, RemovesMore
  <1>15. st = [done |-> st.done, chunk |-> st.chunk, out |-> st.out, over |-> st.over] /\ st.over = FALSE
    BY <1>1 DEF Emitted
  <1>16. CASE Eof(x, y, p, q)
    <2>1. S = [st EXCEPT !.out = w, !.over = TRUE]
      BY <1>6, <1>16 DEF IsEmitted
    <2>2. S.over = TRUE /\ S.out = w
      BY <1>15, <2>1
    <2>3. p <= p /\ p - e = q - f /\ (Len(D.text) # 0 => k <= p)
      BY <1>7, <1>10
    <2>4. PatchedTo(A, x, y, w, p, q)
      BY <1>7, <1>12, <2>3
    <2> QED BY <1>9, <1>14, <1>16, <2>2, <2>4 DEF EndsAt
  <1>17. CASE ~Eof(x, y, p, q) /\ Goes(D, e, p)
    <2>1. PICK W : W = Add(D, Kept, Slice(x, e, p))
      OBVIOUS
    <2>2. S = [st EXCEPT !.done = Pair(p, q), !.chunk = W]
      BY <1>6, <1>17, <2>1 DEF IsEmitted
    <2>3. S.done = Pair(p, q) /\ S.chunk = W /\ S.out = st.out /\ S.over = FALSE
      BY <1>15, <2>2
    <2>4. S = [done |-> S.done, chunk |-> S.chunk, out |-> S.out, over |-> S.over]
      BY <1>15, <2>2
    <2>5. Holds(A, x, y, W, a, b, p, q) /\ (Len(W.text) <= C \/ Fronted(W.text))
      BY <1>1, <1>3, <1>17, <2>1, EmitMore
    <2>6. SameRemoved(W.text, D.text)
      BY <1>1, <1>3, <1>17, <2>1, EmitMore
    <2>7. Emitted(A, x, y, S, a, b, p, q)
      BY <1>11, <2>3, <2>4, <2>5 DEF Emitted
    <2>8. \A s : AllRemoved(S, s) <=> AllRemoved(st, s) \/ \E i \in c + 1 .. e : x[i] = s
      BY <1>4, <2>3, <2>6 DEF AllRemoved, RemovesMore, SameRemoved
    <2> QED BY <1>9, <1>17, <2>7, <2>8 DEF GoesOn
  <1>18. CASE ~Eof(x, y, p, q) /\ ~Goes(D, e, p)
    <2>1. ~(p - e < C) /\ ~(Len(D.text) # 0 /\ p - e < 2 * C)
      BY <1>18 DEF Goes
    <2>2. PICK u \in Nat, v \in Nat : u = p - C /\ v = q - C
      <3>1. p - C \in Nat /\ q - C \in Nat
        BY <1>7, <1>8, <2>1
      <3> QED BY <3>1
    <2>3. PICK W : W = Add(NewChunk(Pair(u, v)), Kept, Slice(x, u, p))
      OBVIOUS
    <2>4. S = [done |-> Pair(p, q), out |-> w, over |-> FALSE, chunk |-> W]
      BY <1>6, <1>18, <2>2, <2>3 DEF IsEmitted
    <2>5. S.done = Pair(p, q) /\ S.chunk = W /\ S.out = w /\ S.over = FALSE
      BY <2>4
    <2>6. S = [done |-> S.done, chunk |-> S.chunk, out |-> S.out, over |-> S.over]
      BY <2>4
    <2>7. p - e >= C
      BY <1>7, <1>8, <2>1
    <2>8. Holds(A, x, y, W, u, v, p, q) /\ Len(W.text) <= C /\ \A s : ~Removes(W.text, s)
      BY <1>1, <2>2, <2>3, <2>7, EmitNew
    <2>9. e <= u /\ u <= p /\ u - e = v - f
      BY <1>7, <1>8, <2>1, <2>2
    <2>10. Len(D.text) # 0 => k <= u
      <3>1. ASSUME Len(D.text) # 0 PROVE k <= u
        <4>1. ~(p - e < 2 * C)
          BY <2>1, <3>1
        <4> QED BY <1>7, <1>8, <1>10, <2>2, <4>1
      <3> QED BY <3>1
    <2>11. PatchedTo(A, x, y, w, u, v)
      BY <1>12, <2>9, <2>10
    <2>12. Emitted(A, x, y, S, u, v, p, q)
      BY <2>5, <2>6, <2>8, <2>11 DEF Emitted
    <2>13. \A s : AllRemoved(S, s) <=> AllRemoved(st, s) \/ \E i \in c + 1 .. e : x[i] = s
      BY <1>14, <2>5, <2>8 DEF AllRemoved
    <2> QED BY <1>9, <1>18, <2>12, <2>13 DEF GoesOn
  <1> QED BY <1>16, <1>17, <1>18

\* How far a match grows.
GrownTo(x, y, c, d, m, e, f, p, q) ==
  /\ Gap(x, y, e, f, p, q) /\ c <= e /\ d <= f
  /\ e <= m.x /\ m.x <= p /\ m.x - e = m.y - f
  /\ e = c /\ f = d =>
       (m.x = c /\ m.y = d) \/ (c < Len(x) /\ d < Len(y) /\ x[c + 1] = y[d + 1])
  /\ p = Len(x) \/ q = Len(y) \/ x[p + 1] # y[q + 1]

\* The lines before a match that are the same, back to what is done,
LEMMA BeforeIs ==
  ASSUME NEW x, NEW y, NEW c \in Nat, NEW d \in Nat, NEW m, m.x \in Nat, m.y \in Nat, c <= m.x, d <= m.y,
         NEW b, b = Before(x, y, Pair(c, d), m)
  PROVE  /\ b \in Nat /\ b <= m.x - c /\ b <= m.y - d
         /\ \A i \in 0 .. b - 1 : x[m.x - i] = y[m.y - i]
  <1>1. PICK T : T = {n \in 0 .. m.x : /\ n <= m.x - c /\ n <= m.y - d
                                        /\ \A i \in 0 .. n - 1 : x[m.x - i] = y[m.y - i]}
    OBVIOUS
  <1>2. b = Sets!Max(T)
    BY <1>1 DEF Before, Pair
  <1>3. 0 .. 0 - 1 = {}
    OBVIOUS
  <1>4. 0 \in T /\ T \subseteq 0 .. m.x
    BY <1>1, <1>3
  <1>5. b \in T
    BY <1>2, <1>4, MaxIs
  <1> QED BY <1>1, <1>5

\* and those after it.
LEMMA AfterIs ==
  ASSUME NEW x, NEW y, Len(x) \in Nat, Len(y) \in Nat, NEW m, m.x \in Nat, m.y \in Nat,
         m.x <= Len(x), m.y <= Len(y), NEW a, a = After(x, y, m)
  PROVE  /\ a \in Nat /\ m.x + a <= Len(x) /\ m.y + a <= Len(y)
         /\ \A i \in 1 .. a : x[m.x + i] = y[m.y + i]
         /\ m.x + a = Len(x) \/ m.y + a = Len(y) \/ x[m.x + a + 1] # y[m.y + a + 1]
  <1>1. PICK T, b : /\ b = Len(x) - m.x
                    /\ T = {n \in 0 .. b : /\ n <= Len(y) - m.y
                                           /\ \A i \in 1 .. n : x[m.x + i] = y[m.y + i]}
    OBVIOUS
  <1>2. a = Sets!Max(T)
    BY <1>1 DEF After
  <1>3. 1 .. 0 = {} /\ b \in Nat
    BY <1>1
  <1>4. 0 \in T /\ T \subseteq 0 .. b
    BY <1>1, <1>3
  <1>5. a \in T /\ \A n \in T : a >= n
    BY <1>2, <1>3, <1>4, MaxIs
  <1>6. a \in Nat /\ a <= b /\ a <= Len(y) - m.y
    BY <1>1, <1>3, <1>5
  <1>7. \A i \in 1 .. a : x[m.x + i] = y[m.y + i]
    BY <1>1, <1>5
  <1>8. ASSUME m.x + a # Len(x), m.y + a # Len(y), x[m.x + a + 1] = y[m.y + a + 1] PROVE FALSE
    <2>a. PICK u, v, X, Y : u = m.x /\ v = m.y /\ X = Len(x) /\ Y = Len(y)
      OBVIOUS
    <2>b. u \in Nat /\ v \in Nat /\ X \in Nat /\ Y \in Nat /\ b = X - u /\ a <= Y - v
      BY <1>1, <1>6, <2>a
    <2>c. u + a # X /\ v + a # Y
      BY <1>8, <2>a
    <2>d. a + 1 \in 0 .. b /\ a + 1 <= Y - v
      <3>1. a \in Nat /\ a <= b
        BY <1>6
      <3> QED BY ONLY <3>1, <2>b, <2>c
    <2>1. a + 1 \in 0 .. b /\ a + 1 <= Len(y) - m.y
      BY <2>a, <2>d
    <2>2. \A i \in 1 .. a + 1 : i \in 1 .. a \/ i = a + 1
      BY <1>6
    <2>3. m.x + (a + 1) = m.x + a + 1 /\ m.y + (a + 1) = m.y + a + 1
      BY <1>6, SMTT(30)
    <2>4. \A i \in 1 .. a + 1 : x[m.x + i] = y[m.y + i]
      BY <1>7, <1>8, <2>2, <2>3
    <2>5. a + 1 \in T
      BY <1>1, <2>1, <2>4
    <2> QED BY <1>5, <1>6, <2>5
  <1> QED BY <1>1, <1>6, <1>7, <1>8

\* To where Before and After grow it.
IsGrowth(x, y, c, d, m, e, f, p, q) ==
  /\ GrownTo(x, y, c, d, m, e, f, p, q)
  /\ Pair(e, f) = Pair(m.x - Before(x, y, Pair(c, d), m), m.y - Before(x, y, Pair(c, d), m))
  /\ Pair(p, q) = Pair(m.x + After(x, y, m), m.y + After(x, y, m))

\* Before and After grow a match so.
LEMMA GrowsRight ==
  ASSUME NEW x, NEW y, Len(x) \in Nat, Len(y) \in Nat, NEW c \in Nat, NEW d \in Nat, NEW m,
         m.x \in Nat, m.y \in Nat, c <= m.x, d <= m.y, m.x <= Len(x), m.y <= Len(y)
  PROVE  \E e, f, p, q : IsGrowth(x, y, c, d, m, e, f, p, q)
  <1>1. PICK a, b, u, v : /\ b = Before(x, y, Pair(c, d), m) /\ a = After(x, y, m)
                          /\ u = m.x /\ v = m.y
    OBVIOUS
  <1>2. /\ b \in Nat /\ b <= u - c /\ b <= v - d
        /\ \A i \in 0 .. b - 1 : x[u - i] = y[v - i]
    <2>1. b = Before(x, y, Pair(c, d), m)
      BY <1>1
    <2>2. b \in Nat /\ b <= m.x - c /\ b <= m.y - d
      BY <2>1, BeforeIs
    <2>3. \A i \in 0 .. b - 1 : x[m.x - i] = y[m.y - i]
      BY <2>1, BeforeIs
    <2> QED BY <1>1, <2>2, <2>3
  <1>3. /\ a \in Nat /\ u + a <= Len(x) /\ v + a <= Len(y)
        /\ \A i \in 1 .. a : x[u + i] = y[v + i]
        /\ u + a = Len(x) \/ v + a = Len(y) \/ x[u + a + 1] # y[v + a + 1]
    BY <1>1, AfterIs, SMTT(30)
  <1>4. u \in Nat /\ v \in Nat /\ c <= u /\ d <= v
    BY <1>1
  <1>5. PICK e, f, p, q : e = u - b /\ f = v - b /\ p = u + a /\ q = v + a
    OBVIOUS
  <1>6. /\ e \in Nat /\ f \in Nat /\ p \in Nat /\ q \in Nat /\ c <= e /\ d <= f /\ e <= u /\ u <= p
        /\ f <= v /\ v <= q /\ p <= Len(x) /\ q <= Len(y) /\ u - e = v - f /\ p - e = q - f
    <2>1. b \in Nat /\ b <= u - c /\ b <= v - d
      BY <1>2
    <2>2. a \in Nat /\ u + a <= Len(x) /\ v + a <= Len(y)
      BY <1>3
    <2> QED BY ONLY <1>4, <1>5, <2>1, <2>2, c \in Nat, d \in Nat, Len(x) \in Nat, Len(y) \in Nat
  <1>7. ASSUME NEW i \in 1 .. p - e PROVE x[e + i] = y[f + i]
    <2>1. CASE i <= b
      <3>1. PICK j \in 0 .. b - 1 : e + i = u - j /\ f + i = v - j
        <4>1. b - i \in 0 .. b - 1 /\ e + i = u - (b - i) /\ f + i = v - (b - i)
          BY <1>2, <1>4, <1>5, <2>1
        <4> QED BY <4>1
      <3> QED BY <1>2, <3>1
    <2>2. CASE ~(i <= b)
      <3>1. PICK j \in 1 .. a : e + i = u + j /\ f + i = v + j
        <4>1. i - b \in 1 .. a /\ e + i = u + (i - b) /\ f + i = v + (i - b)
          BY <1>2, <1>3, <1>4, <1>5, <2>2
        <4> QED BY <4>1
      <3> QED BY <1>3, <3>1
    <2> QED BY <2>1, <2>2
  <1>8. e <= p /\ f <= q
    BY <1>4, <1>6
  <1>9. Gap(x, y, e, f, p, q)
    BY <1>6, <1>7, <1>8 DEF Gap, Same
  <1>10. p = Len(x) \/ q = Len(y) \/ x[p + 1] # y[q + 1]
    BY <1>3, <1>5
  <1>11. ASSUME e = c, f = d, ~(u = c /\ v = d)
         PROVE  c < Len(x) /\ d < Len(y) /\ x[c + 1] = y[d + 1]
    <2>1. p - e \in Nat /\ p - e >= 1 /\ q - f >= 1
      BY <1>2, <1>4, <1>5, <1>6, <1>11, SMTT(30)
    <2>2. 1 \in 1 .. p - e
      BY <2>1
    <2> QED BY <1>6, <1>7, <1>11, <2>1, <2>2
  <1>12. GrownTo(x, y, c, d, m, e, f, p, q)
    <2>1. c <= e /\ d <= f /\ e <= m.x /\ m.x <= p /\ m.x - e = m.y - f
      BY <1>1, <1>6
    <2>2. e = c /\ f = d =>
            (m.x = c /\ m.y = d) \/ (c < Len(x) /\ d < Len(y) /\ x[c + 1] = y[d + 1])
      <3>1. u = m.x /\ v = m.y
        BY <1>1
      <3> QED BY ONLY <3>1, <1>11
    <2> QED BY <1>9, <1>10, <2>1, <2>2 DEF GrownTo
  <1> QED BY <1>1, <1>5, <1>12 DEF IsGrowth

\* Which lines of x and y up to c and d are printed as common, or not at all.
Aligned(x, y, G, c, d) ==
  /\ \A i, j : <<i, j>> \in G => i \in 1 .. c /\ j \in 1 .. d /\ x[i] = y[j]
  /\ \A i, j, k, l : <<i, j>> \in G /\ <<k, l>> \in G => (i < k <=> j < l)
Lost(G, c) == {i \in 1 .. c : \A j : <<i, j>> \notin G}
IsAligned(x, y, G, c, d, e, f, p, q, H) ==
  /\ Aligned(x, y, H, p, q) /\ G \subseteq H
  /\ \A i \in 1 .. p - e : <<e + i, f + i>> \in H
  /\ Lost(H, p) = Lost(G, c) \cup (c + 1 .. e)

\* With a match that was grown more lines are aligned.
LEMMA AlignedMore ==
  ASSUME NEW x, NEW y, NEW c \in Nat, NEW d \in Nat, NEW e, NEW f, NEW p, NEW q,
         Gap(x, y, e, f, p, q), c <= e, d <= f, NEW G, Aligned(x, y, G, c, d)
  PROVE  \E H : IsAligned(x, y, G, c, d, e, f, p, q, H)
  <1>1. /\ e \in Nat /\ f \in Nat /\ p \in Nat /\ q \in Nat
        /\ e <= p /\ f <= q /\ p - e = q - f
        /\ \A i \in 1 .. p - e : x[e + i] = y[f + i]
    BY DEF Gap, Same
  <1>2. PICK H : H = G \cup {<<e + i, f + i>> : i \in 1 .. p - e}
    OBVIOUS
  <1>3. \A i \in 1 .. p - e : <<e + i, f + i>> \in H
    BY <1>2
  <1>4. \A i, j : <<i, j>> \in H <=> <<i, j>> \in G \/ (i \in e + 1 .. p /\ j = f + (i - e))
    <2>1. ASSUME NEW i, NEW j, <<i, j>> \in H, <<i, j>> \notin G
          PROVE  i \in e + 1 .. p /\ j = f + (i - e)
      <3>1. PICK n \in 1 .. p - e : <<i, j>> = <<e + n, f + n>>
        BY <1>2, <2>1
      <3>2. i = e + n /\ j = f + n
        BY <3>1
      <3> QED BY <1>1, <3>2
    <2>2. ASSUME NEW i \in e + 1 .. p PROVE <<i, f + (i - e)>> \in H
      <3>1. i - e \in 1 .. p - e /\ e + (i - e) = i
        BY <1>1
      <3>2. <<e + (i - e), f + (i - e)>> \in H
        BY <1>3, <3>1
      <3> QED BY <3>1, <3>2
    <2> QED BY <1>2, <2>1, <2>2
  <1>5. \A i, j : <<i, j>> \in G => i \in 1 .. c /\ j \in 1 .. d /\ x[i] = y[j]
    BY DEF Aligned
  <1>6. \A i, j, k, l : <<i, j>> \in G /\ <<k, l>> \in G => (i < k <=> j < l)
    BY DEF Aligned
  <1>7. ASSUME NEW i, NEW j, <<i, j>> \in H PROVE i \in 1 .. p /\ j \in 1 .. q /\ x[i] = y[j]
    <2>1. CASE <<i, j>> \in G
      <3>1. i \in 1 .. c /\ j \in 1 .. d /\ x[i] = y[j]
        BY <1>5, <2>1
      <3> QED BY <1>1, <3>1
    <2>2. CASE i \in e + 1 .. p /\ j = f + (i - e)
      <3>1. PICK n \in 1 .. p - e : i = e + n /\ j = f + n
        <4>1. i - e \in 1 .. p - e /\ i = e + (i - e)
          BY <1>1, <2>2
        <4> QED BY <2>2, <4>1
      <3>2. x[e + n] = y[f + n]
        BY <1>1
      <3> QED BY <1>1, <3>1, <3>2
    <2> QED BY <1>4, <1>7, <2>1, <2>2
  <1>8. ASSUME NEW i, NEW j, NEW k, NEW l, <<i, j>> \in H, <<k, l>> \in H PROVE i < k <=> j < l
    <2>1. CASE <<i, j>> \in G /\ <<k, l>> \in G
      BY <1>6, <2>1
    <2>2. CASE <<i, j>> \in G /\ k \in e + 1 .. p /\ l = f + (k - e)
      <3>1. i \in 1 .. c /\ j \in 1 .. d
        BY <1>5, <2>2
      <3> QED BY <1>1, <2>2, <3>1
    <2>3. CASE i \in e + 1 .. p /\ j = f + (i - e) /\ <<k, l>> \in G
      <3>1. k \in 1 .. c /\ l \in 1 .. d
        BY <1>5, <2>3
      <3> QED BY <1>1, <2>3, <3>1
    <2>4. CASE i \in e + 1 .. p /\ j = f + (i - e) /\ k \in e + 1 .. p /\ l = f + (k - e)
      BY <1>1, <2>4
    <2> QED BY <1>4, <1>8, <2>1, <2>2, <2>3, <2>4
  <1>9. Aligned(x, y, H, p, q)
    BY <1>7, <1>8 DEF Aligned
  <1>10. Lost(H, p) = Lost(G, c) \cup (c + 1 .. e)
    <2>1. ASSUME NEW i \in Lost(H, p) PROVE i \in Lost(G, c) \cup (c + 1 .. e)
      <3>1. i \in 1 .. p /\ \A j : <<i, j>> \notin H
        BY DEF Lost
      <3>2. ~(i \in e + 1 .. p)
        BY <1>4, <3>1
      <3>3. \A j : <<i, j>> \notin G
        BY <1>2, <3>1
      <3>4. i \in 1 .. c \/ i \in c + 1 .. e
        BY <1>1, <3>1, <3>2
      <3> QED BY <3>3, <3>4 DEF Lost
    <2>2. ASSUME NEW i \in Lost(G, c) PROVE i \in Lost(H, p)
      <3>1. i \in 1 .. c /\ \A j : <<i, j>> \notin G
        BY DEF Lost
      <3>2. i \in 1 .. p /\ ~(i \in e + 1 .. p)
        BY <1>1, <3>1
      <3>3. \A j : <<i, j>> \notin H
        BY <1>4, <3>1, <3>2
      <3> QED BY <3>2, <3>3 DEF Lost
    <2>3. ASSUME NEW i \in c + 1 .. e PROVE i \in Lost(H, p)
      <3>1. i \in 1 .. p /\ ~(i \in e + 1 .. p) /\ ~(i \in 1 .. c)
        BY <1>1
      <3>2. \A j : <<i, j>> \notin H
        BY <1>4, <1>5, <3>1
      <3> QED BY <3>1, <3>2 DEF Lost
    <2> QED BY <2>1, <2>2, <2>3
  <1> QED BY <1>2, <1>3, <1>9, <1>10 DEF IsAligned

\* A line that is unique on both sides is in one place on each.
LEMMA UniqueIs ==
  ASSUME NEW x, NEW y, NEW s \in Uniques(x, y)
  PROVE  /\ \E i \in DOMAIN x, j \in DOMAIN y : x[i] = s /\ y[j] = s
         /\ \A i, k \in DOMAIN x : x[i] = s /\ x[k] = s => i = k
         /\ \A i, k \in DOMAIN y : y[i] = s /\ y[k] = s => i = k
  <1>1. Once(x, s) /\ Once(y, s)
    BY DEF Uniques
  <1>2. PICK i \in DOMAIN x : x[i] = s /\ \A k \in DOMAIN x : x[k] = s => k = i
    BY <1>1 DEF Once
  <1>3. PICK j \in DOMAIN y : y[j] = s /\ \A k \in DOMAIN y : y[k] = s => k = j
    BY <1>1 DEF Once
  <1> QED BY <1>2, <1>3

\* The lines after the match k are common up to p and q.
Ran(ms, k, G, p, q) ==
  /\ ms[k].x <= p /\ ms[k].y <= q /\ p - ms[k].x = q - ms[k].y
  /\ \A i \in 1 .. p - ms[k].x : <<ms[k].x + i, ms[k].y + i>> \in G
Anchor(ms, k) == <<ms[k].x + 1, ms[k].y + 1>>
Stuck(x, y, p, q) ==
  /\ ~(p = Len(x) /\ q = Len(y))
  /\ p = Len(x) \/ q = Len(y) \/ x[p + 1] # y[q + 1]

\* The matches are typed and rise.
LEMMA MatchesTyped ==
  ASSUME NEW A, NEW x \in Seq(A), NEW y \in Seq(A), NEW ms, NEW r, MatchesRight(x, y, ms, r)
  PROVE  /\ \A k \in 1 .. r + 2 : /\ ms[k] = Pair(ms[k].x, ms[k].y)
                                  /\ ms[k].x \in 0 .. Len(x) /\ ms[k].y \in 0 .. Len(y)
         /\ \A k \in 2 .. r + 1 :
              /\ ms[k].x < Len(x) /\ ms[k].y < Len(y)
              /\ x[ms[k].x + 1] \in Uniques(x, y) /\ x[ms[k].x + 1] = y[ms[k].y + 1]
         /\ \A k, l \in 1 .. r + 1 : k < l => ms[k].x <= ms[l].x /\ ms[k].y <= ms[l].y
  <1>1. r \in Nat /\ Len(x) \in Nat /\ Len(y) \in Nat
    BY DEF MatchesRight
  <1>2. \A k \in 2 .. r + 1 : /\ ms[k] = Pair(ms[k].x, ms[k].y)
                              /\ ms[k].x \in 0 .. Len(x) - 1 /\ ms[k].y \in 0 .. Len(y) - 1
    BY DEF MatchesRight
  <1>3. \A k \in 2 .. r + 1 : x[ms[k].x + 1] \in Uniques(x, y) /\ x[ms[k].x + 1] = y[ms[k].y + 1]
    BY DEF MatchesRight
  <1>4. ms[1] = Pair(0, 0) /\ ms[r + 2] = Pair(Len(x), Len(y))
    BY DEF MatchesRight
  <1>5. ms[1].x = 0 /\ ms[1].y = 0 /\ ms[r + 2].x = Len(x) /\ ms[r + 2].y = Len(y)
    BY <1>4 DEF Pair
  <1>6. \A k \in 1 .. r + 2 : k = 1 \/ k = r + 2 \/ k \in 2 .. r + 1
    BY <1>1
  <1>7. ASSUME NEW k \in 1 .. r + 2
        PROVE  /\ ms[k] = Pair(ms[k].x, ms[k].y)
               /\ ms[k].x \in 0 .. Len(x) /\ ms[k].y \in 0 .. Len(y)
    <2>1. CASE k \in 2 .. r + 1
      BY <1>1, <1>2, <2>1
    <2>2. CASE k = 1
      BY <1>1, <1>4, <1>5, <2>2
    <2>3. CASE k = r + 2
      BY <1>1, <1>4, <1>5, <2>3
    <2> QED BY <1>6, <2>1, <2>2, <2>3
  <1>8. ASSUME NEW k \in 2 .. r + 1 PROVE ms[k].x < Len(x) /\ ms[k].y < Len(y)
    BY <1>1, <1>2
  <1>9. ASSUME NEW k \in 1 .. r + 1, NEW l \in 1 .. r + 1, k < l
        PROVE  ms[k].x <= ms[l].x /\ ms[k].y <= ms[l].y
    <2>1. l \in 2 .. r + 1
      BY <1>1, <1>9
    <2>2. ms[l].x \in 0 .. Len(x) - 1 /\ ms[l].y \in 0 .. Len(y) - 1
      BY <1>2, <2>1
    <2>3. CASE k = 1
      BY <1>1, <1>5, <2>2, <2>3
    <2>4. CASE k # 1
      <3>1. k \in 2 .. r + 1
        BY <1>1, <2>4
      <3>2. ms[k].x \in 0 .. Len(x) - 1 /\ ms[k].y \in 0 .. Len(y) - 1
        BY <1>2, <3>1
      <3>3. ms[k].x < ms[l].x /\ ms[k].y < ms[l].y
        BY <1>9, <2>1, <3>1 DEF MatchesRight
      <3> QED BY <1>1, <2>2, <3>2, <3>3
    <2> QED BY <2>3, <2>4
  <1> QED BY <1>3, <1>7, <1>8, <1>9

\* A later match that begins in the run of an earlier one is part of it.
LEMMA Covered ==
  ASSUME NEW A, NEW x \in Seq(A), NEW y \in Seq(A), NEW ms, NEW r, MatchesRight(x, y, ms, r),
         NEW G, NEW c \in 0 .. Len(x), NEW d \in 0 .. Len(y), Aligned(x, y, G, c, d),
         NEW k \in 1 .. r + 1, NEW l \in 2 .. r + 1, k < l, Ran(ms, k, G, c, d)
  PROVE  /\ ms[l].x < c => Anchor(ms, l) \in G
         /\ ms[l].y < d => ms[l].x < c
  <1>1. PICK g, h, u, v, X, Y : /\ g = ms[k].x /\ h = ms[k].y /\ u = ms[l].x /\ v = ms[l].y
                                /\ X = Len(x) /\ Y = Len(y)
    OBVIOUS
  <1>2. r \in Nat /\ X \in Nat /\ Y \in Nat /\ c \in Nat /\ d \in Nat /\ c <= X /\ d <= Y
    BY <1>1 DEF MatchesRight
  <1>3. g \in Nat /\ h \in Nat /\ g <= X /\ h <= Y
    <2>1. k \in 1 .. r + 2
      BY <1>2
    <2>2. ms[k].x \in 0 .. Len(x) /\ ms[k].y \in 0 .. Len(y)
      BY <2>1, MatchesTyped
    <2> QED BY <1>1, <1>2, <2>2
  <1>4. u \in Nat /\ v \in Nat /\ u < X /\ v < Y
    <2>1. l \in 1 .. r + 2
      BY <1>2
    <2>2. ms[l].x \in 0 .. Len(x) /\ ms[l].y \in 0 .. Len(y)
      BY <2>1, MatchesTyped
    <2>3. ms[l].x < Len(x) /\ ms[l].y < Len(y)
      BY MatchesTyped
    <2> QED BY <1>1, <1>2, <2>2, <2>3
  <1>5. x[u + 1] \in Uniques(x, y) /\ x[u + 1] = y[v + 1]
    <2>1. x[ms[l].x + 1] \in Uniques(x, y) /\ x[ms[l].x + 1] = y[ms[l].y + 1]
      BY MatchesTyped
    <2> QED BY <1>1, <2>1
  <1>6. g <= u /\ h <= v
    <2>1. l \in 1 .. r + 1
      BY <1>2
    <2>2. ms[k].x <= ms[l].x /\ ms[k].y <= ms[l].y
      BY <2>1, MatchesTyped
    <2> QED BY <1>1, <2>2
  <1>7. g <= c /\ h <= d /\ c - g = d - h /\ \A i \in 1 .. c - g : <<g + i, h + i>> \in G
    BY <1>1 DEF Ran
  <1>8. \A i, j : <<i, j>> \in G => i \in 1 .. c /\ j \in 1 .. d /\ x[i] = y[j]
    BY DEF Aligned
  <1>9. DOMAIN x = 1 .. X /\ DOMAIN y = 1 .. Y
    BY <1>1
  <1>10. u + 1 \in 1 .. X /\ v + 1 \in 1 .. Y
    BY <1>2, <1>4
  <1>11. ASSUME u < c PROVE <<u + 1, v + 1>> \in G
    <2>1. PICK j : j = h + (u + 1 - g)
      OBVIOUS
    <2>2. <<u + 1, j>> \in G
      <3>1. u + 1 - g \in 1 .. c - g /\ g + (u + 1 - g) = u + 1
        BY <1>2, <1>3, <1>4, <1>6, <1>7, <1>11
      <3>2. <<g + (u + 1 - g), h + (u + 1 - g)>> \in G
        BY <1>7, <3>1
      <3> QED BY <2>1, <3>1, <3>2
    <2>3. j \in 1 .. d /\ x[u + 1] = y[j]
      BY <1>8, <2>2
    <2>4. j \in 1 .. Y
      BY <1>2, <2>3
    <2>5. j = v + 1
      <3>1. \A a, b \in DOMAIN y : y[a] = x[u + 1] /\ y[b] = x[u + 1] => a = b
        BY <1>5, UniqueIs
      <3> QED BY ONLY <1>5, <1>9, <1>10, <2>3, <2>4, <3>1
    <2> QED BY <2>2, <2>5
  <1>12. ASSUME v < d PROVE u < c
    <2>1. PICK i : i = g + (v + 1 - h)
      OBVIOUS
    <2>2. <<i, v + 1>> \in G
      <3>1. v + 1 - h \in 1 .. c - g /\ h + (v + 1 - h) = v + 1
        BY <1>2, <1>3, <1>4, <1>6, <1>7, <1>12
      <3>2. <<g + (v + 1 - h), h + (v + 1 - h)>> \in G
        BY <1>7, <3>1
      <3> QED BY <2>1, <3>1, <3>2
    <2>3. i \in 1 .. c /\ x[i] = y[v + 1]
      BY <1>8, <2>2
    <2>4. i \in 1 .. X
      BY <1>2, <2>3
    <2>5. i = u + 1
      <3>1. \A a, b \in DOMAIN x : x[a] = x[u + 1] /\ x[b] = x[u + 1] => a = b
        BY <1>5, UniqueIs
      <3> QED BY ONLY <1>5, <1>9, <1>10, <2>3, <2>4, <3>1
    <2> QED BY <1>2, <1>4, <2>3, <2>5
  <1>13. ms[l].x < c => Anchor(ms, l) \in G
    BY <1>1, <1>11 DEF Anchor
  <1>14. ms[l].y < d => ms[l].x < c
    BY <1>1, <1>12
  <1> QED BY <1>13, <1>14

\* The state of the loop: left, with all printed, or after n matches.
OverRight(A, x, y, ms, r, st) ==
  /\ st.over = TRUE /\ PatchedTo(A, x, y, st.out, Len(x), Len(y))
  /\ \E G : /\ Aligned(x, y, G, Len(x), Len(y))
            /\ \A k \in 2 .. r + 1 : Anchor(ms, k) \in G
            /\ \A s : OutRemoves(st.out, s) <=> \E i \in Lost(G, Len(x)) : x[i] = s
Going(x, y, ms, r, n, G, c, d, st) ==
  /\ n = 0 => c = 0 /\ d = 0 /\ Len(st.chunk.text) = 0
  /\ n > 0 => (\E k \in 1 .. n : Ran(ms, k, G, c, d)) /\ Stuck(x, y, c, d)
  /\ \A k \in 2 .. r + 1 : k <= n => Anchor(ms, k) \in G
GoingRight(A, x, y, ms, r, n, st, a, b, c, d, G) ==
  /\ n <= r + 1 /\ Emitted(A, x, y, st, a, b, c, d) /\ Aligned(x, y, G, c, d)
  /\ \A s : AllRemoved(st, s) <=> \E i \in Lost(G, c) : x[i] = s
  /\ Going(x, y, ms, r, n, G, c, d, st)
LoopRight(A, x, y, ms, r, n, st) ==
  \/ OverRight(A, x, y, ms, r, st)
  \/ \E a, b, c, d, G : GoingRight(A, x, y, ms, r, n, st, a, b, c, d, G)

\* A match is skipped.
LEMMA SkippedRight ==
  ASSUME NEW A, NEW x \in Seq(A), NEW y \in Seq(A), NEW ms, NEW r, MatchesRight(x, y, ms, r),
         NEW n \in 1 .. r + 2, NEW st, NEW a, NEW b, NEW c, NEW d, NEW G,
         GoingRight(A, x, y, ms, r, n - 1, st, a, b, c, d, G), ms[n].x < c
  PROVE  GoingRight(A, x, y, ms, r, n, st, a, b, c, d, G)
  <1>1. /\ n - 1 <= r + 1 /\ Emitted(A, x, y, st, a, b, c, d) /\ Aligned(x, y, G, c, d)
        /\ \A s : AllRemoved(st, s) <=> \E i \in Lost(G, c) : x[i] = s
    BY DEF GoingRight
  <1>2. Going(x, y, ms, r, n - 1, G, c, d, st)
    BY DEF GoingRight
  <1>3. r \in Nat /\ n \in Nat /\ n > 0 /\ Len(x) \in Nat /\ Len(y) \in Nat
    BY DEF MatchesRight
  <1>4. c \in 0 .. Len(x) /\ d \in 0 .. Len(y)
    BY <1>1, <1>3 DEF Emitted, Holds
  <1>5. ms[n].x \in 0 .. Len(x)
    BY MatchesTyped
  <1>6. n # r + 2
    <2>1. ms[r + 2].x = Len(x)
      BY DEF MatchesRight, Pair
    <2> QED BY <1>3, <1>4, <1>5, <2>1
  <1>7. n - 1 > 0
    <2>1. n - 1 = 0 => c = 0
      BY <1>2 DEF Going
    <2> QED BY <1>3, <1>4, <1>5, <2>1
  <1>8. n \in 2 .. r + 1
    BY <1>3, <1>6, <1>7
  <1>9. PICK k \in 1 .. n - 1 : Ran(ms, k, G, c, d)
    BY <1>2, <1>7 DEF Going
  <1>10. k \in 1 .. r + 1 /\ k < n /\ k \in 1 .. n
    BY <1>3, <1>8
  <1>11. Anchor(ms, n) \in G
    BY <1>1, <1>4, <1>8, <1>9, <1>10, Covered
  <1>12. \A l \in 2 .. r + 1 : l <= n => Anchor(ms, l) \in G
    <2>1. \A l \in 2 .. r + 1 : l <= n => l <= n - 1 \/ l = n
      BY <1>3
    <2>2. \A l \in 2 .. r + 1 : l <= n - 1 => Anchor(ms, l) \in G
      BY <1>2 DEF Going
    <2> QED BY <1>11, <2>1, <2>2
  <1>13. Stuck(x, y, c, d)
    BY <1>2, <1>7 DEF Going
  <1>14. Going(x, y, ms, r, n, G, c, d, st)
    BY <1>3, <1>9, <1>10, <1>12, <1>13 DEF Going
  <1>15. n <= r + 1
    BY <1>3, <1>8
  <1> QED BY <1>1, <1>14, <1>15 DEF GoingRight

\* One that is not begins where both sides are not done.
LEMMA BeginsRight ==
  ASSUME NEW A, NEW x \in Seq(A), NEW y \in Seq(A), NEW ms, NEW r, MatchesRight(x, y, ms, r),
         NEW n \in 1 .. r + 2, NEW st, NEW a, NEW b, NEW c, NEW d, NEW G,
         GoingRight(A, x, y, ms, r, n - 1, st, a, b, c, d, G), ~(ms[n].x < c)
  PROVE  /\ c \in Nat /\ d \in Nat /\ c <= Len(x) /\ d <= Len(y)
         /\ c <= ms[n].x /\ d <= ms[n].y
         /\ ms[n].x = c /\ ms[n].y = d => n = 1 \/ (n # r + 2 /\ x[c + 1] = y[d + 1] /\ c < Len(x) /\ d < Len(y))
  <1>1. Emitted(A, x, y, st, a, b, c, d) /\ Aligned(x, y, G, c, d)
    BY DEF GoingRight
  <1>2. Going(x, y, ms, r, n - 1, G, c, d, st)
    BY DEF GoingRight
  <1>3. r \in Nat /\ n \in Nat /\ n > 0 /\ Len(x) \in Nat /\ Len(y) \in Nat
    BY DEF MatchesRight
  <1>4. c \in 0 .. Len(x) /\ d \in 0 .. Len(y)
    BY <1>1, <1>3 DEF Emitted, Holds
  <1>5. ms[n].x \in 0 .. Len(x) /\ ms[n].y \in 0 .. Len(y)
    BY MatchesTyped
  <1>6. c <= ms[n].x
    BY <1>3, <1>4, <1>5
  <1>7. CASE n = 1
    <2>1. d = 0
      BY <1>2, <1>7 DEF Going
    <2> QED BY <1>3, <1>4, <1>5, <1>6, <1>7, <2>1
  <1>8. CASE n = r + 2 /\ n # 1
    <2>1. ms[n].x = Len(x) /\ ms[n].y = Len(y)
      BY <1>8 DEF MatchesRight, Pair
    <2>2. Stuck(x, y, c, d)
      BY <1>2, <1>3, <1>8 DEF Going
    <2>3. ~(ms[n].x = c /\ ms[n].y = d)
      BY <2>1, <2>2 DEF Stuck
    <2> QED BY <1>3, <1>4, <1>5, <1>6, <2>1, <2>3
  <1>9. CASE n # r + 2 /\ n # 1
    <2>1. n \in 2 .. r + 1 /\ n - 1 > 0
      BY <1>3, <1>9
    <2>2. PICK k \in 1 .. n - 1 : Ran(ms, k, G, c, d)
      BY <1>2, <2>1 DEF Going
    <2>3. k \in 1 .. r + 1 /\ k < n
      BY <1>3, <2>1
    <2>4. ms[n].y < d => ms[n].x < c
      BY <1>1, <1>4, <2>1, <2>2, <2>3, Covered
    <2>5. d <= ms[n].y
      BY <1>3, <1>4, <1>5, <2>4
    <2>6. ms[n].x < Len(x) /\ ms[n].y < Len(y) /\ x[ms[n].x + 1] = y[ms[n].y + 1]
      BY <2>1, MatchesTyped
    <2> QED BY <1>3, <1>4, <1>6, <1>9, <2>5, <2>6, SMTT(30)
  <1> QED BY <1>7, <1>8, <1>9

\* What is common after it.
LEMMA RanRight ==
  ASSUME NEW x, NEW y, NEW ms, NEW n, NEW c \in Nat, NEW d \in Nat, NEW e, NEW f, NEW p, NEW q,
         ms[n].x \in Nat, ms[n].y \in Nat, GrownTo(x, y, c, d, ms[n], e, f, p, q), NEW G, NEW H,
         IsAligned(x, y, G, c, d, e, f, p, q, H)
  PROVE  Ran(ms, n, H, p, q) /\ (ms[n].x < p => Anchor(ms, n) \in H)
  <1>1. PICK u, v : u = ms[n].x /\ v = ms[n].y
    OBVIOUS
  <1>2. /\ e \in Nat /\ f \in Nat /\ p \in Nat /\ q \in Nat /\ p - e = q - f
    BY DEF GrownTo, Gap
  <1>3. u \in Nat /\ v \in Nat /\ e <= u /\ u <= p /\ u - e = v - f
    BY <1>1 DEF GrownTo
  <1>4. \A i \in 1 .. p - e : <<e + i, f + i>> \in H
    BY DEF IsAligned
  <1>5. ASSUME NEW i \in 1 .. p - u PROVE <<u + i, v + i>> \in H
    <2>1. PICK j \in 1 .. p - e : u + i = e + j /\ v + i = f + j
      <3>1. u + i - e \in 1 .. p - e /\ u + i = e + (u + i - e) /\ v + i = f + (u + i - e)
        BY <1>2, <1>3
      <3> QED BY <3>1
    <2> QED BY <1>4, <2>1
  <1>6. v <= q /\ p - u = q - v
    BY <1>2, <1>3
  <1>7. Ran(ms, n, H, p, q)
    BY <1>1, <1>3, <1>5, <1>6 DEF Ran
  <1>8. u < p => <<u + 1, v + 1>> \in H
    <2>1. u < p => 1 \in 1 .. p - u
      BY <1>2, <1>3
    <2> QED BY <1>5, <2>1
  <1> QED BY <1>1, <1>7, <1>8 DEF Anchor

\* Match then grows it and emits what is before.
LEMMA RunRight ==
  ASSUME NEW A, NEW x \in Seq(A), NEW y \in Seq(A), NEW ms, NEW r, MatchesRight(x, y, ms, r),
         NEW n \in 1 .. r + 2, NEW st, NEW a, NEW b, NEW c, NEW d, NEW G,
         GoingRight(A, x, y, ms, r, n - 1, st, a, b, c, d, G), ~(ms[n].x < c),
         NEW S, S = Match(x, y, st, ms[n])
  PROVE  \E e, f, p, q : /\ IsRun(A, x, y, st, a, b, c, d, e, f, p, q)
                         /\ GrownTo(x, y, c, d, ms[n], e, f, p, q)
                         /\ S = Emit(x, y, st, Pair(e, f), Pair(p, q))
  <1>1. /\ c \in Nat /\ d \in Nat /\ c <= Len(x) /\ d <= Len(y) /\ c <= ms[n].x /\ d <= ms[n].y
    BY BeginsRight
  <1>2. ms[n].x = c /\ ms[n].y = d => n = 1 \/ (n # r + 2 /\ x[c + 1] = y[d + 1] /\ c < Len(x) /\ d < Len(y))
    BY BeginsRight
  <1>3. ms[n].x \in 0 .. Len(x) /\ ms[n].y \in 0 .. Len(y)
    BY MatchesTyped
  <1>4. Emitted(A, x, y, st, a, b, c, d) /\ Going(x, y, ms, r, n - 1, G, c, d, st)
    BY DEF GoingRight
  <1>5. Len(x) \in Nat /\ Len(y) \in Nat /\ n \in Nat /\ n > 0
    BY DEF MatchesRight
  <1>6. PICK e, f, p, q : IsGrowth(x, y, c, d, ms[n], e, f, p, q)
    <2>1. ms[n].x \in Nat /\ ms[n].y \in Nat /\ ms[n].x <= Len(x) /\ ms[n].y <= Len(y)
      BY <1>3, <1>5
    <2> QED BY <1>1, <1>5, <2>1, GrowsRight
  <1>7. st.done = Pair(c, d) /\ st.over = FALSE /\ st.done.x = c
    BY <1>4 DEF Emitted, Pair
  <1>8. S = Emit(x, y, st, Pair(e, f), Pair(p, q))
    <2>1. S = Emit(x, y, st,
                   Pair(ms[n].x - Before(x, y, st.done, ms[n]), ms[n].y - Before(x, y, st.done, ms[n])),
                   Pair(ms[n].x + After(x, y, ms[n]), ms[n].y + After(x, y, ms[n])))
      BY <1>7 DEF Match
    <2> QED BY <1>6, <1>7, <2>1 DEF IsGrowth
  <1>g. GrownTo(x, y, c, d, ms[n], e, f, p, q)
    BY <1>6 DEF IsGrowth
  <1>9. Gap(x, y, e, f, p, q) /\ c <= e /\ d <= f
    BY <1>g DEF GrownTo
  <1>10. c < e \/ d < f \/ Len(st.chunk.text) = 0
    <2> SUFFICES ASSUME ~(c < e), ~(d < f) PROVE Len(st.chunk.text) = 0
      OBVIOUS
    <2>1. e = c /\ f = d
      BY <1>1, <1>9 DEF Gap
    <2>2. (ms[n].x = c /\ ms[n].y = d) \/ (c < Len(x) /\ d < Len(y) /\ x[c + 1] = y[d + 1])
      BY <1>g, <2>1 DEF GrownTo
    <2>3. CASE n = 1
      BY <1>4, <2>3 DEF Going
    <2>4. CASE n # 1
      <3>1. Stuck(x, y, c, d)
        <4>1. n - 1 > 0
          BY <1>5, <2>4
        <4> QED BY <1>4, <4>1 DEF Going
      <3>2. c < Len(x) /\ d < Len(y) /\ x[c + 1] = y[d + 1]
        BY <1>2, <2>2, <2>4
      <3> QED BY <1>1, <1>5, <3>1, <3>2 DEF Stuck
    <2> QED BY <2>3, <2>4
  <1>11. IsRun(A, x, y, st, a, b, c, d, e, f, p, q)
    BY <1>4, <1>9, <1>10 DEF IsRun
  <1> QED BY <1>g, <1>8, <1>11

\* A match that is processed.
LEMMA ProcessedRight ==
  ASSUME NEW A, NEW x \in Seq(A), NEW y \in Seq(A), NEW ms, NEW r, MatchesRight(x, y, ms, r),
         NEW n \in 1 .. r + 2, NEW st, NEW a, NEW b, NEW c, NEW d, NEW G,
         GoingRight(A, x, y, ms, r, n - 1, st, a, b, c, d, G), ~(ms[n].x < c),
         NEW S, S = Match(x, y, st, ms[n])
  PROVE  LoopRight(A, x, y, ms, r, n, S)
  <1>1. PICK e, f, p, q : /\ IsRun(A, x, y, st, a, b, c, d, e, f, p, q)
                          /\ GrownTo(x, y, c, d, ms[n], e, f, p, q)
                          /\ S = Emit(x, y, st, Pair(e, f), Pair(p, q))
    BY RunRight
  <1>2. c \in Nat /\ d \in Nat
    BY BeginsRight
  <1>3. PICK X, Y : X = Len(x) /\ Y = Len(y)
    OBVIOUS
  <1>4. X \in Nat /\ Y \in Nat /\ r \in Nat /\ n \in Nat /\ n > 0
    BY <1>3 DEF MatchesRight
  <1>5. Gap(x, y, e, f, p, q) /\ c <= e /\ d <= f
    BY <1>1 DEF GrownTo
  <1>6. p \in 0 .. X /\ q \in 0 .. Y
    BY <1>3, <1>4, <1>5 DEF Gap
  <1>7. ms[n].x \in 0 .. X /\ ms[n].y \in 0 .. Y
    BY <1>3, MatchesTyped
  <1>8. Aligned(x, y, G, c, d) /\ Going(x, y, ms, r, n - 1, G, c, d, st)
    BY DEF GoingRight
  <1>9. \A s : AllRemoved(st, s) <=> \E i \in Lost(G, c) : x[i] = s
    BY DEF GoingRight
  <1>10. PICK H : IsAligned(x, y, G, c, d, e, f, p, q, H)
    BY <1>2, <1>5, <1>8, AlignedMore
  <1>11. Ran(ms, n, H, p, q) /\ (ms[n].x < p => Anchor(ms, n) \in H)
    <2>1. ms[n].x \in Nat /\ ms[n].y \in Nat
      BY <1>7
    <2> QED BY <1>1, <1>2, <1>10, <2>1, RanRight
  <1>12. Aligned(x, y, H, p, q) /\ G \subseteq H /\ Lost(H, p) = Lost(G, c) \cup (c + 1 .. e)
    BY <1>10 DEF IsAligned
  <1>13. ASSUME NEW s
         PROVE  (AllRemoved(st, s) \/ \E i \in c + 1 .. e : x[i] = s) <=> \E i \in Lost(H, p) : x[i] = s
    BY <1>9, <1>12
  <1>14. \A k \in 2 .. r + 1 : k <= n - 1 => Anchor(ms, k) \in H
    BY <1>8, <1>12 DEF Going
  <1>15. ms[n].x <= p /\ ms[n].y <= q /\ p - ms[n].x = q - ms[n].y
    BY <1>11 DEF Ran
  <1>16. CASE p = X /\ q = Y
    <2>0. EndsAt(A, x, y, st, S, c, e, p, q)
      BY <1>1, <1>3, <1>16, EmitRight
    <2>1. S.over = TRUE /\ PatchedTo(A, x, y, S.out, p, q)
      BY <2>0 DEF EndsAt
    <2>2. \A s : OutRemoves(S.out, s) <=> AllRemoved(st, s) \/ \E i \in c + 1 .. e : x[i] = s
      BY <2>0 DEF EndsAt
    <2>3. ASSUME NEW k \in 2 .. r + 1 PROVE Anchor(ms, k) \in H
      <3>1. ms[k].x < X
        BY <1>3, MatchesTyped
      <3>2. CASE k <= n - 1
        BY <1>14, <3>2
      <3>3. CASE k = n
        BY <1>11, <1>16, <3>1, <3>3
      <3>4. CASE k > n
        <4>1. n \in 1 .. r + 1
          BY <1>4, <3>4
        <4> QED BY <1>3, <1>6, <1>11, <1>12, <1>16, <3>1, <3>4, <4>1, Covered
      <3> QED BY <1>4, <3>2, <3>3, <3>4
    <2>4. \A s : OutRemoves(S.out, s) <=> \E i \in Lost(H, p) : x[i] = s
      BY <1>13, <2>2
    <2>5. OverRight(A, x, y, ms, r, S)
      BY <1>3, <1>12, <1>16, <2>1, <2>3, <2>4 DEF OverRight
    <2> QED BY <2>5 DEF LoopRight
  <1>17. CASE ~(p = X /\ q = Y)
    <2>0. GoesOn(A, x, y, st, S, c, e, p, q)
      BY <1>1, <1>3, <1>17, EmitRight
    <2>1. PICK k, l : Emitted(A, x, y, S, k, l, p, q)
      BY <2>0 DEF GoesOn
    <2>2. \A s : AllRemoved(S, s) <=> AllRemoved(st, s) \/ \E i \in c + 1 .. e : x[i] = s
      BY <2>0 DEF GoesOn
    <2>3. \A s : AllRemoved(S, s) <=> \E i \in Lost(H, p) : x[i] = s
      BY <1>13, <2>2
    <2>4. n <= r + 1
      <3> SUFFICES ASSUME n = r + 2 PROVE FALSE
        BY <1>4
      <3>1. ms[n].x = X /\ ms[n].y = Y
        BY <1>3 DEF MatchesRight, Pair
      <3> QED BY <1>4, <1>6, <1>15, <1>17, <3>1
    <2>5. Stuck(x, y, p, q)
      BY <1>1, <1>3, <1>17 DEF Stuck, GrownTo
    <2>6. n \in 2 .. r + 1 => Anchor(ms, n) \in H
      <3> SUFFICES ASSUME n \in 2 .. r + 1 PROVE ms[n].x < p
        BY <1>11
      <3>0. \A m \in 2 .. r + 1 :
              ms[m].x < Len(x) /\ ms[m].y < Len(y) /\ x[ms[m].x + 1] = y[ms[m].y + 1]
        BY <1>3, MatchesTyped, SMTT(30)
      <3>1. ms[n].x < X /\ ms[n].y < Y /\ x[ms[n].x + 1] = y[ms[n].y + 1]
        BY <1>3, <3>0
      <3>2. ASSUME ms[n].x = p PROVE FALSE
        <4>1. ms[n].y = q
          BY <1>6, <1>7, <1>15, <3>2
        <4> QED BY <1>3, <1>6, <2>5, <3>1, <3>2, <4>1 DEF Stuck
      <3> QED BY <1>6, <1>7, <1>15, <3>2
    <2>7. \A i \in 2 .. r + 1 : i <= n => Anchor(ms, i) \in H
      <3>1. \A i \in 2 .. r + 1 : i <= n => i <= n - 1 \/ i = n
        BY <1>4
      <3> QED BY <1>14, <2>6, <3>1
    <2>8. n \in 1 .. n
      BY <1>4
    <2>9. Going(x, y, ms, r, n, H, p, q, S)
      BY <1>4, <1>11, <2>5, <2>7, <2>8 DEF Going
    <2>10. GoingRight(A, x, y, ms, r, n, S, k, l, p, q, H)
      BY <1>12, <2>1, <2>3, <2>4, <2>9 DEF GoingRight
    <2> QED BY <2>10 DEF LoopRight
  <1> QED BY <1>16, <1>17

\* One iteration of the loop,
LEMMA MatchStep ==
  ASSUME NEW A, NEW x \in Seq(A), NEW y \in Seq(A), NEW ms, NEW r, MatchesRight(x, y, ms, r),
         NEW n \in 1 .. r + 2, NEW st, LoopRight(A, x, y, ms, r, n - 1, st)
  PROVE  LoopRight(A, x, y, ms, r, n, Match(x, y, st, ms[n]))
  <1>1. PICK S : S = Match(x, y, st, ms[n])
    OBVIOUS
  <1>2. CASE OverRight(A, x, y, ms, r, st)
    <2>1. S = st
      BY <1>1, <1>2 DEF Match, OverRight
    <2> QED BY <1>1, <1>2, <2>1 DEF LoopRight
  <1>3. CASE \E a, b, c, d, G : GoingRight(A, x, y, ms, r, n - 1, st, a, b, c, d, G)
    <2>1. PICK a, b, c, d, G : GoingRight(A, x, y, ms, r, n - 1, st, a, b, c, d, G)
      BY <1>3
    <2>2. CASE ms[n].x < c
      <3>1. st.done.x = c
        BY <2>1 DEF GoingRight, Emitted, Pair
      <3>2. S = st
        BY <1>1, <2>2, <3>1 DEF Match
      <3>3. GoingRight(A, x, y, ms, r, n, st, a, b, c, d, G)
        BY <2>1, <2>2, SkippedRight
      <3> QED BY <1>1, <3>2, <3>3 DEF LoopRight
    <2>3. CASE ~(ms[n].x < c)
      BY <1>1, <2>1, <2>3, ProcessedRight
    <2> QED BY <2>2, <2>3
  <1> QED BY <1>2, <1>3 DEF LoopRight

\* The loop over the matches.
LEMMA MatchesLoop ==
  ASSUME NEW x, NEW y, NEW ms, Len(ms) \in Nat
  PROVE  \E f : /\ f[0] = First
                /\ \A n \in 1 .. Len(ms) : f[n] = Match(x, y, f[n - 1], ms[n])
                /\ Matches(x, y, ms) = f[Len(ms)]
  <1> DEFINE len == Len(ms)
             Body(f, n) == IF n = 0 THEN First ELSE Match(x, y, f[n - 1], ms[n])
             upTo[n \in 0 .. len] == IF n = 0 THEN First ELSE Match(x, y, upTo[n - 1], ms[n])
  <1>1. Matches(x, y, ms) = upTo[len]
    BY DEF Matches
  <1>2. \E f : f = [n \in 0 .. len |-> Body(f, n)]
    <2> DEFINE Lacking == {n \in 0 .. len : ~ \E f : f = [k \in 0 .. n |-> Body(f, k)]}
    <2>1. Lacking = {}
      <3> SUFFICES ASSUME Lacking # {} PROVE FALSE
        OBVIOUS
      <3>0. Lacking \subseteq Nat
        OBVIOUS
      <3>1. PICK n \in Lacking : \A m \in Lacking : n <= m
        BY <3>0, Least
      <3> HIDE DEF Body
      <3>2. CASE n = 0
        <4> DEFINE f == [k \in 0 .. 0 |-> First]
        <4>1. \A k \in 0 .. 0 : Body(f, k) = f[k]
          BY DEF Body
        <4>2. f = [k \in 0 .. 0 |-> Body(f, k)]
          BY <4>1
        <4> HIDE DEF f
        <4> QED BY <3>2, <4>2
      <3>3. CASE n # 0
        <4>1. n - 1 \in 0 .. len /\ n \in 0 .. len /\ n - 1 \notin Lacking
          BY <3>1, <3>3
        <4>2. PICK f : f = [k \in 0 .. n - 1 |-> Body(f, k)]
          BY <4>1
        <4> DEFINE g == [k \in 0 .. n |-> IF k = n THEN Body(f, n) ELSE f[k]]
        <4>3. \A k \in 0 .. n - 1 : g[k] = f[k]
          BY <4>1
        <4>4. \A k \in 0 .. n : Body(g, k) = Body(f, k)
          BY <4>1, <4>3 DEF Body
        <4>5. \A k \in 0 .. n : g[k] = Body(g, k)
          <5> SUFFICES ASSUME NEW k \in 0 .. n PROVE g[k] = Body(g, k)
            OBVIOUS
          <5>1. CASE k = n
            BY <4>4, <5>1
          <5>2. CASE k # n
            <6>1. k \in 0 .. n - 1
              BY <4>1, <5>2
            <6>2. f[k] = Body(f, k)
              BY <4>2, <6>1
            <6> QED BY <4>3, <4>4, <6>1, <6>2
          <5> QED BY <5>1, <5>2
        <4>6. g = [k \in 0 .. n |-> Body(g, k)]
          BY <4>5
        <4> HIDE DEF g
        <4> QED BY <4>6
      <3> QED BY <3>2, <3>3
    <2> QED BY <2>1
  <1>3. upTo = [n \in 0 .. len |-> Body(upTo, n)]
    BY <1>2
  <1> HIDE DEF upTo
  <1>4. \A n \in 0 .. len : upTo[n] = Body(upTo, n)
    BY <1>3
  <1>5. upTo[0] = First
    <2>1. upTo[0] = Body(upTo, 0)
      BY <1>4
    <2> QED BY <2>1
  <1>6. ASSUME NEW n \in 1 .. len PROVE upTo[n] = Match(x, y, upTo[n - 1], ms[n])
    <2>1. n \in 0 .. len /\ n # 0
      OBVIOUS
    <2>2. upTo[n] = Body(upTo, n)
      BY <1>4, <2>1
    <2> QED BY <2>1, <2>2
  <1> QED BY <1>1, <1>5, <1>6

\* and all of them.
LEMMA MatchesAre ==
  ASSUME NEW A, NEW x \in Seq(A), NEW y \in Seq(A), NEW ms, NEW r, MatchesRight(x, y, ms, r)
  PROVE  OverRight(A, x, y, ms, r, Matches(x, y, ms))
  <1>1. r \in Nat /\ Len(ms) = r + 2 /\ Len(ms) \in Nat
    BY DEF MatchesRight
  <1>2. PICK st : /\ st[0] = First
                  /\ \A n \in 1 .. Len(ms) : st[n] = Match(x, y, st[n - 1], ms[n])
                  /\ Matches(x, y, ms) = st[Len(ms)]
    <2>1. Len(ms) \in Nat
      BY <1>1
    <2> QED BY ONLY <2>1, MatchesLoop
  <1>3. LoopRight(A, x, y, ms, r, 0, st[0])
    <2>1. PICK h : h = NewChunk(Pair(0, 0))
      OBVIOUS
    <2>2. st[0].done = Pair(0, 0) /\ st[0].over = FALSE /\ st[0].chunk = h /\ st[0].out = <<>>
      BY <1>2, <2>1 DEF First
    <2>3. st[0] = [done |-> st[0].done, chunk |-> st[0].chunk, out |-> st[0].out, over |-> st[0].over]
      BY <1>2, <2>1 DEF First
    <2>4. 0 \in Nat /\ 0 <= Len(x) /\ 0 <= Len(y)
      OBVIOUS
    <2>5. Holds(A, x, y, h, 0, 0, 0, 0) /\ Len(h.text) = 0 /\ \A s : ~Removes(h.text, s)
      BY <2>1, <2>4, NewChunkRight
    <2>6. PatchedTo(A, x, y, <<>>, 0, 0)
      <3>1. Gap(x, y, 0, 0, 0, 0)
        BY <2>4, GapNone
      <3>2. <<>> \in Seq(Chunks(A)) /\ Len(<<>>) = 0 /\ DOMAIN <<>> = {}
        OBVIOUS
      <3> QED BY <3>1, <3>2 DEF PatchedTo, To, Between, Pair
    <2>7. Emitted(A, x, y, st[0], 0, 0, 0, 0)
      <3>1. Len(h.text) <= C
        BY <2>5, DiffAssumption
      <3> QED BY <2>2, <2>3, <2>5, <2>6, <3>1 DEF Emitted
    <2>8. Aligned(x, y, {}, 0, 0) /\ Lost({}, 0) = {}
      BY DEF Aligned, Lost
    <2>9. \A s : ~AllRemoved(st[0], s)
      BY <2>2, <2>5 DEF AllRemoved, OutRemoves
    <2>10. Going(x, y, ms, r, 0, {}, 0, 0, st[0])
      <3>1. \A k \in 2 .. r + 1 : ~(k <= 0)
        BY <1>1
      <3> QED BY <2>2, <2>5, <3>1 DEF Going
    <2>11. GoingRight(A, x, y, ms, r, 0, st[0], 0, 0, 0, 0, {})
      BY <1>1, <2>7, <2>8, <2>9, <2>10 DEF GoingRight
    <2> QED BY <2>11 DEF LoopRight
  <1>4. \A n \in 0 .. Len(ms) : LoopRight(A, x, y, ms, r, n, st[n])
    <2> DEFINE Lacking == {n \in 0 .. Len(ms) : ~LoopRight(A, x, y, ms, r, n, st[n])}
    <2> SUFFICES ASSUME Lacking # {} PROVE FALSE
      OBVIOUS
    <2>1. Lacking \subseteq Nat
      BY <1>1
    <2>2. PICK n \in Lacking : \A m \in Lacking : n <= m
      BY <2>1, Least
    <2>3. n \in 1 .. Len(ms) /\ n - 1 \in 0 .. Len(ms) /\ n - 1 \notin Lacking
      BY <1>1, <1>3, <2>2
    <2>4. LoopRight(A, x, y, ms, r, n - 1, st[n - 1])
      BY <2>3
    <2>5. n \in 1 .. r + 2
      BY <1>1, <2>3
    <2>6. LoopRight(A, x, y, ms, r, n, Match(x, y, st[n - 1], ms[n]))
      BY <2>4, <2>5, MatchStep
    <2> QED BY <1>2, <2>2, <2>3, <2>6
  <1>5. LoopRight(A, x, y, ms, r, r + 2, st[Len(ms)])
    BY <1>1, <1>4
  <1>6. ~(r + 2 <= r + 1)
    BY <1>1
  <1>7. OverRight(A, x, y, ms, r, st[Len(ms)])
    BY <1>5, <1>6 DEF LoopRight, GoingRight
  <1> QED BY <1>2, <1>7

\* What is printed then is anchored.
LEMMA AnchoredRight ==
  ASSUME NEW A, NEW x \in Seq(A), NEW y \in Seq(A), NEW ms, NEW r, MatchesRight(x, y, ms, r),
         NEW st, OverRight(A, x, y, ms, r, st)
  PROVE  Anchored(x, y, st.out)
  <1>1. PICK X, Y, u, kept : /\ X = Len(x) /\ Y = Len(y) /\ u = Uniques(x, y)
                             /\ kept = {s \in u : ~OutRemoves(st.out, s)}
    OBVIOUS
  <1>2. X \in Nat /\ Y \in Nat /\ r \in Nat /\ DOMAIN x = 1 .. X /\ DOMAIN y = 1 .. Y
    BY <1>1 DEF MatchesRight
  <1>3. PICK G : /\ Aligned(x, y, G, X, Y)
                 /\ \A k \in 2 .. r + 1 : Anchor(ms, k) \in G
                 /\ \A s : OutRemoves(st.out, s) <=> \E i \in Lost(G, X) : x[i] = s
    BY <1>1 DEF OverRight
  <1>4. \A i, j : <<i, j>> \in G => i \in 1 .. X /\ j \in 1 .. Y /\ x[i] = y[j]
    BY <1>3 DEF Aligned
  <1>5. \A i, j, k, l : <<i, j>> \in G /\ <<k, l>> \in G => (i < k <=> j < l)
    BY <1>3 DEF Aligned
  <1>6. ASSUME NEW i \in 1 .. X, NEW j \in 1 .. Y, x[i] \in kept, x[i] = y[j] PROVE <<i, j>> \in G
    <2>1. x[i] \in u /\ ~OutRemoves(st.out, x[i])
      BY <1>1, <1>6
    <2>2. i \notin Lost(G, X)
      BY <1>3, <2>1
    <2>3. PICK l : <<i, l>> \in G
      BY <2>2 DEF Lost
    <2>4. l \in 1 .. Y /\ x[i] = y[l]
      BY <1>4, <2>3
    <2>5. l = j
      <3>1. \A a, b \in DOMAIN y : y[a] = x[i] /\ y[b] = x[i] => a = b
        BY <1>1, <2>1, UniqueIs
      <3> QED BY ONLY <1>2, <1>6, <2>4, <3>1
    <2> QED BY <2>3, <2>5
  <1>7. InOrder(x, y, kept)
    BY <1>2, <1>5, <1>6 DEF InOrder
  <1>8. \A set \in SUBSET u : InOrder(x, y, set) => IsFiniteSet(set) /\ Cardinality(set) <= r
    BY <1>1 DEF MatchesRight
  <1>9. IsFiniteSet(kept)
    BY <1>1, <1>7, <1>8
  <1>10. ASSUME NEW k \in 2 .. r + 1 PROVE x[ms[k].x + 1] \in kept
    <2>1. PICK i : i = ms[k].x + 1
      OBVIOUS
    <2>2. x[i] \in u
      BY <1>1, <2>1, MatchesTyped
    <2>3. \E j : <<i, j>> \in G
      BY <1>3, <2>1 DEF Anchor
    <2>4. i \in 1 .. X
      BY <1>4, <2>3
    <2>5. ASSUME NEW n \in Lost(G, X), x[n] = x[i] PROVE FALSE
      <3>1. n \in 1 .. X /\ \A j : <<n, j>> \notin G
        BY DEF Lost
      <3>2. n = i
        <4>1. \A a, b \in DOMAIN x : x[a] = x[i] /\ x[b] = x[i] => a = b
          BY <1>1, <2>2, UniqueIs
        <4> QED BY ONLY <1>2, <2>4, <2>5, <3>1, <4>1
      <3> QED BY <2>3, <3>1, <3>2
    <2> QED BY <1>1, <1>3, <2>1, <2>2, <2>5
  <1>11. r <= Cardinality(kept)
    <2>1. PICK f : f = [k \in 2 .. r + 1 |-> x[ms[k].x + 1]]
      OBVIOUS
    <2>2. f \in [2 .. r + 1 -> kept]
      BY <1>10, <2>1
    <2>3. ASSUME NEW k \in 2 .. r + 1, NEW l \in 2 .. r + 1, f[k] = f[l] PROVE k = l
      <3>1. PICK g, h : g = ms[k].x + 1 /\ h = ms[l].x + 1
        OBVIOUS
      <3>2. x[g] = x[h] /\ x[g] \in u
        BY <1>1, <1>10, <2>1, <2>3, <3>1
      <3>3. (\E j : <<g, j>> \in G) /\ (\E j : <<h, j>> \in G)
        BY <1>3, <3>1 DEF Anchor
      <3>4. g \in 1 .. X /\ h \in 1 .. X
        BY <1>4, <3>3
      <3>5. g = h
        <4>1. \A a, b \in DOMAIN x : x[a] = x[g] /\ x[b] = x[g] => a = b
          BY <1>1, <3>2, UniqueIs
        <4> QED BY ONLY <1>2, <3>2, <3>4, <4>1
      <3>6. ms[k].x \in 0 .. X /\ ms[l].x \in 0 .. X
        <4>1. k \in 1 .. r + 2 /\ l \in 1 .. r + 2
          BY <1>2
        <4> QED BY <1>1, <4>1, MatchesTyped
      <3>7. ms[k].x = ms[l].x
        BY <1>2, <3>1, <3>5, <3>6, SMTT(30)
      <3>8. (k < l => ms[k].x < ms[l].x) /\ (l < k => ms[l].x < ms[k].x)
        BY DEF MatchesRight
      <3> QED BY <1>2, <3>6, <3>7, <3>8
    <2>4. f \in Injection(2 .. r + 1, kept)
      BY <2>2, <2>3 DEF Injection, IsInjective
    <2>5. Cardinality(2 .. r + 1) <= Cardinality(kept)
      BY <1>9, <2>4, FS_Injection
    <2>6. PICK b : b = r + 1
      OBVIOUS
    <2>7. Cardinality(2 .. b) <= Cardinality(kept)
      BY <2>5, <2>6
    <2>8. b \in Int
      BY <1>2, <2>6
    <2>9. Cardinality(2 .. b) = IF 2 > b THEN 0 ELSE b - 2 + 1
      <3>1. \A c, d \in Int : Cardinality(c .. d) = IF c > d THEN 0 ELSE d - c + 1
        BY FS_Interval
      <3> QED BY ONLY <2>8, <3>1
    <2>10. Cardinality(2 .. b) = r
      BY <1>2, <2>6, <2>9
    <2> QED BY <2>7, <2>10
  <1>12. Cardinality(kept) \in Nat
    BY <1>9, FS_CardinalityType
  <1>13. ASSUME NEW set \in SUBSET u, InOrder(x, y, set) PROVE Cardinality(set) <= Cardinality(kept)
    <2>1. IsFiniteSet(set) /\ Cardinality(set) <= r
      BY <1>8, <1>13
    <2>2. Cardinality(set) \in Nat
      BY <2>1, FS_CardinalityType
    <2> QED BY <1>2, <1>11, <1>12, <2>1, <2>2
  <1> QED BY <1>1, <1>7, <1>13 DEF Anchored

\* The lines of a text are a sequence.
LEMMA LinesIs ==
  ASSUME NEW B, NEW t \in Bytes(B)
  PROVE  Lines(t) \in Seq(B \X BOOLEAN)
  <1>1. t.lines \in Seq(B) /\ t.newline \in BOOLEAN
    BY DEF Bytes
  <1>2. PICK len : len = Len(t.lines)
    OBVIOUS
  <1>3. len \in Nat /\ DOMAIN t.lines = 1 .. len /\ \A n \in 1 .. len : t.lines[n] \in B
    BY <1>1, <1>2
  <1>4. \A n \in 1 .. len : <<t.lines[n], n < len \/ t.newline>> \in B \X BOOLEAN
    BY <1>1, <1>3
  <1>5. Lines(t) = [n \in 1 .. len |-> <<t.lines[n], n < len \/ t.newline>>]
    BY <1>2, <1>3 DEF Lines
  <1> QED BY <1>3, <1>4, <1>5

\* Texts with the same lines are the same.
LEMMA LinesDiffer ==
  ASSUME NEW B, NEW s \in Bytes(B), NEW t \in Bytes(B), Lines(s) = Lines(t)
  PROVE  s = t
  <1>1. /\ s.lines \in Seq(B) /\ s.newline \in BOOLEAN /\ (s.lines = <<>> => s.newline)
        /\ t.lines \in Seq(B) /\ t.newline \in BOOLEAN /\ (t.lines = <<>> => t.newline)
        /\ s = [lines |-> s.lines, newline |-> s.newline]
        /\ t = [lines |-> t.lines, newline |-> t.newline]
    BY DEF Bytes
  <1>2. PICK m, n : m = Len(s.lines) /\ n = Len(t.lines)
    OBVIOUS
  <1>3. m \in Nat /\ n \in Nat /\ DOMAIN s.lines = 1 .. m /\ DOMAIN t.lines = 1 .. n
    BY <1>1, <1>2
  <1>4. 1 .. m = 1 .. n
    BY <1>3 DEF Lines
  <1>5. m = n
    BY <1>3, <1>4
  <1>6. \A i \in 1 .. m : <<s.lines[i], i < m \/ s.newline>> = <<t.lines[i], i < m \/ t.newline>>
    <2>1. \A i \in 1 .. m : Lines(s)[i] = <<s.lines[i], i < m \/ s.newline>>
      BY <1>2, <1>3 DEF Lines
    <2>2. \A i \in 1 .. m : Lines(t)[i] = <<t.lines[i], i < m \/ t.newline>>
      BY <1>2, <1>3, <1>5 DEF Lines
    <2> QED BY <2>1, <2>2
  <1>7. s.lines = t.lines
    <2>1. \A i \in 1 .. m : s.lines[i] = t.lines[i]
      BY <1>6
    <2> QED BY <1>1, <1>2, <1>3, <1>5, <2>1, SeqEqual
  <1>8. s.newline = t.newline
    <2>1. CASE m = 0
      <3>a. s.lines \in Seq(B) /\ Len(s.lines) = 0 /\ t.lines \in Seq(B) /\ Len(t.lines) = 0
        BY <1>1, <1>2, <1>5, <2>1
      <3>1. s.lines = <<>> /\ t.lines = <<>>
        BY ONLY <3>a
      <3>2. s.newline /\ t.newline
        BY <1>1, <3>1
      <3>3. s.newline = TRUE /\ t.newline = TRUE
        BY <1>1, <3>2
      <3> QED BY <3>3
    <2>2. CASE m # 0
      <3>1. m \in 1 .. m /\ ~(m < m)
        BY <1>3, <2>2
      <3>2. <<s.lines[m], m < m \/ s.newline>> = <<t.lines[m], m < m \/ t.newline>>
        BY <1>6, <3>1
      <3>3. (m < m \/ s.newline) = (m < m \/ t.newline)
        BY <3>2
      <3> QED BY <1>1, <3>1, <3>3
    <2> QED BY <2>1, <2>2
  <1> QED BY <1>1, <1>7, <1>8

\* If nothing is printed there is nothing to print.
LEMMA NothingPrinted ==
  ASSUME NEW A, NEW x \in Seq(A), NEW y \in Seq(A), PatchedTo(A, x, y, <<>>, Len(x), Len(y))
  PROVE  x = y
  <1>1. Gap(x, y, 0, 0, Len(x), Len(y))
    BY DEF PatchedTo, Between, To, Pair
  <1>2. PICK n : n = Len(x)
    OBVIOUS
  <1>3. n \in Nat /\ Len(y) \in Nat
    BY <1>2
  <1>4. n - 0 = Len(y) - 0 /\ \A i \in 1 .. n - 0 : x[0 + i] = y[0 + i]
    BY <1>1, <1>2 DEF Gap, Same
  <1>5. Len(y) = n /\ \A i \in 1 .. n : x[i] = y[i]
    BY <1>3, <1>4
  <1> QED BY <1>2, <1>3, <1>5, SeqEqual

\* Equal texts.
LEMMA EqualRight ==
  ASSUME NEW A, NEW x \in Seq(A)
  PROVE  Patches(x, x, <<>>) /\ Anchored(x, x, <<>>)
  <1>1. PICK X, u : X = Len(x) /\ u = Uniques(x, x)
    OBVIOUS
  <1>2. X \in Nat /\ DOMAIN x = 1 .. X
    BY <1>1
  <1>3. Gap(x, x, 0, 0, X, X)
    BY <1>1, <1>2 DEF Gap, Same
  <1>4. PatchedTo(A, x, x, <<>>, X, X)
    BY <1>3 DEF PatchedTo, To, Between, Pair
  <1>5. Patches(x, x, <<>>)
    BY <1>1, <1>4, PatchesRight
  <1>6. {s \in u : ~OutRemoves(<<>>, s)} = u
    BY DEF OutRemoves
  <1>7. InOrder(x, x, u)
    <2> SUFFICES ASSUME NEW i \in DOMAIN x, NEW k \in DOMAIN x, NEW j \in DOMAIN x, NEW l \in DOMAIN x,
                        x[i] \in u, x[k] \in u, x[i] = x[j], x[k] = x[l], i < k
                 PROVE  j < l
      BY DEF InOrder
    <2>1. \A a, b \in DOMAIN x : x[a] = x[i] /\ x[b] = x[i] => a = b
      BY <1>1, UniqueIs
    <2>2. \A a, b \in DOMAIN x : x[a] = x[k] /\ x[b] = x[k] => a = b
      BY <1>1, UniqueIs
    <2>3. i = j /\ k = l
      BY <2>1, <2>2
    <2> QED BY <2>3
  <1>8. IsFiniteSet(u)
    <2>1. IsFiniteSet(1 .. X)
      <3>1. 1 \in Int /\ X \in Int
        BY <1>2
      <3>2. \A a, b \in Int : IsFiniteSet(a .. b)
        BY FS_Interval
      <3> QED BY <3>1, <3>2
    <2>2. \A s \in u : \E i \in 1 .. X : x[i] = s
      BY <1>1, <1>2 DEF Uniques
    <2>3. PICK f : f = [s \in u |-> CHOOSE i \in 1 .. X : x[i] = s]
      OBVIOUS
    <2>4. \A s \in u : f[s] \in 1 .. X /\ x[f[s]] = s
      BY <2>2, <2>3
    <2>5. f \in [u -> 1 .. X]
      BY <2>3, <2>4
    <2>6. f \in Injection(u, 1 .. X)
      BY <2>4, <2>5 DEF Injection, IsInjective
    <2> QED BY <2>1, <2>6, FS_Injection
  <1>9. \A set \in SUBSET u : Cardinality(set) <= Cardinality(u)
    BY <1>8, FS_Subset
  <1>10. Anchored(x, x, <<>>)
    BY <1>1, <1>6, <1>7, <1>9 DEF Anchored
  <1> QED BY <1>5, <1>10

\* Diff is right about any two texts.
LEMMA DiffIs ==
  ASSUME NEW B, NEW old \in Bytes(B), NEW new \in Bytes(B), NEW out, out = Diff(old, new)
  PROVE  /\ out = <<>> <=> old = new
         /\ Patches(Lines(old), Lines(new), out)
         /\ Anchored(Lines(old), Lines(new), out)
  <1>1. PICK A, x, y : A = B \X BOOLEAN /\ x = Lines(old) /\ y = Lines(new)
    OBVIOUS
  <1>2. x \in Seq(A) /\ y \in Seq(A)
    BY <1>1, LinesIs
  <1>3. CASE old = new
    <2>1. out = <<>> /\ x = y
      BY <1>1, <1>3 DEF Diff
    <2>2. Patches(x, x, <<>>) /\ Anchored(x, x, <<>>)
      BY <1>2, EqualRight
    <2> QED BY <1>1, <1>3, <2>1, <2>2
  <1>4. CASE old # new
    <2>1. PICK ms, st : ms = Tgs(x, y) /\ st = Matches(x, y, ms)
      OBVIOUS
    <2>2. out = st.out
      BY <1>1, <1>4, <2>1 DEF Diff
    <2>3. PICK r : MatchesRight(x, y, ms, r)
      BY <1>2, <2>1, TgsRight
    <2>4. OverRight(A, x, y, ms, r, st)
      BY <1>2, <2>1, <2>3, MatchesAre
    <2>5. PatchedTo(A, x, y, out, Len(x), Len(y))
      BY <2>2, <2>4 DEF OverRight
    <2>6. Patches(x, y, out)
      BY <1>2, <2>5, PatchesRight
    <2>7. Anchored(x, y, out)
      BY <1>2, <2>2, <2>3, <2>4, AnchoredRight
    <2>8. x # y
      BY <1>1, <1>4, LinesDiffer
    <2>9. out # <<>>
      BY <1>2, <2>5, <2>8, NothingPrinted
    <2> QED BY <1>1, <1>4, <2>6, <2>7, <2>9
  <1> QED BY <1>3, <1>4

\*---------------------------------------------------------------- imports
\* The three strings that are no tags.
LEMMA TagsDistinct ==
  AllTags # NoTag /\ AllTags # "ignore" /\ AllTags # "linux" /\ AllTags # "android"
  BY Zenon DEF AllTags, NoTag

\* A tag that matches under some tags does so under "*".
LEMMA TagUnderAll ==
  ASSUME NEW tags \in SUBSET TagNames, NEW tag, tag # NoTag, NEW want \in BOOLEAN,
         MatchTag(tag, tags, want)
  PROVE  MatchTag(tag, {AllTags}, want)
  <1>1. AllTags \notin tags /\ "ignore" \notin tags
    BY TagsAssumption
  <1>2. CASE tag = "ignore"
    BY <1>1, <1>2, TagsDistinct DEF MatchTag
  <1>3. CASE tag # "ignore"
    BY <1>1, <1>3, TagsDistinct DEF MatchTag
  <1> QED BY <1>2, <1>3

\* So do terms,
LEMMA TermUnderAll ==
  ASSUME NEW tags \in SUBSET TagNames, NEW term, MatchTerm(term, tags)
  PROVE  MatchTerm(term, {AllTags})
  <1>1. (term.bangs = 0) \in BOOLEAN
    OBVIOUS
  <1>2. MatchTag(term.tag, {AllTags}, term.bangs = 0)
    BY <1>1, TagUnderAll DEF MatchTerm
  <1> QED BY <1>2 DEF MatchTerm

\* heads,
LEMMA HeadUnderAll ==
  ASSUME NEW tags \in SUBSET TagNames, NEW head, ShouldBuild(head, tags)
  PROVE  ShouldBuild(head, {AllTags})
  <1>1. ASSUME NEW option, MatchTags(option, tags) PROVE MatchTags(option, {AllTags})
    BY <1>1, TermUnderAll DEF MatchTags
  <1> QED BY <1>1 DEF ShouldBuild

\* and files.
LEMMA FileUnderAll ==
  ASSUME NEW tags \in SUBSET TagNames, NEW file
  PROVE  /\ Listed(file, tags) => Listed(file, {AllTags})
         /\ Counts(file, tags, FALSE) => Counts(file, {AllTags}, FALSE)
  <1>1. MatchFile(file.name, {AllTags})
    BY DEF MatchFile
  <1>2. {"cgo", AllTags} \cap {AllTags} # {}
    OBVIOUS
  <1>3. ShouldBuild(file.head, tags) => ShouldBuild(file.head, {AllTags})
    BY HeadUnderAll
  <1>4. Listed(file, tags) => Listed(file, {AllTags})
    BY <1>1 DEF Listed
  <1>5. Counts(file, tags, FALSE) => Counts(file, {AllTags}, FALSE)
    BY <1>2, <1>3 DEF Counts
  <1> QED BY <1>4, <1>5

\* What more files import.
LEMMA OfMore ==
  ASSUME NEW files, NEW more, files \subseteq more, NEW test
  PROVE  Of(files, test) \subseteq Of(more, test)
  BY DEF Of

\* All that is found under some tags is found under "*".
LEMMA CoversAll ==
  ASSUME NEW dir, NEW tags \in SUBSET TagNames
  PROVE  Covers(ScanDir(dir, {AllTags}), ScanDir(dir, tags))
  <1>1. PICK some, any : some = ScanDir(dir, tags) /\ any = ScanDir(dir, {AllTags})
    OBVIOUS
  <1>2. PICK S, T : /\ S = {file \in dir : Listed(file, tags)}
                    /\ T = {file \in dir : Listed(file, {AllTags})}
    OBVIOUS
  <1>3. S \subseteq T
    BY <1>2, FileUnderAll
  <1>4. PICK K, L : /\ K = {file \in S : Counts(file, tags, FALSE)}
                    /\ L = {file \in T : Counts(file, {AllTags}, FALSE)}
    OBVIOUS
  <1>5. K \subseteq L
    BY <1>3, <1>4, FileUnderAll
  <1>6. some = IF \E file \in S : ReadImports(file.tokens).err
               THEN [err |-> "reading", imports |-> {}, testImports |-> {}]
               ELSE IF K = {} THEN [err |-> "ErrNoGo", imports |-> {}, testImports |-> {}]
               ELSE [err |-> "none", imports |-> Of(K, FALSE), testImports |-> Of(K, TRUE)]
    BY <1>1, <1>2, <1>4 DEF ScanDir, ScanFiles
  <1>7. any = IF \E file \in T : ReadImports(file.tokens).err
              THEN [err |-> "reading", imports |-> {}, testImports |-> {}]
              ELSE IF L = {} THEN [err |-> "ErrNoGo", imports |-> {}, testImports |-> {}]
              ELSE [err |-> "none", imports |-> Of(L, FALSE), testImports |-> Of(L, TRUE)]
    BY <1>1, <1>2, <1>4 DEF ScanDir, ScanFiles
  <1>8. Of(K, FALSE) \subseteq Of(L, FALSE) /\ Of(K, TRUE) \subseteq Of(L, TRUE)
    BY <1>5, OfMore
  <1>9. CASE \E file \in T : ReadImports(file.tokens).err
    <2>1. any.err = "reading"
      BY <1>7, <1>9
    <2> QED BY <1>1, <2>1 DEF Covers
  <1>10. CASE ~\E file \in T : ReadImports(file.tokens).err
    <2>1. ~\E file \in S : ReadImports(file.tokens).err
      BY <1>3, <1>10
    <2>2. CASE L = {}
      <3>1. K = {}
        BY <1>5, <2>2
      <3>2. some.err = "ErrNoGo" /\ some.imports = {} /\ some.testImports = {}
        BY <1>6, <2>1, <3>1
      <3> QED BY <1>1, <3>2 DEF Covers
    <2>3. CASE L # {}
      <3>1. any = [err |-> "none", imports |-> Of(L, FALSE), testImports |-> Of(L, TRUE)]
        BY <1>7, <1>10, <2>3
      <3>2. CASE K = {}
        <4>1. some.err = "ErrNoGo" /\ some.imports = {} /\ some.testImports = {}
          BY <1>6, <2>1, <3>2
        <4> QED BY <1>1, <3>1, <4>1 DEF Covers
      <3>3. CASE K # {}
        <4>1. some = [err |-> "none", imports |-> Of(K, FALSE), testImports |-> Of(K, TRUE)]
          BY <1>6, <2>1, <3>3
        <4>2. /\ some.err = "none" /\ some.imports = Of(K, FALSE) /\ some.testImports = Of(K, TRUE)
              /\ any.err = "none" /\ any.imports = Of(L, FALSE) /\ any.testImports = Of(L, TRUE)
          BY <3>1, <4>1
        <4>3. some.err # "reading" /\ any.err # "ErrNoGo"
          BY <4>2
        <4> QED BY <1>1, <1>8, <4>2, <4>3 DEF Covers
      <3> QED BY <3>2, <3>3
    <2> QED BY <2>2, <2>3
  <1> QED BY <1>9, <1>10

\* The lines of a head that count are lines of it.
LEMMA HeadEndIs ==
  ASSUME NEW head \in Heads
  PROVE  HeadEnd(head) \in 0 .. Len(head)
  <1>1. PICK leading : leading = {n \in DOMAIN head : \A k \in 1 .. n : head[k].kind # "code"}
    OBVIOUS
  <1>2. PICK T : T = {n \in leading : head[n].kind = "blank"} \cup {0}
    OBVIOUS
  <1>3. Len(head) \in Nat /\ DOMAIN head = 1 .. Len(head)
    BY DEF Heads
  <1>4. leading \subseteq 1 .. Len(head)
    BY <1>1, <1>3
  <1>5. T \subseteq 0 .. Len(head) /\ T # {}
    <2>1. \A t \in T : t \in 1 .. Len(head) \/ t = 0
      BY <1>2, <1>4
    <2>2. \A t \in T : t \in 0 .. Len(head)
      BY <1>3, <2>1
    <2>3. 0 \in T
      BY <1>2
    <2> QED BY <2>2, <2>3
  <1>6. Sets!Max(T) \in T
    BY <1>3, <1>5, MaxIs
  <1>7. HeadEnd(head) = Ext!Max(T)
    BY <1>1, <1>2 DEF HeadEnd
  <1>8. Ext!Max(T) = Sets!Max(T)
    BY DEF Ext!Max, Sets!Max
  <1> QED BY <1>5, <1>6, <1>7, <1>8

\* A term of a head that counts is one.
LEMMA TermsAre ==
  ASSUME NEW head \in Heads, NEW n \in 1 .. HeadEnd(head), head[n].kind = "build",
         NEW i \in DOMAIN head[n].options, NEW k \in DOMAIN head[n].options[i]
  PROVE  n \in DOMAIN head /\ head[n].options[i][k] \in Terms
  <1>1. Len(head) \in Nat /\ DOMAIN head = 1 .. Len(head)
    BY DEF Heads
  <1>2. n \in DOMAIN head
    BY <1>1, HeadEndIs
  <1>3. head[n] \in [kind : {"build"}, options : Seq(Seq(Terms))] \cup {Blank, Comment, Code}
    BY <1>2 DEF Heads
  <1>4. Blank.kind = "blank" /\ Comment.kind = "comment" /\ Code.kind = "code"
    BY DEF Blank, Comment, Code
  <1>5. head[n] \in [kind : {"build"}, options : Seq(Seq(Terms))]
    BY <1>3, <1>4
  <1>6. PICK options : options = head[n].options
    OBVIOUS
  <1>7. options \in Seq(Seq(Terms))
    BY <1>5, <1>6
  <1>8. options[i] \in Seq(Terms)
    BY <1>6, <1>7
  <1>9. options[i][k] \in Terms
    BY <1>6, <1>8
  <1> QED BY <1>2, <1>6, <1>9

\* The tags a file asks for: all that its name or cgo ask for, and all that its
\* head asks for without an exclamation mark.
Plainly(head, tag) ==
  \E n \in DOMAIN head : \E i \in DOMAIN head[n].options :
    \E k \in DOMAIN head[n].options[i] :
      head[n].options[i][k].tag = tag /\ head[n].options[i][k].bangs = 0
Wanted(file) == {tag \in TagNames : tag \in Others(file) \/ Plainly(file.head, tag)}

\* A tag that a term of the head has, or has without an exclamation mark.
LEMMA PlainlyAsked ==
  ASSUME NEW head, NEW n \in DOMAIN head, NEW i \in DOMAIN head[n].options,
         NEW k \in DOMAIN head[n].options[i]
  PROVE  head[n].options[i][k].tag \in Asked(head)
  <1>1. PICK o : o = head[n].options
    OBVIOUS
  <1>2. head[n].options[i][k].tag \in {o[i][l].tag : l \in DOMAIN o[i]}
    BY <1>1
  <1>3. head[n].options[i][k].tag \in UNION {{o[j][l].tag : l \in DOMAIN o[j]} : j \in DOMAIN o}
    BY <1>1, <1>2
  <1> QED BY <1>1, <1>3 DEF Asked

\* Under these tags each term matches that matches under "*".
LEMMA TermWanted ==
  ASSUME NEW file, Independent(file), NEW n \in DOMAIN file.head,
         NEW i \in DOMAIN file.head[n].options, NEW k \in DOMAIN file.head[n].options[i],
         NEW term \in Terms, term = file.head[n].options[i][k], MatchTerm(term, {AllTags})
  PROVE  MatchTerm(term, Wanted(file))
  <1>1. PICK tag, W, head : tag = term.tag /\ W = Wanted(file) /\ head = file.head
    OBVIOUS
  <1>2. /\ term.bangs <= 1 /\ tag # NoTag /\ tag \notin Malformed
        /\ tag # "ignore" \/ term.bangs # 0
    <2>1. term.bangs <= 1 /\ tag # NoTag /\ MatchTag(tag, {AllTags}, term.bangs = 0)
      BY <1>1 DEF MatchTerm
    <2>2. "android" \notin {AllTags} /\ "ignore" \notin {AllTags}
      BY TagsDistinct
    <2> QED BY <2>1, <2>2 DEF MatchTag
  <1>3. tag \in TagNames \cup Malformed \cup {NoTag, "ignore"} /\ term.bangs \in Nat
    BY <1>1 DEF Terms
  <1>4. tag \in Asked(head)
    BY <1>1, PlainlyAsked
  <1>5. CASE term.bangs = 0
    <2>1. tag \in TagNames
      BY <1>2, <1>3, <1>5
    <2>2. Plainly(head, tag)
      BY <1>1, <1>5 DEF Plainly
    <2>3. tag \in W
      BY <1>1, <2>1, <2>2 DEF Wanted
    <2>4. MatchTag(tag, W, TRUE)
      BY <1>2, <2>3 DEF MatchTag
    <2> QED BY <1>1, <1>2, <1>5, <2>4 DEF MatchTerm
  <1>6. CASE term.bangs = 1
    <2>1. tag \notin Others(file)
      BY <1>1, <1>4 DEF Independent
    <2>2. ~Plainly(head, tag)
      <3> SUFFICES ASSUME NEW m \in DOMAIN head, NEW j \in DOMAIN head[m].options,
                          NEW l \in DOMAIN head[m].options[j],
                          head[m].options[j][l].tag = tag, head[m].options[j][l].bangs = 0
                   PROVE FALSE
        BY DEF Plainly
      <3>1. AskedOnce(head)
        BY <1>1 DEF Independent
      <3>2. /\ n \in DOMAIN head /\ i \in DOMAIN head[n].options
            /\ k \in DOMAIN head[n].options[i] /\ head[n].options[i][k].tag = tag
        BY <1>1
      <3>3. n = m /\ i = j /\ k = l
        BY <3>1, <3>2, SMTT(30) DEF AskedOnce
      <3> QED BY <1>1, <1>6, <3>3
    <2>3. tag \notin W
      BY <1>1, <2>1, <2>2 DEF Wanted
    <2>4. ~(tag = "linux" /\ "android" \in W)
      <3> SUFFICES ASSUME tag = "linux", "android" \in W PROVE FALSE
        OBVIOUS
      <3>1. "android" \in Others(file) \/ Plainly(head, "android")
        BY <1>1 DEF Wanted
      <3>2. Plainly(head, "android") => "android" \in Asked(head)
        BY PlainlyAsked DEF Plainly
      <3> QED BY <1>1, <1>4, <3>1, <3>2 DEF Independent
    <2>5. MatchTag(tag, W, FALSE)
      BY <1>2, <2>3, <2>4 DEF MatchTag
    <2>6. MatchTag(tag, W, term.bangs = 0)
      <3>1. (term.bangs = 0) = FALSE
        BY <1>6
      <3> QED BY <2>5, <3>1
    <2> QED BY <1>1, <1>2, <2>6 DEF MatchTerm
  <1>7. term.bangs = 0 \/ term.bangs = 1
    <2>1. PICK bangs : bangs = term.bangs
      OBVIOUS
    <2>2. bangs \in Nat /\ bangs <= 1
      BY <1>2, <1>3, <2>1
    <2>3. bangs = 0 \/ bangs = 1
      BY <2>2
    <2> QED BY <2>1, <2>3
  <1> QED BY <1>5, <1>6, <1>7

\* So does the head,
LEMMA HeadWanted ==
  ASSUME NEW file \in GoFiles, Independent(file), ShouldBuild(file.head, {AllTags})
  PROVE  ShouldBuild(file.head, Wanted(file))
  <1>1. PICK head, W : head = file.head /\ W = Wanted(file)
    OBVIOUS
  <1>2. head \in Heads
    BY <1>1 DEF GoFiles
  <1>3. SUFFICES ASSUME NEW n \in 1 .. HeadEnd(head), head[n].kind = "build"
                 PROVE  \E i \in DOMAIN head[n].options : MatchTags(head[n].options[i], W)
    BY <1>1 DEF ShouldBuild
  <1>4. PICK i \in DOMAIN head[n].options : MatchTags(head[n].options[i], {AllTags})
    BY <1>1, <1>3 DEF ShouldBuild
  <1>5. ASSUME NEW k \in DOMAIN head[n].options[i] PROVE MatchTerm(head[n].options[i][k], W)
    <2>1. MatchTerm(head[n].options[i][k], {AllTags})
      BY <1>4 DEF MatchTags
    <2>2. n \in DOMAIN head /\ head[n].options[i][k] \in Terms
      BY <1>2, <1>3, TermsAre
    <2> QED BY <1>1, <2>1, <2>2, TermWanted
  <1>6. MatchTags(head[n].options[i], W)
    BY <1>5 DEF MatchTags
  <1> QED BY <1>6

\* and so does the name.
LEMMA NameWanted ==
  ASSUME NEW file \in GoFiles
  PROVE  MatchFile(file.name, Wanted(file))
  <1>1. PICK l, n, W : l = Suffixes(file.name) /\ n = Len(l) /\ W = Wanted(file)
    OBVIOUS
  <1>2. l \in Seq(Parts)
    <2>1. PICK name : name = file.name
      OBVIOUS
    <2>2. name \in Seq(Parts) /\ Len(name) \in Nat
      BY <2>1 DEF GoFiles
    <2>3. PICK parts : parts = SubSeq(name, 2, Len(name))
      OBVIOUS
    <2>4. \A k \in 2 .. Len(name) : name[k] \in Parts
      BY <2>2
    <2>5. parts \in Seq(Parts) /\ Len(parts) \in Nat
      BY <2>2, <2>3, <2>4, SubSeqProperties
    <2>6. \A k \in 1 .. Len(parts) - 1 : parts[k] \in Parts
      BY <2>5
    <2>7. SubSeq(parts, 1, Len(parts) - 1) \in Seq(Parts)
      BY <2>5, <2>6, SubSeqProperties
    <2> QED BY <1>1, <2>1, <2>3, <2>5, <2>7 DEF Suffixes
  <1>3. n \in Nat /\ DOMAIN l = 1 .. n
    BY <1>1, <1>2
  <1>4. \A k \in 1 .. n : l[k] \in KnownOS \cup KnownArch => l[k] \in W
    BY <1>1, <1>3, TagsAssumption DEF Wanted, Others
  <1>5. n >= 1 => n \in 1 .. n
    BY <1>3
  <1>6. n >= 2 => n - 1 \in 1 .. n
    BY <1>3
  <1>7. IF n >= 2 /\ l[n - 1] \in KnownOS /\ l[n] \in KnownArch
        THEN {l[n - 1], l[n]} \subseteq W
        ELSE n >= 1 /\ l[n] \in KnownOS \cup KnownArch => l[n] \in W
    BY <1>3, <1>4, <1>5, <1>6
  <1> QED BY <1>1, <1>7 DEF MatchFile

\* What is found under "*" in a file whose conditions are independent is found
\* under the tags that it asks for.
LEMMA SharpAll ==
  ASSUME NEW dir \in SUBSET GoFiles
  PROVE  Sharp(dir, ScanDir(dir, {AllTags}))
  <1>1. SUFFICES ASSUME NEW file \in dir, dir = {file}, Independent(file),
                        ScanDir(dir, {AllTags}).err = "none"
                 PROVE  \E tags \in SUBSET TagNames : ScanDir(dir, tags) = ScanDir(dir, {AllTags})
    BY DEF Sharp
  <1>2. PICK W, A : W = Wanted(file) /\ A = {AllTags}
    OBVIOUS
  <1>3. W \in SUBSET TagNames
    BY <1>2 DEF Wanted
  <1>4. PICK T, L : T = {f \in dir : Listed(f, A)} /\ L = {f \in T : Counts(f, A, FALSE)}
    OBVIOUS
  <1>5. PICK S, K : S = {f \in dir : Listed(f, W)} /\ K = {f \in S : Counts(f, W, FALSE)}
    OBVIOUS
  <1>6. ScanDir(dir, A) =
          IF \E f \in T : ReadImports(f.tokens).err
          THEN [err |-> "reading", imports |-> {}, testImports |-> {}]
          ELSE IF L = {} THEN [err |-> "ErrNoGo", imports |-> {}, testImports |-> {}]
          ELSE [err |-> "none", imports |-> Of(L, FALSE), testImports |-> Of(L, TRUE)]
    BY <1>4 DEF ScanDir, ScanFiles
  <1>7. ScanDir(dir, W) =
          IF \E f \in S : ReadImports(f.tokens).err
          THEN [err |-> "reading", imports |-> {}, testImports |-> {}]
          ELSE IF K = {} THEN [err |-> "ErrNoGo", imports |-> {}, testImports |-> {}]
          ELSE [err |-> "none", imports |-> Of(K, FALSE), testImports |-> Of(K, TRUE)]
    BY <1>5 DEF ScanDir, ScanFiles
  <1>8. L # {}
    <2> SUFFICES ASSUME L = {} PROVE FALSE
      OBVIOUS
    <2>1. ScanDir(dir, A).err \in {"reading", "ErrNoGo"}
      BY <1>6
    <2> QED BY <1>1, <1>2, <2>1
  <1>9. L = {file} /\ T = {file} /\ Listed(file, A) /\ Counts(file, A, FALSE)
    BY <1>1, <1>4, <1>8
  <1>10. Listed(file, W)
    BY <1>2, <1>9, NameWanted DEF Listed
  <1>11. Counts(file, W, FALSE)
    <2>1. ShouldBuild(file.head, A)
      BY <1>9 DEF Counts
    <2>2. ShouldBuild(file.head, W)
      BY <1>1, <1>2, <2>1, HeadWanted
    <2>3. "cgo" \in W
      BY <1>2, TagsAssumption DEF Wanted, Others
    <2>4. {"cgo", AllTags} \cap W # {}
      BY <2>3
    <2> QED BY <2>2, <2>4 DEF Counts
  <1>12. S = {file} /\ K = {file}
    BY <1>1, <1>5, <1>10, <1>11
  <1>13. ScanDir(dir, W) = ScanDir(dir, A)
    BY <1>6, <1>7, <1>9, <1>12
  <1> QED BY <1>2, <1>3, <1>13


\*------------------------------------------------------------------ lines
\* The loop of parse over the characters of a line.
LEMMA ScanLoop ==
  ASSUME NEW line, Len(line) \in Nat
  PROVE  \E f : /\ f[0] = Sl!NewParser
                /\ \A n \in 1 .. Len(line) : f[n] = Sl!Step(line, f[n - 1], n)
                /\ Sl!Scan(line) = f[Len(line)]
  <1> DEFINE len == Len(line)
             Body(f, n) == IF n = 0 THEN Sl!NewParser ELSE Sl!Step(line, f[n - 1], n)
             after[n \in 0 .. len] == IF n = 0 THEN Sl!NewParser ELSE Sl!Step(line, after[n - 1], n)
  <1>1. Sl!Scan(line) = after[len]
    BY DEF Sl!Scan
  <1>2. \E f : f = [n \in 0 .. len |-> Body(f, n)]
    <2> DEFINE Lacking == {n \in 0 .. len : ~ \E f : f = [k \in 0 .. n |-> Body(f, k)]}
    <2>1. Lacking = {}
      <3> SUFFICES ASSUME Lacking # {} PROVE FALSE
        OBVIOUS
      <3>0. Lacking \subseteq Nat
        OBVIOUS
      <3>1. PICK n \in Lacking : \A m \in Lacking : n <= m
        BY <3>0, Least
      <3> HIDE DEF Body
      <3>2. CASE n = 0
        <4> DEFINE f == [k \in 0 .. 0 |-> Sl!NewParser]
        <4>1. \A k \in 0 .. 0 : Body(f, k) = f[k]
          BY DEF Body
        <4>2. f = [k \in 0 .. 0 |-> Body(f, k)]
          BY <4>1
        <4> HIDE DEF f
        <4> QED BY <3>2, <4>2
      <3>3. CASE n # 0
        <4>1. n - 1 \in 0 .. len /\ n \in 0 .. len /\ n - 1 \notin Lacking
          BY <3>1, <3>3
        <4>2. PICK f : f = [k \in 0 .. n - 1 |-> Body(f, k)]
          BY <4>1
        <4> DEFINE g == [k \in 0 .. n |-> IF k = n THEN Body(f, n) ELSE f[k]]
        <4>3. \A k \in 0 .. n - 1 : g[k] = f[k]
          BY <4>1
        <4>4. \A k \in 0 .. n : Body(g, k) = Body(f, k)
          BY <4>1, <4>3 DEF Body
        <4>5. \A k \in 0 .. n : g[k] = Body(g, k)
          <5> SUFFICES ASSUME NEW k \in 0 .. n PROVE g[k] = Body(g, k)
            OBVIOUS
          <5>1. CASE k = n
            BY <4>4, <5>1
          <5>2. CASE k # n
            <6>1. k \in 0 .. n - 1
              BY <4>1, <5>2
            <6>2. f[k] = Body(f, k)
              BY <4>2, <6>1
            <6> QED BY <4>3, <4>4, <6>1, <6>2
          <5> QED BY <5>1, <5>2
        <4>6. g = [k \in 0 .. n |-> Body(g, k)]
          BY <4>5
        <4> HIDE DEF g
        <4> QED BY <4>6
      <3> QED BY <3>2, <3>3
    <2> QED BY <2>1
  <1>3. after = [n \in 0 .. len |-> Body(after, n)]
    BY <1>2
  <1> HIDE DEF after
  <1>4. \A n \in 0 .. len : after[n] = Body(after, n)
    BY <1>3
  <1>5. after[0] = Sl!NewParser
    <2>1. after[0] = Body(after, 0)
      BY <1>4
    <2> QED BY <2>1
  <1>6. ASSUME NEW n \in 1 .. len PROVE after[n] = Sl!Step(line, after[n - 1], n)
    <2>1. n \in 0 .. len /\ n # 0
      OBVIOUS
    <2>2. after[n] = Body(after, n)
      BY <1>4, <2>1
    <2> QED BY <2>1, <2>2
  <1> QED BY <1>1, <1>5, <1>6

\* The loop of FlattenSeq.
LEMMA FlattenLoop ==
  ASSUME NEW seqs, Len(seqs) \in Nat, Len(seqs) > 0
  PROVE  \E f : /\ f[1] = seqs[1]
                /\ \A n \in 2 .. Len(seqs) : f[n] = f[n - 1] \o seqs[n]
                /\ Q!FlattenSeq(seqs) = f[Len(seqs)]
  <1> DEFINE len == Len(seqs)
             Body(f, n) == IF n = 1 THEN seqs[n] ELSE f[n - 1] \o seqs[n]
             upTo[n \in 1 .. len] == IF n = 1 THEN seqs[n] ELSE upTo[n - 1] \o seqs[n]
  <1>1. Q!FlattenSeq(seqs) = upTo[len]
    BY DEF Q!FlattenSeq
  <1>2. \E f : f = [n \in 1 .. len |-> Body(f, n)]
    <2> DEFINE Lacking == {n \in 1 .. len : ~ \E f : f = [k \in 1 .. n |-> Body(f, k)]}
    <2> HIDE DEF Body, upTo
    <2>1. Lacking = {}
      <3> SUFFICES ASSUME Lacking # {} PROVE FALSE
        OBVIOUS
      <3>0. Lacking \subseteq Nat
        OBVIOUS
      <3>1. PICK n \in Lacking : \A m \in Lacking : n <= m
        BY <3>0, Least
      <3>2. CASE n = 1
        <4> DEFINE f == [k \in 1 .. 1 |-> seqs[k]]
        <4>1. \A k \in 1 .. 1 : Body(f, k) = f[k]
          BY DEF Body
        <4>2. f = [k \in 1 .. 1 |-> Body(f, k)]
          BY <4>1
        <4> HIDE DEF f
        <4> QED BY <3>2, <4>2
      <3>3. CASE n # 1
        <4>1. n - 1 \in 1 .. len /\ n \in 1 .. len /\ n - 1 \notin Lacking
          BY <3>1, <3>3
        <4>2. PICK f : f = [k \in 1 .. n - 1 |-> Body(f, k)]
          BY <4>1
        <4> DEFINE g == [k \in 1 .. n |-> IF k = n THEN Body(f, n) ELSE f[k]]
        <4>3. \A k \in 1 .. n - 1 : g[k] = f[k]
          BY <4>1
        <4>4. \A k \in 1 .. n : Body(g, k) = Body(f, k)
          BY <4>1, <4>3 DEF Body
        <4>5. \A k \in 1 .. n : g[k] = Body(g, k)
          <5> SUFFICES ASSUME NEW k \in 1 .. n PROVE g[k] = Body(g, k)
            OBVIOUS
          <5>1. CASE k = n
            BY <4>4, <5>1
          <5>2. CASE k # n
            <6>1. k \in 1 .. n - 1
              BY <4>1, <5>2
            <6>2. f[k] = Body(f, k)
              BY <4>2, <6>1
            <6> QED BY <4>3, <4>4, <6>1, <6>2
          <5> QED BY <5>1, <5>2
        <4>6. g = [k \in 1 .. n |-> Body(g, k)]
          BY <4>5
        <4> HIDE DEF g
        <4> QED BY <4>6
      <3> QED BY <3>2, <3>3
    <2>2. len \in 1 .. len /\ len \notin Lacking
      BY <2>1
    <2> QED BY <2>2
  <1>3. upTo = [n \in 1 .. len |-> Body(upTo, n)]
    BY <1>2 DEF upTo
  <1> HIDE DEF upTo
  <1>4. \A n \in 1 .. len : upTo[n] = Body(upTo, n)
    BY <1>3
  <1>5. upTo[1] = seqs[1]
    <2>1. upTo[1] = Body(upTo, 1)
      BY <1>4
    <2> QED BY <2>1
  <1>6. ASSUME NEW n \in 2 .. len PROVE upTo[n] = upTo[n - 1] \o seqs[n]
    <2>1. n \in 1 .. len /\ n # 1
      OBVIOUS
    <2>2. upTo[n] = Body(upTo, n)
      BY <1>4, <2>1
    <2> QED BY <2>1, <2>2
  <1> QED BY <1>1, <1>5, <1>6

\* The prefixes of what is flattened: each adds one of the sequences.
Joins(A, seqs, F) ==
  /\ F[0] = <<>>
  /\ \A n \in 1 .. Len(seqs) : F[n] = F[n - 1] \o seqs[n]
  /\ \A n \in 0 .. Len(seqs) : F[n] \in Seq(A)
  /\ Q!FlattenSeq(seqs) = F[Len(seqs)]

\* What FlattenSeq computes.
LEMMA FlattenJoins ==
  ASSUME NEW A, NEW seqs \in Seq(Seq(A))
  PROVE  \E F : Joins(A, seqs, F)
  <1>1. PICK len : len = Len(seqs)
    OBVIOUS
  <1>2. len \in Nat /\ \A n \in 1 .. len : seqs[n] \in Seq(A)
    BY <1>1
  <1>3. CASE len = 0
    <2>0. seqs = <<>>
      BY <1>1, <1>3, EmptySeq
    <2>1. Q!FlattenSeq(seqs) = <<>>
      BY <1>1, <1>3, <2>0 DEF Q!FlattenSeq
    <2>2. Joins(A, seqs, [n \in 0 .. 0 |-> <<>>])
      BY <1>1, <1>3, <2>1 DEF Joins
    <2> QED BY <2>2
  <1>4. CASE len > 0
    <2>1. PICK f : /\ f[1] = seqs[1]
                   /\ \A n \in 2 .. len : f[n] = f[n - 1] \o seqs[n]
                   /\ Q!FlattenSeq(seqs) = f[len]
      BY <1>1, <1>2, <1>4, FlattenLoop
    <2> DEFINE F == [n \in 0 .. len |-> IF n = 0 THEN <<>> ELSE f[n]]
    <2>2. F[0] = <<>> /\ \A n \in 1 .. len : F[n] = f[n]
      BY <1>2
    <2> HIDE DEF F
    <2>3. ASSUME NEW n \in 1 .. len PROVE F[n] = F[n - 1] \o seqs[n]
      <3>1. CASE n = 1
        <4>1. seqs[1] \in Seq(A)
          BY <1>2, <1>4
        <4>2. <<>> \o seqs[1] = seqs[1]
          BY <4>1
        <4>3. n - 1 = 0 /\ F[n] = seqs[1] /\ F[n - 1] = <<>>
          BY <2>1, <2>2, <3>1
        <4> QED BY <3>1, <4>2, <4>3
      <3>2. CASE n # 1
        <4>1. n \in 2 .. len /\ n - 1 \in 1 .. len
          BY <1>2, <3>2
        <4> QED BY <2>1, <2>2, <4>1
      <3> QED BY <3>1, <3>2
    <2>4. \A n \in 0 .. len : F[n] \in Seq(A)
      <3> DEFINE Wrong == {n \in 0 .. len : F[n] \notin Seq(A)}
      <3> SUFFICES ASSUME Wrong # {} PROVE FALSE
        OBVIOUS
      <3>1. Wrong \subseteq Nat
        OBVIOUS
      <3>2. PICK n \in Wrong : \A m \in Wrong : n <= m
        BY <3>1, Least
      <3>3. n # 0
        BY <2>2, <3>2, EmptySeq
      <3>4. n \in 1 .. len /\ n - 1 \in 0 .. len /\ n - 1 \notin Wrong
        BY <1>2, <3>2, <3>3
      <3>5. F[n - 1] \in Seq(A) /\ seqs[n] \in Seq(A) /\ F[n] = F[n - 1] \o seqs[n]
        BY <1>2, <2>3, <3>4
      <3>6. F[n] \in Seq(A)
        BY <3>5, ConcatProperties
      <3> QED BY <3>2, <3>6
    <2>5. Q!FlattenSeq(seqs) = F[len]
      BY <1>2, <1>4, <2>1, <2>2
    <2>6. Joins(A, seqs, F)
      BY <1>1, <2>2, <2>3, <2>4, <2>5 DEF Joins
    <2> QED BY <2>6
  <1> QED BY <1>2, <1>3, <1>4

\* With one sequence more at the end.
LEMMA FlattenMore ==
  ASSUME NEW A, NEW s \in Seq(Seq(A)), NEW t \in Seq(Seq(A)), Len(t) = Len(s) + 1,
         \A i \in 1 .. Len(s) : t[i] = s[i]
  PROVE  Q!FlattenSeq(t) = Q!FlattenSeq(s) \o t[Len(t)]
  <1>1. PICK len : len = Len(s)
    OBVIOUS
  <1>2. len \in Nat
    BY <1>1
  <1>3. PICK F : Joins(A, s, F)
    BY FlattenJoins
  <1>4. PICK G : Joins(A, t, G)
    BY FlattenJoins
  <1>5. \A n \in 0 .. len : F[n] = G[n]
    <2> DEFINE Wrong == {n \in 0 .. len : F[n] # G[n]}
    <2> SUFFICES ASSUME Wrong # {} PROVE FALSE
      OBVIOUS
    <2>1. Wrong \subseteq Nat
      OBVIOUS
    <2>2. PICK n \in Wrong : \A m \in Wrong : n <= m
      BY <2>1, Least
    <2>3. n # 0
      BY <1>3, <1>4, <2>2 DEF Joins
    <2>4. n \in 1 .. len /\ n \in 1 .. len + 1 /\ n - 1 \in 0 .. len /\ n - 1 \notin Wrong
      BY <1>2, <2>2, <2>3
    <2>5. F[n] = F[n - 1] \o s[n] /\ G[n] = G[n - 1] \o t[n] /\ t[n] = s[n]
      BY <1>1, <1>3, <1>4, <2>4 DEF Joins
    <2> QED BY <2>2, <2>4, <2>5
  <1>6. G[len + 1] = G[len] \o t[len + 1]
    <2>1. len + 1 \in 1 .. Len(t) /\ (len + 1) - 1 = len
      BY <1>1, <1>2
    <2> QED BY <1>4, <2>1 DEF Joins
  <1>7. F[len] = G[len]
    BY <1>2, <1>5
  <1> QED BY <1>1, <1>3, <1>4, <1>6, <1>7 DEF Joins

\* The characters that mean something are different ones.
LEMMA MarksDiffer ==
  /\ Sl!QuoteMark # Sl!Space /\ Sl!QuoteMark # Sl!Hash /\ Sl!QuoteMark # Sl!Variable
  /\ Sl!Space # Sl!Hash /\ Sl!Variable # Sl!Space /\ Sl!Variable # Sl!Hash
  BY DEF Sl!QuoteMark, Sl!Space, Sl!Hash, Sl!Variable

\* No quote is before the first place, and a quote changes whether the next is outside.
LEMMA OuterFirst ==
  ASSUME NEW line
  PROVE  Outer(line, 1)
  <1>1. {k \in 1 .. 1 - 1 : line[k] = Sl!QuoteMark} = {}
    OBVIOUS
  <1>2. Cardinality({}) = 0 /\ 0 % 2 = 0
    BY FS_EmptySet
  <1> QED BY <1>1, <1>2 DEF Outer

\* The next place is on the other side of a quote.
LEMMA OuterNext ==
  ASSUME NEW line, NEW i \in Nat, i > 0
  PROVE  Outer(line, i + 1) <=> IF line[i] = Sl!QuoteMark THEN ~Outer(line, i) ELSE Outer(line, i)
  <1>1. PICK S : S = {k \in 1 .. i - 1 : line[k] = Sl!QuoteMark}
    OBVIOUS
  <1>2. PICK T : T = {k \in 1 .. (i + 1) - 1 : line[k] = Sl!QuoteMark}
    OBVIOUS
  <1>3. IsFiniteSet(S) /\ Cardinality(S) \in Nat
    <2>1. S \subseteq 1 .. i - 1
      BY <1>1
    <2>2. 1 \in Int /\ i - 1 \in Int
      OBVIOUS
    <2>3. IsFiniteSet(1 .. i - 1)
      BY <2>2, FS_Interval
    <2>4. IsFiniteSet(S)
      BY <2>1, <2>3, FS_Subset
    <2> QED BY <2>4, FS_CardinalityType
  <1>4. (Outer(line, i) <=> Cardinality(S) % 2 = 0) /\ (Outer(line, i + 1) <=> Cardinality(T) % 2 = 0)
    BY <1>1, <1>2 DEF Outer
  <1>5. CASE line[i] = Sl!QuoteMark
    <2>1. T = S \cup {i} /\ i \notin S
      BY <1>1, <1>2, <1>5
    <2>2. Cardinality(T) = Cardinality(S) + 1
      BY <1>3, <2>1, FS_AddElement
    <2>3. \A c \in Nat : (c + 1) % 2 = 0 <=> ~(c % 2 = 0)
      OBVIOUS
    <2>4. Cardinality(T) % 2 = 0 <=> ~(Cardinality(S) % 2 = 0)
      BY <1>3, <2>2, <2>3
    <2> QED BY <1>4, <1>5, <2>4
  <1>6. CASE line[i] # Sl!QuoteMark
    <2>1. T = S
      BY <1>1, <1>2, <1>6
    <2> QED BY <1>4, <1>6, <2>1
  <1> QED BY <1>5, <1>6

\* What a character means is text,
LEMMA MeansTyped ==
  ASSUME NEW line \in Seq(Characters), NEW n \in 1 .. Len(line)
  PROVE  Means(line, n) \in Seq(Characters)
  <1>1. line[n] \in Characters
    OBVIOUS
  <1>2. <<line[n]>> \in Seq(Characters) /\ <<>> \in Seq(Characters)
    BY <1>1
  <1>3. Value \in Seq(Characters)
    BY LinesAssumption
  <1>4. CASE line[n] = Sl!QuoteMark
    <2>1. <<Sl!QuoteMark>> \in Seq(Characters)
      BY <1>2, <1>4
    <2> QED BY <1>2, <1>4, <2>1, MarksDiffer DEF Means
  <1>5. CASE line[n] # Sl!QuoteMark
    BY <1>2, <1>3, <1>5 DEF Means
  <1> QED BY <1>4, <1>5

\* and so is what a stretch of characters means, of which each adds its own.
LEMMA MeaningIs ==
  ASSUME NEW line \in Seq(Characters), NEW n \in 1 .. Len(line), NEW m \in n .. Len(line)
  PROVE  /\ Meaning(line, n, m) \in Seq(Characters)
         /\ Meaning(line, n, m) = (IF m = n THEN <<>> ELSE Meaning(line, n, m - 1)) \o Means(line, m)
  <1>1. PICK l : l = m - n + 1
    OBVIOUS
  <1>2. l \in Nat /\ l >= 1
    BY <1>1
  <1>3. PICK t : t = [k \in 1 .. l |-> Means(line, n + k - 1)]
    OBVIOUS
  <1>4. \A k \in 1 .. l : t[k] \in Seq(Characters)
    <2> SUFFICES ASSUME NEW k \in 1 .. l PROVE t[k] \in Seq(Characters)
      OBVIOUS
    <2>1. n + k - 1 \in 1 .. Len(line)
      BY <1>1
    <2>2. PICK j \in 1 .. Len(line) : j = n + k - 1
      BY <2>1
    <2> QED BY <1>3, <2>2, MeansTyped
  <1>5. t \in Seq(Seq(Characters)) /\ Len(t) = l
    BY <1>2, <1>3, <1>4
  <1>6. Meaning(line, n, m) = Q!FlattenSeq(t)
    BY <1>1, <1>3 DEF Meaning
  <1>7. PICK F : Joins(Characters, t, F)
    BY <1>5, FlattenJoins
  <1>8. Q!FlattenSeq(t) \in Seq(Characters)
    BY <1>2, <1>5, <1>7 DEF Joins
  <1>9. t[l] = Means(line, m)
    <2>1. n + l - 1 = m /\ l \in 1 .. l
      BY <1>1, <1>2
    <2> QED BY <1>3, <2>1
  <1>10. PICK s : s = [k \in 1 .. l - 1 |-> t[k]]
    OBVIOUS
  <1>11. s \in Seq(Seq(Characters)) /\ Len(s) = l - 1 /\ \A k \in 1 .. l - 1 : s[k] = t[k]
    BY <1>2, <1>4, <1>10
  <1>12. Q!FlattenSeq(t) = Q!FlattenSeq(s) \o t[l]
    <2>1. Len(t) = Len(s) + 1
      BY <1>2, <1>5, <1>11
    <2> QED BY <1>5, <1>11, <2>1, FlattenMore
  <1>13. Q!FlattenSeq(s) = IF m = n THEN <<>> ELSE Meaning(line, n, m - 1)
    <2>1. CASE m = n
      <3>1. s = <<>> /\ Len(s) = 0
        BY <1>1, <1>11, <2>1, EmptySeq
      <3>2. Q!FlattenSeq(s) = <<>>
        BY <3>1 DEF Q!FlattenSeq
      <3> QED BY <2>1, <3>2
    <2>2. CASE m # n
      <3>1. (m - 1) - n + 1 = l - 1
        BY <1>1
      <3>2. \A k \in 1 .. l - 1 : t[k] = Means(line, n + k - 1)
        BY <1>2, <1>3
      <3>3. s = [k \in 1 .. (m - 1) - n + 1 |-> Means(line, n + k - 1)]
        BY <1>10, <3>1, <3>2
      <3> QED BY <2>2, <3>3 DEF Meaning
    <2> QED BY <2>1, <2>2
  <1> QED BY <1>6, <1>8, <1>9, <1>12, <1>13

\* Characters n to i belong to one argument, which begins there.
Run(line, n, i) ==
  /\ n \in 1 .. i
  /\ \A k \in n .. i : IsCode(line, k) /\ ~IsBlank(line, k)
  /\ n > 1 => IsBlank(line, n - 1)
StartsTo(line, j) == {k \in Starts(line) : k <= j}

\* The arguments of the first j characters: those that are over by then.
ArgsTo(line, j, args) ==
  /\ args \in Seq(Seq(Characters))
  /\ Len(args) = Cardinality(StartsTo(line, j))
  /\ \A n, m \in 1 .. j :
       Run(line, n, m) /\ (m < j => IsBlank(line, m + 1) \/ IsComment(line, m + 1)) =>
         args[Cardinality(StartsTo(line, n))] = Meaning(line, n, m)

\* There are finitely many, and none before the first character.
LEMMA StartsFinite ==
  ASSUME NEW line \in Seq(Characters), NEW j \in Nat
  PROVE  /\ IsFiniteSet(StartsTo(line, j)) /\ Cardinality(StartsTo(line, j)) \in Nat
         /\ StartsTo(line, 0) = {} /\ ArgsTo(line, 0, <<>>)
  <1>1. StartsTo(line, j) \subseteq 1 .. j
    BY DEF StartsTo, Starts
  <1>2. IsFiniteSet(StartsTo(line, j)) /\ Cardinality(StartsTo(line, j)) \in Nat
    <2>1. 1 \in Int /\ j \in Int
      OBVIOUS
    <2>2. IsFiniteSet(1 .. j)
      BY <2>1, FS_Interval
    <2>3. IsFiniteSet(StartsTo(line, j))
      BY <1>1, <2>2, FS_Subset
    <2> QED BY <2>3, FS_CardinalityType
  <1>3. StartsTo(line, 0) = {}
    BY DEF StartsTo, Starts
  <1>4. Cardinality(StartsTo(line, 0)) = 0
    BY <1>3, FS_EmptySet
  <1>5. <<>> \in Seq(Seq(Characters)) /\ Len(<<>>) = 0
    BY EmptySeq
  <1>6. ArgsTo(line, 0, <<>>)
    BY <1>4, <1>5 DEF ArgsTo
  <1> QED BY <1>2, <1>3, <1>6

\* A blank and what is not code add nothing.
LEMMA ArgsBlank ==
  ASSUME NEW line \in Seq(Characters), NEW j \in Nat, NEW i, i = j + 1, NEW args, ArgsTo(line, j, args),
         IsBlank(line, i) \/ ~IsCode(line, i)
  PROVE  ArgsTo(line, i, args)
  <1>1. i \notin Starts(line) /\ \A n : ~Run(line, n, i)
    BY DEF Starts, Run
  <1>2. StartsTo(line, i) = StartsTo(line, j)
    BY <1>1 DEF StartsTo, Starts
  <1>3. ASSUME NEW n \in 1 .. i, NEW m \in 1 .. i, Run(line, n, m),
               m < i => IsBlank(line, m + 1) \/ IsComment(line, m + 1)
        PROVE  args[Cardinality(StartsTo(line, n))] = Meaning(line, n, m)
    <2>1. m # i
      BY <1>1, <1>3
    <2>2. m \in 1 .. j /\ n \in 1 .. j /\ (m < j => m < i)
      BY <1>3, <2>1 DEF Run
    <2> QED BY <1>3, <2>2 DEF ArgsTo
  <1> QED BY <1>2, <1>3 DEF ArgsTo

\* An argument is over.
LEMMA ArgsClose ==
  ASSUME NEW line \in Seq(Characters), NEW i \in 1 .. Len(line), NEW n, NEW args, Run(line, n, i),
         ArgsTo(line, n - 1, args)
  PROVE  ArgsTo(line, i, Append(args, Meaning(line, n, i)))
  <1>1. n \in 1 .. i /\ n \in 1 .. Len(line) /\ i \in n .. Len(line) /\ n - 1 \in Nat
    BY DEF Run
  <1>2. \A k \in n .. i : IsCode(line, k) /\ ~IsBlank(line, k)
    BY DEF Run
  <1>3. PICK a : a = Meaning(line, n, i)
    OBVIOUS
  <1>4. a \in Seq(Characters)
    BY <1>1, <1>3, MeaningIs
  <1>5. PICK w : w = Append(args, a)
    OBVIOUS
  <1>6. PICK c : c = Len(args)
    OBVIOUS
  <1>7. args \in Seq(Seq(Characters)) /\ c \in Nat /\ c = Cardinality(StartsTo(line, n - 1))
    BY <1>6 DEF ArgsTo
  <1>8. w \in Seq(Seq(Characters)) /\ Len(w) = c + 1 /\ w[c + 1] = a /\ \A k \in 1 .. c : w[k] = args[k]
    <2>1. PICK T : T = Seq(Characters)
      OBVIOUS
    <2>2. args \in Seq(T) /\ a \in T
      BY <1>4, <1>7, <2>1
    <2>3. /\ Append(args, a) \in Seq(T) /\ Len(Append(args, a)) = Len(args) + 1
          /\ \A k \in 1 .. Len(args) : Append(args, a)[k] = args[k]
          /\ Append(args, a)[Len(args) + 1] = a
      BY <2>2, AppendProperties
    <2> QED BY <1>5, <1>6, <2>1, <2>3
  <1>9. n \in Starts(line)
    BY <1>1, <1>2 DEF Run, Starts
  <1>10. \A k \in Starts(line) : k <= i => k <= n
    <2> SUFFICES ASSUME NEW k \in Starts(line), k <= i, k > n PROVE FALSE
      BY <1>1 DEF Starts
    <2>1. k \in Nat /\ k > 1 /\ IsBlank(line, k - 1)
      BY <1>1 DEF Starts
    <2>2. k - 1 \in n .. i
      BY <1>1, <2>1
    <2> QED BY <1>2, <2>1, <2>2
  <1>11. \A j \in n .. i : StartsTo(line, j) = StartsTo(line, n - 1) \cup {n}
    <2>1. ASSUME NEW j \in n .. i, NEW k \in Starts(line) PROVE k <= j <=> k <= n - 1 \/ k = n
      <3>1. k \in Nat /\ (k <= i => k <= n)
        BY <1>10 DEF Starts
      <3> QED BY <1>1, <3>1
    <2> QED BY <1>9, <2>1 DEF StartsTo
  <1>12. \A j \in n .. i : Cardinality(StartsTo(line, j)) = c + 1
    <2>1. n \notin StartsTo(line, n - 1)
      BY <1>1 DEF StartsTo
    <2>2. IsFiniteSet(StartsTo(line, n - 1))
      BY <1>1, StartsFinite
    <2>3. Cardinality(StartsTo(line, n - 1) \cup {n}) = c + 1
      BY <1>7, <2>1, <2>2, FS_AddElement
    <2> QED BY <1>11, <2>3
  <1>13. ASSUME NEW k \in 1 .. i, NEW m \in 1 .. i, Run(line, k, m),
                m < i => IsBlank(line, m + 1) \/ IsComment(line, m + 1)
         PROVE  w[Cardinality(StartsTo(line, k))] = Meaning(line, k, m)
    <2>1. k \in 1 .. m /\ (\A l \in k .. m : IsCode(line, l) /\ ~IsBlank(line, l)) /\ k \in Starts(line)
      <3>1. k \in 1 .. m /\ (\A l \in k .. m : IsCode(line, l) /\ ~IsBlank(line, l))
        BY <1>13 DEF Run
      <3>2. k \in k .. m /\ k \in DOMAIN line
        BY <1>1, <3>1
      <3> QED BY <1>13, <3>1, <3>2 DEF Run, Starts
    <2>2. CASE k >= n
      <3>1. k = n
        <4>1. k <= i /\ k \in Nat /\ n \in Nat
          BY <1>1, <2>1
        <4> QED BY <1>10, <2>1, <2>2, <4>1
      <3>2. m = i
        <4> SUFFICES ASSUME m < i PROVE FALSE
          OBVIOUS
        <4>1. IsBlank(line, m + 1) \/ IsComment(line, m + 1)
          BY <1>13
        <4>2. m + 1 \in n .. i /\ m + 1 \in 1 .. m + 1
          BY <2>1, <3>1
        <4>3. ~IsComment(line, m + 1)
          BY <1>2, <4>2 DEF IsCode
        <4> QED BY <1>2, <4>1, <4>2, <4>3
      <3>3. Cardinality(StartsTo(line, k)) = c + 1
        BY <1>1, <1>12, <3>1
      <3> QED BY <1>3, <1>8, <3>1, <3>2, <3>3
    <2>3. CASE k < n
      <3>1. n > 1 /\ IsBlank(line, n - 1)
        BY <1>1, <2>1, <2>3 DEF Run
      <3>2. m < n - 1
        <4>1. n - 1 \notin k .. m
          BY <2>1, <3>1
        <4> QED BY <1>1, <2>1, <2>3, <4>1
      <3>3. k \in 1 .. n - 1 /\ m \in 1 .. n - 1 /\ m < i
        BY <1>1, <2>1, <3>2
      <3>4. args[Cardinality(StartsTo(line, k))] = Meaning(line, k, m)
        BY <1>13, <3>3 DEF ArgsTo
      <3>5. Cardinality(StartsTo(line, k)) \in 1 .. c
        <4>1. k \in StartsTo(line, k) /\ StartsTo(line, k) \subseteq StartsTo(line, n - 1)
          BY <1>1, <2>1, <3>3 DEF StartsTo, Starts
        <4>2. IsFiniteSet(StartsTo(line, n - 1)) /\ IsFiniteSet(StartsTo(line, k))
          BY <1>1, <2>1, StartsFinite
        <4>3. Cardinality(StartsTo(line, k)) <= c
          BY <1>7, <4>1, <4>2, FS_Subset
        <4>4. Cardinality(StartsTo(line, k)) # 0 /\ Cardinality(StartsTo(line, k)) \in Nat
          BY <4>1, <4>2, FS_EmptySet, FS_CardinalityType
        <4> QED BY <1>7, <4>3, <4>4
      <3> QED BY <1>8, <3>4, <3>5
    <2> QED BY <1>1, <2>1, <2>2, <2>3
  <1>14. Cardinality(StartsTo(line, i)) = c + 1
    BY <1>1, <1>12
  <1>15. ArgsTo(line, i, w)
    BY <1>8, <1>13, <1>14 DEF ArgsTo
  <1> QED BY <1>3, <1>5, <1>15

\* What the parser may be.
Parsers ==
  [args : Seq(Seq(Characters)), arg : Seq(Characters), started : BOOLEAN, quoted : BOOLEAN,
   skips : BOOLEAN, ended : BOOLEAN]

\* An argument goes on to character i, or there is none.
Growing(line, i, p) ==
  \E n : Run(line, n, i) /\ p.arg = Meaning(line, n, i) /\ ArgsTo(line, n - 1, p.args)
Waiting(line, i, p) == p.arg = <<>> /\ ArgsTo(line, i, p.args)

\* What holds of the parser after i characters.
Inside(line, i, p) ==
  IF p.skips
  THEN /\ p.quoted /\ i > 0 /\ i < Len(line) /\ Outer(line, i + 1)
       /\ line[i] = Sl!QuoteMark /\ line[i + 1] = Sl!QuoteMark
  ELSE p.quoted <=> ~Outer(line, i + 1)
Parsed(line, i, p) ==
  /\ IsCode(line, i) /\ Inside(line, i, p)
  /\ p.started <=> i > 0 /\ ~IsBlank(line, i)
  /\ IF p.started THEN Growing(line, i, p) ELSE Waiting(line, i, p)
ParserRight(line, i, p) ==
  /\ p \in Parsers
  /\ IF p.ended THEN ~IsCode(line, i) /\ ArgsTo(line, i, p.args) ELSE Parsed(line, i, p)

\* At the beginning,
LEMMA NewParserRight ==
  ASSUME NEW line \in Seq(Characters)
  PROVE  ParserRight(line, 0, Sl!NewParser)
  <1>1. PICK p : p = Sl!NewParser
    OBVIOUS
  <1>2. p = [args |-> <<>>, arg |-> <<>>, started |-> FALSE, quoted |-> FALSE,
             skips |-> FALSE, ended |-> FALSE]
    BY <1>1 DEF Sl!NewParser
  <1>3. p \in Parsers
    BY <1>2, EmptySeq DEF Parsers
  <1>4. IsCode(line, 0)
    BY DEF IsCode
  <1>5. Inside(line, 0, p)
    BY <1>2, OuterFirst DEF Inside
  <1>6. Waiting(line, 0, p)
    BY <1>2, StartsFinite DEF Waiting
  <1> QED BY <1>1, <1>2, <1>3, <1>4, <1>5, <1>6 DEF ParserRight, Parsed

\* when a character belongs to an argument,
LEMMA ArgGrows ==
  ASSUME NEW line \in Seq(Characters), NEW i \in 1 .. Len(line), NEW j, j = i - 1,
         NEW p \in Parsers, Parsed(line, j, p), IsCode(line, i), ~IsBlank(line, i)
  PROVE  \E n : /\ Run(line, n, i) /\ ArgsTo(line, n - 1, p.args)
                /\ p.arg \o Means(line, i) = Meaning(line, n, i)
  <1>1. CASE p.started
    <2>1. PICK n : Run(line, n, j) /\ p.arg = Meaning(line, n, j) /\ ArgsTo(line, n - 1, p.args)
      BY <1>1 DEF Parsed, Growing
    <2>2. n \in 1 .. j /\ (\A k \in n .. j : IsCode(line, k) /\ ~IsBlank(line, k))
          /\ (n > 1 => IsBlank(line, n - 1))
      BY <2>1 DEF Run
    <2>3. \A k \in n .. i : k \in n .. j \/ k = i
      BY <2>2
    <2>4. Run(line, n, i)
      BY <2>2, <2>3 DEF Run
    <2>5. n \in 1 .. Len(line) /\ i \in n .. Len(line) /\ i # n
      BY <2>2
    <2>6. Meaning(line, n, i) = Meaning(line, n, j) \o Means(line, i)
      BY <2>5, MeaningIs
    <2> QED BY <2>1, <2>4, <2>6
  <1>2. CASE ~p.started
    <2>1. p.arg = <<>> /\ ArgsTo(line, j, p.args)
      BY <1>2 DEF Parsed, Waiting
    <2>2. i > 1 => IsBlank(line, i - 1)
      BY <1>2 DEF Parsed
    <2>3. Run(line, i, i)
      BY <2>2 DEF Run
    <2>4. Meaning(line, i, i) = <<>> \o Means(line, i)
      <3>1. i \in i .. Len(line)
        OBVIOUS
      <3> QED BY <3>1, MeaningIs
    <2> QED BY <2>1, <2>3, <2>4
  <1> QED BY <1>1, <1>2

\* A character that stands for something makes the argument longer.
LEMMA Grown ==
  ASSUME NEW line \in Seq(Characters), NEW i \in 1 .. Len(line), NEW j, j = i - 1,
         NEW p \in Parsers, Parsed(line, j, p), IsCode(line, i), ~IsBlank(line, i),
         NEW q, q \in BOOLEAN, NEW s, s \in BOOLEAN, NEW w,
         w = [p EXCEPT !.started = TRUE, !.arg = @ \o Means(line, i), !.quoted = q, !.skips = s],
         Inside(line, i, w), ~p.ended
  PROVE  ParserRight(line, i, w)
  <1>1. PICK n : /\ Run(line, n, i) /\ ArgsTo(line, n - 1, p.args)
                 /\ p.arg \o Means(line, i) = Meaning(line, n, i)
    BY ArgGrows
  <1>2. Meaning(line, n, i) \in Seq(Characters)
    <2>1. n \in 1 .. Len(line) /\ i \in n .. Len(line)
      BY <1>1 DEF Run
    <2> QED BY <2>1, MeaningIs
  <1>3. /\ w.started = TRUE /\ w.arg = Meaning(line, n, i) /\ w.args = p.args /\ w.ended = p.ended
        /\ w \in Parsers
    BY <1>1, <1>2 DEF Parsers
  <1>4. Growing(line, i, w)
    BY <1>1, <1>3 DEF Growing
  <1> QED BY <1>3, <1>4 DEF ParserRight, Parsed

\* and when it does not,
LEMMA EndArgRight ==
  ASSUME NEW line \in Seq(Characters), NEW j \in 0 .. Len(line), NEW p \in Parsers, Parsed(line, j, p)
  PROVE  /\ ArgsTo(line, j, Sl!EndArg(p).args)
         /\ Sl!EndArg(p) = [p EXCEPT !.args = Sl!EndArg(p).args, !.arg = <<>>, !.started = FALSE]
         /\ Sl!EndArg(p) \in Parsers
  <1>1. CASE p.started
    <2>1. PICK n : Run(line, n, j) /\ p.arg = Meaning(line, n, j) /\ ArgsTo(line, n - 1, p.args)
      BY <1>1 DEF Parsed, Growing
    <2>2. j \in 1 .. Len(line)
      BY <2>1 DEF Run
    <2>3. ArgsTo(line, j, Append(p.args, p.arg))
      BY <2>1, <2>2, ArgsClose
    <2>4. Sl!EndArg(p) = [p EXCEPT !.args = Append(@, p.arg), !.arg = <<>>, !.started = FALSE]
      BY <1>1 DEF Sl!EndArg
    <2>5. Append(p.args, p.arg) \in Seq(Seq(Characters)) /\ <<>> \in Seq(Characters)
      BY <2>3, EmptySeq DEF ArgsTo
    <2>6. /\ Sl!EndArg(p).args = Append(p.args, p.arg)
          /\ Sl!EndArg(p) = [p EXCEPT !.args = Sl!EndArg(p).args, !.arg = <<>>, !.started = FALSE]
          /\ Sl!EndArg(p) \in Parsers
      BY <2>4, <2>5 DEF Parsers
    <2> QED BY <2>3, <2>6
  <1>2. CASE ~p.started
    <2>1. p.arg = <<>> /\ ArgsTo(line, j, p.args)
      BY <1>2 DEF Parsed, Waiting
    <2>2. Sl!EndArg(p) = p
      BY <1>2 DEF Sl!EndArg
    <2>3. p = [p EXCEPT !.args = p.args, !.arg = <<>>, !.started = FALSE]
      BY <1>2, <2>1 DEF Parsers
    <2> QED BY <2>1, <2>2, <2>3
  <1> QED BY <1>1, <1>2

\* inside quotes,
LEMMA QuotedRight ==
  ASSUME NEW line \in Seq(Characters), NEW i \in 1 .. Len(line), NEW j, j = i - 1,
         NEW p \in Parsers, Parsed(line, j, p), p.quoted, ~p.skips, ~p.ended
  PROVE  ParserRight(line, i, Sl!Quoted(line, p, i))
  <1>1. ~Outer(line, i)
    BY DEF Parsed, Inside
  <1>2. IsCode(line, i) /\ ~IsBlank(line, i)
    <2>1. ~IsComment(line, i) /\ ~IsBlank(line, i)
      BY <1>1 DEF IsComment, IsBlank
    <2>2. \A k \in 1 .. j : ~IsComment(line, k)
      BY DEF Parsed, IsCode
    <2>3. \A k \in 1 .. i : k \in 1 .. j \/ k = i
      OBVIOUS
    <2> QED BY <2>1, <2>2, <2>3 DEF IsCode
  <1>3. p.args \in Seq(Seq(Characters)) /\ p.arg \in Seq(Characters)
    BY DEF Parsers
  <1>4. PICK w : w = Sl!Quoted(line, p, i)
    OBVIOUS
  <1>5. i \in Nat /\ i > 0
    OBVIOUS
  <1>6. CASE line[i] # Sl!QuoteMark
    <2>1. Means(line, i) = <<line[i]>>
      BY <1>1, <1>6 DEF Means
    <2>2. w = [p EXCEPT !.started = TRUE, !.arg = @ \o <<line[i]>>]
      BY <1>4, <1>6 DEF Sl!Quoted, Sl!Save
    <2>3. w = [p EXCEPT !.started = TRUE, !.arg = @ \o Means(line, i), !.quoted = TRUE, !.skips = FALSE]
      BY <2>1, <2>2 DEF Parsers
    <2>4. w.quoted /\ ~w.skips
      BY <2>3 DEF Parsers
    <2>5. ~Outer(line, i + 1)
      BY <1>1, <1>5, <1>6, OuterNext
    <2>6. Inside(line, i, w)
      BY <2>4, <2>5 DEF Inside
    <2> QED BY <1>2, <1>4, <2>3, <2>6, Grown
  <1>7. CASE line[i] = Sl!QuoteMark /\ i < Len(line) /\ line[i + 1] = Sl!QuoteMark
    <2>1. Means(line, i) = <<Sl!QuoteMark>>
      BY <1>1, <1>7, MarksDiffer DEF Means
    <2>2. w = [p EXCEPT !.started = TRUE, !.arg = @ \o <<Sl!QuoteMark>>, !.skips = TRUE]
      BY <1>4, <1>7 DEF Sl!Quoted, Sl!Save
    <2>3. w = [p EXCEPT !.started = TRUE, !.arg = @ \o Means(line, i), !.quoted = TRUE, !.skips = TRUE]
      BY <2>1, <2>2 DEF Parsers
    <2>4. w.quoted /\ w.skips
      BY <2>3 DEF Parsers
    <2>5. Outer(line, i + 1)
      BY <1>1, <1>5, <1>7, OuterNext
    <2>6. Inside(line, i, w)
      BY <1>5, <1>7, <2>4, <2>5 DEF Inside
    <2> QED BY <1>2, <1>4, <2>3, <2>6, Grown
  <1>8. CASE line[i] = Sl!QuoteMark /\ ~(i < Len(line) /\ line[i + 1] = Sl!QuoteMark)
    <2>1. Means(line, i) = <<>>
      BY <1>1, <1>8, MarksDiffer DEF Means
    <2>2. w = [p EXCEPT !.quoted = FALSE]
      BY <1>4, <1>8 DEF Sl!Quoted
    <2>3. p.started
      <3>1. i # 1
        BY <1>1, OuterFirst
      <3>2. ~IsBlank(line, j)
        <4> SUFFICES ASSUME IsBlank(line, j) PROVE FALSE
          OBVIOUS
        <4>1. line[j] # Sl!QuoteMark /\ Outer(line, j)
          BY MarksDiffer DEF IsBlank
        <4>2. Outer(line, j + 1)
          BY <3>1, <4>1, OuterNext, SMTT(30)
        <4> QED BY <1>1, <4>2
      <3> QED BY <3>1, <3>2 DEF Parsed
    <2>4. p.arg \o Means(line, i) = p.arg
      BY <1>3, <2>1, ConcatEmptySeq
    <2>5. w = [p EXCEPT !.started = TRUE, !.arg = @ \o Means(line, i), !.quoted = FALSE, !.skips = FALSE]
      BY <2>2, <2>3, <2>4 DEF Parsers
    <2>6. ~w.quoted /\ ~w.skips
      BY <2>5 DEF Parsers
    <2>7. Outer(line, i + 1)
      BY <1>1, <1>5, <1>8, OuterNext
    <2>8. Inside(line, i, w)
      BY <2>6, <2>7 DEF Inside
    <2> QED BY <1>2, <1>4, <2>5, <2>8, Grown
  <1> QED BY <1>6, <1>7, <1>8

\* the second of two,
LEMMA SecondQuoteRight ==
  ASSUME NEW line \in Seq(Characters), NEW i \in 1 .. Len(line), NEW j, j = i - 1,
         NEW p \in Parsers, Parsed(line, j, p), p.skips, ~p.ended
  PROVE  ParserRight(line, i, [p EXCEPT !.skips = FALSE])
  <1>1. p.quoted /\ j > 0 /\ Outer(line, i) /\ line[j] = Sl!QuoteMark /\ line[i] = Sl!QuoteMark
    BY DEF Parsed, Inside
  <1>2. IsCode(line, i) /\ ~IsBlank(line, i)
    <2>1. ~IsComment(line, i) /\ ~IsBlank(line, i)
      BY <1>1, MarksDiffer DEF IsComment, IsBlank
    <2>2. \A k \in 1 .. j : ~IsComment(line, k)
      BY DEF Parsed, IsCode
    <2>3. \A k \in 1 .. i : k \in 1 .. j \/ k = i
      OBVIOUS
    <2> QED BY <2>1, <2>2, <2>3 DEF IsCode
  <1>3. p.arg \in Seq(Characters)
    BY DEF Parsers
  <1>4. PICK w : w = [p EXCEPT !.skips = FALSE]
    OBVIOUS
  <1>5. Means(line, i) = <<>>
    BY <1>1, MarksDiffer DEF Means
  <1>6. p.started
    <2>1. ~IsBlank(line, j)
      BY <1>1, MarksDiffer DEF IsBlank
    <2> QED BY <1>1, <2>1 DEF Parsed
  <1>7. p.arg \o Means(line, i) = p.arg
    BY <1>3, <1>5, ConcatEmptySeq
  <1>8. w = [p EXCEPT !.started = TRUE, !.arg = @ \o Means(line, i), !.quoted = TRUE, !.skips = FALSE]
    BY <1>1, <1>4, <1>6, <1>7 DEF Parsers
  <1>9. w.quoted /\ ~w.skips
    BY <1>8 DEF Parsers
  <1>10. ~Outer(line, i + 1)
    <2>1. i \in Nat /\ i > 0
      OBVIOUS
    <2> QED BY <1>1, <2>1, OuterNext
  <1>11. Inside(line, i, w)
    BY <1>9, <1>10 DEF Inside
  <1> QED BY <1>2, <1>4, <1>8, <1>11, Grown

\* and outside.
LEMMA UnquotedRight ==
  ASSUME NEW line \in Seq(Characters), NEW i \in 1 .. Len(line), NEW j, j = i - 1,
         NEW p \in Parsers, Parsed(line, j, p), ~p.quoted, ~p.ended
  PROVE  ParserRight(line, i, Sl!Unquoted(line, p, i))
  <1>1. ~p.skips /\ Outer(line, i)
    BY DEF Parsed, Inside
  <1>2. IsCode(line, j) /\ j \in 0 .. Len(line) /\ j \in Nat /\ i = j + 1 /\ i > 0
    BY DEF Parsed
  <1>3. IsComment(line, i) \/ IsCode(line, i)
    <2>1. \A k \in 1 .. i : k \in 1 .. j \/ k = i
      OBVIOUS
    <2> QED BY <1>2, <2>1 DEF IsCode
  <1>4. PICK w : w = Sl!Unquoted(line, p, i)
    OBVIOUS
  <1>5. PICK e : e = Sl!EndArg(p)
    OBVIOUS
  <1>6. /\ ArgsTo(line, j, e.args) /\ e \in Parsers
        /\ e = [p EXCEPT !.args = e.args, !.arg = <<>>, !.started = FALSE]
    BY <1>2, <1>5, EndArgRight
  <1>7. CASE line[i] = Sl!Hash
    <2>1. w = [e EXCEPT !.ended = TRUE]
      BY <1>4, <1>5, <1>7, MarksDiffer DEF Sl!Unquoted
    <2>2. w \in Parsers /\ w.ended /\ w.args = e.args
      BY <1>6, <2>1 DEF Parsers
    <2>3. ~IsCode(line, i)
      <3>1. IsComment(line, i) /\ i \in 1 .. i
        BY <1>1, <1>7 DEF IsComment
      <3> QED BY <3>1 DEF IsCode
    <2>4. ArgsTo(line, i, w.args)
      BY <1>2, <1>6, <2>2, <2>3, ArgsBlank
    <2> QED BY <1>4, <2>2, <2>3, <2>4 DEF ParserRight
  <1>8. CASE line[i] # Sl!Hash
    <2>0. IsCode(line, i)
      BY <1>3, <1>8 DEF IsComment
    <2>1. CASE line[i] = Sl!Space
      <3>1. w = e
        BY <1>4, <1>5, <2>1, MarksDiffer DEF Sl!Unquoted
      <3>2. IsBlank(line, i)
        BY <1>1, <2>1 DEF IsBlank
      <3>3. ArgsTo(line, i, w.args)
        BY <1>2, <1>6, <3>1, <3>2, ArgsBlank
      <3>4. ~w.started /\ w.arg = <<>> /\ ~w.quoted /\ ~w.skips /\ ~w.ended /\ w \in Parsers
        BY <1>1, <1>6, <3>1 DEF Parsers
      <3>5. Outer(line, i + 1)
        BY <1>1, <1>2, <2>1, MarksDiffer, OuterNext
      <3>6. Inside(line, i, w)
        BY <3>4, <3>5 DEF Inside
      <3>7. Parsed(line, i, w)
        BY <2>0, <3>2, <3>3, <3>4, <3>6 DEF Parsed, Waiting
      <3> QED BY <1>4, <3>4, <3>7 DEF ParserRight
    <2>2. CASE line[i] = Sl!QuoteMark
      <3>1. w = [p EXCEPT !.started = TRUE, !.quoted = TRUE]
        BY <1>4, <2>2, MarksDiffer DEF Sl!Unquoted
      <3>2. ~IsBlank(line, i) /\ Means(line, i) = <<>>
        BY <1>1, <2>2, MarksDiffer DEF IsBlank, Means
      <3>3. p.arg \o Means(line, i) = p.arg
        <4>1. p.arg \in Seq(Characters)
          BY DEF Parsers
        <4> QED BY <3>2, <4>1, ConcatEmptySeq
      <3>4. w = [p EXCEPT !.started = TRUE, !.arg = @ \o Means(line, i), !.quoted = TRUE, !.skips = FALSE]
        BY <1>1, <3>1, <3>3 DEF Parsers
      <3>5. w.quoted /\ ~w.skips
        BY <3>4 DEF Parsers
      <3>6. ~Outer(line, i + 1)
        BY <1>1, <1>2, <2>2, OuterNext
      <3>7. Inside(line, i, w)
        BY <3>5, <3>6 DEF Inside
      <3> QED BY <1>4, <2>0, <3>2, <3>4, <3>7, Grown
    <2>3. CASE line[i] # Sl!Space /\ line[i] # Sl!QuoteMark
      <3>1. w = Sl!Save(p, line[i])
        BY <1>4, <1>8, <2>3 DEF Sl!Unquoted
      <3>2. Means(line, i) = IF line[i] = Sl!Variable THEN Value ELSE <<line[i]>>
        BY <1>1, <2>3 DEF Means
      <3>3. w = [p EXCEPT !.started = TRUE, !.arg = @ \o Means(line, i)]
        BY <3>1, <3>2 DEF Sl!Save
      <3>4. w = [p EXCEPT !.started = TRUE, !.arg = @ \o Means(line, i), !.quoted = FALSE, !.skips = FALSE]
        BY <1>1, <3>3 DEF Parsers
      <3>5. ~w.quoted /\ ~w.skips /\ ~IsBlank(line, i)
        BY <2>3, <3>4 DEF Parsers, IsBlank
      <3>6. Outer(line, i + 1)
        BY <1>1, <1>2, <2>3, OuterNext
      <3>7. Inside(line, i, w)
        BY <3>5, <3>6 DEF Inside
      <3> QED BY <1>4, <2>0, <3>4, <3>5, <3>7, Grown
    <2> QED BY <2>1, <2>2, <2>3
  <1> QED BY <1>7, <1>8

\* So the parser is right after each character.
LEMMA StepRight ==
  ASSUME NEW line \in Seq(Characters), NEW i \in 1 .. Len(line), NEW p, ParserRight(line, i - 1, p)
  PROVE  ParserRight(line, i, Sl!Step(line, p, i))
  <1>1. PICK j \in 0 .. Len(line) : j = i - 1
    OBVIOUS
  <1>2. p \in Parsers /\ ParserRight(line, j, p)
    BY <1>1 DEF ParserRight
  <1>3. CASE p.ended
    <2>1. Sl!Step(line, p, i) = p
      BY <1>3 DEF Sl!Step
    <2>2. ~IsCode(line, j) /\ ArgsTo(line, j, p.args)
      BY <1>2, <1>3 DEF ParserRight
    <2>3. ~IsCode(line, i)
      BY <1>1, <2>2 DEF IsCode
    <2>4. j \in Nat /\ i = j + 1
      BY <1>1
    <2>5. ArgsTo(line, i, p.args)
      BY <2>2, <2>3, <2>4, ArgsBlank
    <2> QED BY <1>2, <1>3, <2>1, <2>3, <2>5 DEF ParserRight
  <1>4. CASE ~p.ended
    <2>1. Parsed(line, j, p)
      BY <1>2, <1>4 DEF ParserRight
    <2>2. CASE p.skips
      <3>1. Sl!Step(line, p, i) = [p EXCEPT !.skips = FALSE]
        BY <1>4, <2>2 DEF Sl!Step
      <3> QED BY <1>1, <1>2, <1>4, <2>1, <2>2, <3>1, SecondQuoteRight
    <2>3. CASE ~p.skips /\ p.quoted
      <3>1. Sl!Step(line, p, i) = Sl!Quoted(line, p, i)
        BY <1>4, <2>3 DEF Sl!Step
      <3> QED BY <1>1, <1>2, <1>4, <2>1, <2>3, <3>1, QuotedRight
    <2>4. CASE ~p.skips /\ ~p.quoted
      <3>1. Sl!Step(line, p, i) = Sl!Unquoted(line, p, i)
        BY <1>4, <2>4 DEF Sl!Step
      <3> QED BY <1>1, <1>2, <1>4, <2>1, <2>4, <3>1, UnquotedRight
    <2> QED BY <2>2, <2>3, <2>4
  <1> QED BY <1>3, <1>4

\* The arguments are those of the line.
LEMMA ArgsAreRight ==
  ASSUME NEW line \in Seq(Characters), NEW args, ArgsTo(line, Len(line), args)
  PROVE  /\ Len(args) = Cardinality(Starts(line))
         /\ \A n \in DOMAIN line, m \in DOMAIN line :
              n <= m /\ IsArg(line, n, m) =>
                args[Cardinality({k \in Starts(line) : k <= n})] = Meaning(line, n, m)
  <1>1. PICK len : len = Len(line)
    OBVIOUS
  <1>2. len \in Nat /\ DOMAIN line = 1 .. len
    BY <1>1
  <1>3. StartsTo(line, len) = Starts(line)
    BY <1>2 DEF StartsTo, Starts
  <1>4. ASSUME NEW n \in 1 .. len, NEW m \in 1 .. len, n <= m, IsArg(line, n, m)
        PROVE  args[Cardinality(StartsTo(line, n))] = Meaning(line, n, m)
    <2>1. Run(line, n, m)
      BY <1>4 DEF IsArg, Run
    <2>2. m < len => IsBlank(line, m + 1) \/ IsComment(line, m + 1)
      BY <1>1, <1>4 DEF IsArg
    <2> QED BY <1>1, <2>1, <2>2 DEF ArgsTo
  <1>5. Len(args) = Cardinality(Starts(line))
    BY <1>1, <1>3 DEF ArgsTo
  <1> QED BY <1>2, <1>4, <1>5 DEF StartsTo

\* The arguments of a line are those that it says it has.
LEMMA ParseRight ==
  ASSUME NEW line \in Seq(Characters)
  PROVE  ArgsRight(line, Sl!Parse(line))
  <1>1. PICK len : len = Len(line)
    OBVIOUS
  <1>2. len \in Nat
    BY <1>1
  <1>3. PICK f : /\ f[0] = Sl!NewParser
                 /\ \A n \in 1 .. len : f[n] = Sl!Step(line, f[n - 1], n)
                 /\ Sl!Scan(line) = f[len]
    BY <1>1, <1>2, ScanLoop
  <1>4. \A n \in 0 .. len : ParserRight(line, n, f[n])
    <2> DEFINE Wrong == {n \in 0 .. len : ~ParserRight(line, n, f[n])}
    <2> SUFFICES ASSUME Wrong # {} PROVE FALSE
      OBVIOUS
    <2>1. Wrong \subseteq Nat
      OBVIOUS
    <2>2. PICK n \in Wrong : \A m \in Wrong : n <= m
      BY <2>1, Least
    <2>3. n # 0
      BY <1>3, <2>2, NewParserRight
    <2>4. n \in 1 .. len /\ n - 1 \in 0 .. len /\ n - 1 \notin Wrong
      BY <1>2, <2>2, <2>3
    <2>5. ParserRight(line, n - 1, f[n - 1]) /\ f[n] = Sl!Step(line, f[n - 1], n)
      BY <1>3, <2>4
    <2>6. ParserRight(line, n, f[n])
      BY <1>1, <2>4, <2>5, StepRight
    <2> QED BY <2>2, <2>6
  <1>5. PICK p : p = Sl!Scan(line)
    OBVIOUS
  <1>6. p \in Parsers /\ ParserRight(line, len, p)
    BY <1>2, <1>3, <1>4, <1>5 DEF ParserRight
  <1>7. PICK r : r = Sl!Parse(line)
    OBVIOUS
  <1>8. r = IF p.ended THEN p.args ELSE IF p.quoted THEN Sl!Unterminated ELSE Sl!EndArg(p).args
    BY <1>5, <1>7 DEF Sl!Parse
  <1>9. CASE p.ended
    <2>1. ~IsCode(line, len) /\ ArgsTo(line, len, r)
      BY <1>6, <1>8, <1>9 DEF ParserRight
    <2> QED BY <1>1, <1>7, <2>1, ArgsAreRight DEF ArgsRight
  <1>10. CASE ~p.ended
    <2>1. Parsed(line, len, p)
      BY <1>6, <1>10 DEF ParserRight
    <2>2. IsCode(line, len) /\ (p.quoted <=> ~Outer(line, len + 1))
      BY <1>1, <1>2, <2>1 DEF Parsed, Inside
    <2>3. CASE p.quoted
      BY <1>1, <1>7, <1>8, <1>10, <2>2, <2>3 DEF ArgsRight
    <2>4. CASE ~p.quoted
      <3>1. len \in 0 .. Len(line)
        BY <1>1, <1>2
      <3>2. ArgsTo(line, len, r)
        BY <1>6, <1>8, <1>10, <2>1, <2>4, <3>1, EndArgRight
      <3> QED BY <1>1, <1>7, <2>2, <2>4, <3>2, ArgsAreRight DEF ArgsRight
    <2> QED BY <2>3, <2>4
  <1> QED BY <1>9, <1>10

\* The sequences that are flattened are found again, each after those before it.
Laid(seqs, text, F) ==
  /\ Len(text) \in Nat /\ Len(text) = Len(F[Len(seqs)])
  /\ \A n \in 0 .. Len(seqs) : Len(F[n]) \in 0 .. Len(text)
  /\ \A n \in 1 .. Len(seqs) :
       /\ Len(F[n]) = Len(F[n - 1]) + Len(seqs[n])
       /\ \A k \in 1 .. Len(seqs[n]) : text[Len(F[n - 1]) + k] = seqs[n][k]

\* What the loop joins is laid out so.
LEMMA JoinsAt ==
  ASSUME NEW A, NEW seqs \in Seq(Seq(A)), NEW F, Joins(A, seqs, F)
  PROVE  Laid(seqs, Q!FlattenSeq(seqs), F)
  <1>1. PICK len : len = Len(seqs)
    OBVIOUS
  <1>2. len \in Nat /\ \A n \in 1 .. len : seqs[n] \in Seq(A)
    BY <1>1
  <1>3. /\ F[0] = <<>> /\ Q!FlattenSeq(seqs) = F[len]
        /\ \A n \in 1 .. len : F[n] = F[n - 1] \o seqs[n]
        /\ \A n \in 0 .. len : F[n] \in Seq(A)
    BY <1>1 DEF Joins
  <1>4. \A n \in 0 .. len : Len(F[n]) \in Nat
    BY <1>3, LenProperties
  <1>5. ASSUME NEW n \in 1 .. len
        PROVE  /\ Len(F[n]) = Len(F[n - 1]) + Len(seqs[n]) /\ Len(seqs[n]) \in Nat
               /\ \A k \in 1 .. Len(F[n - 1]) : F[n][k] = F[n - 1][k]
               /\ \A k \in 1 .. Len(seqs[n]) : F[n][Len(F[n - 1]) + k] = seqs[n][k]
    <2>1. PICK s, t : s = F[n - 1] /\ t = seqs[n]
      OBVIOUS
    <2>2. s \in Seq(A) /\ t \in Seq(A) /\ F[n] = s \o t
      <3>1. n - 1 \in 0 .. len
        BY <1>2
      <3> QED BY <1>2, <1>3, <2>1, <3>1
    <2>3. Len(s) \in Nat /\ Len(t) \in Nat
      BY <2>2, LenProperties
    <2>4. /\ Len(F[n]) = Len(s) + Len(t)
          /\ \A k \in 1 .. Len(s) + Len(t) : F[n][k] = IF k <= Len(s) THEN s[k] ELSE t[k - Len(s)]
      BY <2>2, ConcatProperties
    <2>5. \A k \in 1 .. Len(s) : F[n][k] = s[k]
      BY <2>3, <2>4
    <2>6. \A k \in 1 .. Len(t) : F[n][Len(s) + k] = t[k]
      <3> SUFFICES ASSUME NEW k \in 1 .. Len(t) PROVE F[n][Len(s) + k] = t[k]
        OBVIOUS
      <3>1. Len(s) + k \in 1 .. Len(s) + Len(t) /\ ~(Len(s) + k <= Len(s)) /\ (Len(s) + k) - Len(s) = k
        BY <2>3
      <3> QED BY <2>4, <3>1
    <2> QED BY <2>1, <2>3, <2>4, <2>5, <2>6
  <1>6. ASSUME NEW n \in 0 .. len
        PROVE  Len(F[n]) <= Len(F[len]) /\ \A k \in 1 .. Len(F[n]) : F[len][k] = F[n][k]
    <2> DEFINE Wrong ==
                 {m \in n .. len : ~(Len(F[n]) <= Len(F[m]) /\ \A k \in 1 .. Len(F[n]) : F[m][k] = F[n][k])}
    <2>1. Wrong = {}
      <3> SUFFICES ASSUME Wrong # {} PROVE FALSE
        OBVIOUS
      <3>1. Wrong \subseteq Nat
        OBVIOUS
      <3>2. PICK m \in Wrong : \A l \in Wrong : m <= l
        BY <3>1, Least
      <3>3. Len(F[n]) \in Nat /\ m # n
        BY <1>4, <3>2
      <3>4. m \in 1 .. len /\ m - 1 \in n .. len /\ m - 1 \in 0 .. len /\ m - 1 \notin Wrong
        BY <1>2, <3>2, <3>3
      <3>5. Len(F[n]) <= Len(F[m - 1]) /\ \A k \in 1 .. Len(F[n]) : F[m - 1][k] = F[n][k]
        BY <3>4
      <3>6. /\ Len(F[m]) = Len(F[m - 1]) + Len(seqs[m]) /\ Len(seqs[m]) \in Nat
            /\ \A k \in 1 .. Len(F[m - 1]) : F[m][k] = F[m - 1][k]
        BY <1>5, <3>4
      <3>7. Len(F[m - 1]) \in Nat
        BY <1>4, <3>4
      <3>8. Len(F[n]) <= Len(F[m])
        <4>1. \A a, b, c \in Nat : a <= b => a <= b + c
          OBVIOUS
        <4> QED BY <3>3, <3>5, <3>6, <3>7, <4>1
      <3>9. \A k \in 1 .. Len(F[n]) : F[m][k] = F[n][k]
        <4>1. \A k \in 1 .. Len(F[n]) : k \in 1 .. Len(F[m - 1])
          BY <3>3, <3>5, <3>7
        <4> QED BY <3>5, <3>6, <4>1
      <3> QED BY <3>2, <3>8, <3>9
    <2>2. len \in n .. len
      BY <1>2
    <2>3. len \notin Wrong
      BY <2>1
    <2> QED BY <2>2, <2>3
  <1>7. \A n \in 0 .. len : Len(F[n]) \in 0 .. Len(F[len])
    BY <1>2, <1>4, <1>6
  <1>8. ASSUME NEW n \in 1 .. len
        PROVE  /\ Len(F[n]) = Len(F[n - 1]) + Len(seqs[n])
               /\ \A k \in 1 .. Len(seqs[n]) : F[len][Len(F[n - 1]) + k] = seqs[n][k]
    <2>1. n \in 0 .. len /\ n - 1 \in 0 .. len
      BY <1>2
    <2>2. PICK b, c : b = Len(F[n - 1]) /\ c = Len(seqs[n])
      OBVIOUS
    <2>3. b \in Nat /\ c \in Nat /\ Len(F[n]) = b + c
      BY <1>4, <1>5, <2>1, <2>2
    <2>4. \A k \in 1 .. c : b + k \in 1 .. Len(F[n])
      BY <2>3
    <2>5. \A k \in 1 .. c : F[len][b + k] = F[n][b + k]
      BY <1>6, <2>1, <2>4
    <2>6. \A k \in 1 .. c : F[n][b + k] = seqs[n][k]
      BY <1>5, <2>2
    <2> QED BY <2>2, <2>3, <2>5, <2>6
  <1>9. Len(F[len]) \in Nat
    BY <1>2, <1>4
  <1>10. Laid(seqs, F[len], F)
    BY <1>1, <1>7, <1>8, <1>9 DEF Laid
  <1> QED BY <1>3, <1>10

\* A line has this text after character a.
Spells(line, a, text) ==
  a \in Nat /\ a + Len(text) <= Len(line) /\ \A k \in 1 .. Len(text) : line[a + k] = text[k]

\* The parser between the arguments, and inside quotes.
Fresh(w, args) ==
  /\ w \in Parsers /\ ~w.started /\ ~w.quoted /\ ~w.skips /\ ~w.ended
  /\ w.args = args /\ w.arg = <<>>
InWord(w, args, arg) ==
  /\ w \in Parsers /\ w.started /\ w.quoted /\ ~w.skips /\ ~w.ended
  /\ w.args = args /\ w.arg = arg

\* What the parser does with line, character by character.
Follow(line, f) == \A n \in 1 .. Len(line) : f[n] = Sl!Step(line, f[n - 1], n)

\* A character of a word, as it is written between quotes.
Doubled(c) == IF c = Sl!QuoteMark THEN <<Sl!QuoteMark, Sl!QuoteMark>> ELSE <<c>>

\* Inside quotes a character is scanned as it was written.
LEMMA CharScanned ==
  ASSUME NEW line, Len(line) \in Nat, NEW f, Follow(line, f), NEW c \in Characters, NEW b,
         Spells(line, b, Doubled(c)), NEW args, NEW arg, InWord(f[b], args, arg)
  PROVE  InWord(f[b + Len(Doubled(c))], args, arg \o <<c>>)
  <1>0. PICK u : u = arg \o <<c>>
    OBVIOUS
  <1>1. b \in Nat /\ b + Len(Doubled(c)) <= Len(line)
    BY DEF Spells
  <1>2. PICK w : w = f[b]
    OBVIOUS
  <1>3. /\ w \in Parsers /\ w.started /\ w.quoted /\ ~w.skips /\ ~w.ended
        /\ w.args = args /\ w.arg = arg
    BY <1>2 DEF InWord
  <1>s. u \in Seq(Characters)
    <2>1. arg \in Seq(Characters) /\ <<c>> \in Seq(Characters)
      BY <1>3 DEF Parsers
    <2> QED BY <1>0, <2>1, ConcatProperties
  <1>4. PICK v : v = Sl!Save(w, c)
    OBVIOUS
  <1>5. v = [w EXCEPT !.started = TRUE, !.arg = u]
    BY <1>0, <1>3, <1>4 DEF Sl!Save
  <1>6. InWord(v, args, u)
    BY <1>3, <1>s, <1>5 DEF InWord, Parsers
  <1>7. CASE c # Sl!QuoteMark
    <2>1. Doubled(c) = <<c>> /\ Len(Doubled(c)) = 1 /\ b + 1 <= Len(line) /\ line[b + 1] = c
      <3>1. Doubled(c) = <<c>> /\ Len(<<c>>) = 1 /\ <<c>>[1] = c
        BY <1>7 DEF Doubled
      <3> QED BY <1>1, <3>1 DEF Spells
    <2>2. f[b + 1] = Sl!Step(line, w, b + 1)
      BY <1>1, <1>2, <2>1 DEF Follow
    <2>3. Sl!Step(line, w, b + 1) = v
      BY <1>3, <1>4, <1>7, <2>1 DEF Sl!Step, Sl!Quoted
    <2> QED BY <1>0, <1>6, <2>1, <2>2, <2>3
  <1>8. CASE c = Sl!QuoteMark
    <2>1. /\ Len(Doubled(c)) = 2 /\ b + 2 <= Len(line)
          /\ line[b + 1] = Sl!QuoteMark /\ line[b + 2] = Sl!QuoteMark
      <3>1. /\ Doubled(c) = <<c, c>> /\ Len(<<c, c>>) = 2 /\ <<c, c>>[1] = c /\ <<c, c>>[2] = c
        BY <1>8 DEF Doubled
      <3> QED BY <1>1, <1>8, <3>1 DEF Spells
    <2>2. f[b + 1] = Sl!Step(line, w, b + 1)
      BY <1>1, <1>2, <2>1 DEF Follow
    <2>3. Sl!Step(line, w, b + 1) = [v EXCEPT !.skips = TRUE]
      <3>1. b + 1 < Len(line) /\ (b + 1) + 1 = b + 2
        BY <1>1, <2>1
      <3> QED BY <1>3, <1>4, <1>8, <2>1, <3>1 DEF Sl!Step, Sl!Quoted
    <2>4. PICK t : t = [v EXCEPT !.skips = TRUE]
      OBVIOUS
    <2>5. f[b + 2] = Sl!Step(line, t, b + 2)
      <3>1. b + 2 \in 1 .. Len(line) /\ (b + 2) - 1 = b + 1
        BY <1>1, <2>1
      <3> QED BY <2>2, <2>3, <2>4, <3>1 DEF Follow
    <2>6. t.skips /\ ~t.ended
      BY <1>6, <2>4 DEF InWord, Parsers
    <2>7. f[b + 2] = [t EXCEPT !.skips = FALSE]
      BY <2>5, <2>6 DEF Sl!Step
    <2>8. InWord([t EXCEPT !.skips = FALSE], args, u)
      BY <1>6, <2>4 DEF InWord, Parsers
    <2> QED BY <1>0, <2>1, <2>7, <2>8
  <1> QED BY <1>7, <1>8

\* So are all characters of a word,
LEMMA CharsScanned ==
  ASSUME NEW line, Len(line) \in Nat, NEW f, Follow(line, f), NEW word \in Seq(Characters), NEW b,
         NEW code, code = [n \in DOMAIN word |-> Doubled(word[n])],
         Spells(line, b, Q!FlattenSeq(code)), NEW args, InWord(f[b], args, <<>>)
  PROVE  InWord(f[b + Len(Q!FlattenSeq(code))], args, word)
  <1> DEFINE A == Characters \cup {Sl!QuoteMark}
  <1>1. PICK len : len = Len(word)
    OBVIOUS
  <1>2. len \in Nat /\ DOMAIN word = 1 .. len /\ \A n \in 1 .. len : word[n] \in Characters
    BY <1>1
  <1>3. code \in Seq(Seq(A)) /\ Len(code) = len /\ \A n \in 1 .. len : code[n] = Doubled(word[n])
    <2>1. \A n \in 1 .. len : Doubled(word[n]) \in Seq(A)
      <3> SUFFICES ASSUME NEW n \in 1 .. len PROVE Doubled(word[n]) \in Seq(A)
        OBVIOUS
      <3>1. word[n] \in A /\ Sl!QuoteMark \in A
        BY <1>2
      <3>2. <<word[n]>> \in Seq(A) /\ <<Sl!QuoteMark, Sl!QuoteMark>> \in Seq(A)
        BY <3>1
      <3> QED BY <3>2 DEF Doubled
    <2> HIDE DEF A
    <2> QED BY <1>2, <2>1
  <1> HIDE DEF A
  <1>4. PICK F : Joins(A, code, F)
    BY <1>3, FlattenJoins
  <1>5. PICK e : e = Q!FlattenSeq(code)
    OBVIOUS
  <1>6. /\ Len(e) = Len(F[len])
        /\ \A n \in 0 .. len : Len(F[n]) \in 0 .. Len(e)
        /\ \A n \in 1 .. len :
             /\ Len(F[n]) = Len(F[n - 1]) + Len(code[n])
             /\ \A k \in 1 .. Len(code[n]) : e[Len(F[n - 1]) + k] = code[n][k]
    <2>1. Laid(code, e, F)
      BY <1>3, <1>4, <1>5, JoinsAt
    <2> QED BY <1>3, <2>1 DEF Laid
  <1>l. Len(e) \in Nat
    <2>1. e \in Seq(A)
      BY <1>2, <1>3, <1>4, <1>5 DEF Joins
    <2> QED BY <2>1
  <1>7. b \in Nat /\ b + Len(e) <= Len(line) /\ \A k \in 1 .. Len(e) : line[b + k] = e[k]
    BY <1>5 DEF Spells
  <1>8. \A n \in 0 .. len : InWord(f[b + Len(F[n])], args, SubSeq(word, 1, n))
    <2> DEFINE Wrong == {n \in 0 .. len : ~InWord(f[b + Len(F[n])], args, SubSeq(word, 1, n))}
    <2> SUFFICES ASSUME Wrong # {} PROVE FALSE
      OBVIOUS
    <2>1. Wrong \subseteq Nat
      OBVIOUS
    <2>2. PICK n \in Wrong : \A m \in Wrong : n <= m
      BY <2>1, Least
    <2>3. n # 0
      <3>1. Len(F[0]) = 0 /\ SubSeq(word, 1, 0) = <<>> /\ b + 0 = b
        BY <1>4, <1>7, SubSeqEmpty DEF Joins
      <3>2. InWord(f[b + Len(F[0])], args, SubSeq(word, 1, 0))
        BY <3>1
      <3> QED BY <2>2, <3>2
    <2>4. n \in 1 .. len /\ n \in 0 .. len /\ n - 1 \in 0 .. len /\ n - 1 \notin Wrong
      BY <1>2, <2>2, <2>3
    <2>5. PICK a, k, c : a = b + Len(F[n - 1]) /\ k = Len(F[n - 1]) /\ c = word[n]
      OBVIOUS
    <2>6. PICK s, t : s = SubSeq(word, 1, n - 1) /\ t = SubSeq(word, 1, n)
      OBVIOUS
    <2>7. InWord(f[a], args, s)
      BY <2>4, <2>5, <2>6
    <2>8. t = s \o <<c>> /\ c \in Characters
      <3>1. 1 \in 1 .. Len(word) /\ n \in 1 .. Len(word)
        BY <1>1, <1>2, <2>4
      <3> QED BY <1>2, <2>4, <2>5, <2>6, <3>1, SubSeqRecursiveSecond
    <2>9. PICK d : d = Len(Doubled(c))
      OBVIOUS
    <2>10. /\ d \in Nat /\ Len(F[n]) = k + d /\ k \in Nat /\ k + d <= Len(e)
           /\ \A i \in 1 .. d : e[k + i] = Doubled(c)[i]
      <3>1. d \in Nat
        <4>1. <<c>> \in Seq({c}) /\ Len(<<c>>) = 1 /\ Len(<<Sl!QuoteMark, Sl!QuoteMark>>) = 2
          OBVIOUS
        <4> QED BY <2>9, <4>1 DEF Doubled
      <3>2. k \in Nat /\ Len(F[n]) \in 0 .. Len(e)
        BY <1>6, <2>4, <2>5
      <3>3. Len(F[n]) = k + d /\ \A i \in 1 .. d : e[k + i] = Doubled(c)[i]
        BY <1>3, <1>6, <2>4, <2>5, <2>9
      <3> QED BY <3>1, <3>2, <3>3
    <2>11. Spells(line, a, Doubled(c))
      <3>1. a \in Nat /\ a = b + k /\ a + d <= Len(line)
        BY <1>7, <2>5, <2>10, SMTT(30)
      <3>2. ASSUME NEW i \in 1 .. d PROVE line[a + i] = Doubled(c)[i]
        <4>1. k + i \in 1 .. Len(e) /\ b + (k + i) = a + i
          BY <1>7, <1>l, <2>10, <3>1
        <4>2. line[b + (k + i)] = e[k + i]
          BY <1>7, <4>1
        <4> QED BY <2>10, <4>1, <4>2
      <3> QED BY <2>9, <3>1, <3>2 DEF Spells
    <2>12. InWord(f[a + d], args, t)
      BY <2>7, <2>8, <2>9, <2>11, CharScanned
    <2>13. a + d = b + Len(F[n])
      BY <1>7, <2>5, <2>10
    <2> QED BY <2>2, <2>6, <2>12, <2>13
  <1>9. SubSeq(word, 1, len) = word
    BY <1>1, SubSeqFull
  <1>10. InWord(f[b + Len(F[len])], args, SubSeq(word, 1, len))
    BY <1>2, <1>8
  <1> QED BY <1>5, <1>6, <1>9, <1>10

\* What a word between quotes with a space behind it is made of.
Written == Characters \cup {Sl!QuoteMark, Sl!Space}
IsWritten(word, text, e) ==
  /\ text \in Seq(Written) /\ e \in Seq(Written)
  /\ e = Q!FlattenSeq([n \in DOMAIN word |-> Doubled(word[n])])
  /\ Len(text) = Len(e) + 3
  /\ text[1] = Sl!QuoteMark /\ text[Len(e) + 2] = Sl!QuoteMark /\ text[Len(e) + 3] = Sl!Space
  /\ \A k \in 1 .. Len(e) : text[1 + k] = e[k]

\* A word between quotes and the blank after it.
LEMMA WrittenIs ==
  ASSUME NEW word \in Seq(Characters), NEW text, text = InQuotes(word) \o <<Sl!Space>>
  PROVE  \E e : IsWritten(word, text, e)
  <1> DEFINE A == Characters \cup {Sl!QuoteMark, Sl!Space}
  <1>1. PICK code : code = [n \in DOMAIN word |-> Doubled(word[n])]
    OBVIOUS
  <1>2. PICK e : e = Q!FlattenSeq(code)
    OBVIOUS
  <1>3. text = (<<Sl!QuoteMark>> \o e \o <<Sl!QuoteMark>>) \o <<Sl!Space>>
    BY <1>1, <1>2 DEF InQuotes, Doubled
  <1>4. e \in Seq(A)
    <2>1. \A n \in 1 .. Len(word) : Doubled(word[n]) \in Seq(A)
      <3> SUFFICES ASSUME NEW n \in 1 .. Len(word) PROVE Doubled(word[n]) \in Seq(A)
        OBVIOUS
      <3>1. word[n] \in A /\ Sl!QuoteMark \in A
        OBVIOUS
      <3>2. <<word[n]>> \in Seq(A) /\ <<Sl!QuoteMark, Sl!QuoteMark>> \in Seq(A)
        BY <3>1
      <3> QED BY <3>2 DEF Doubled
    <2> HIDE DEF A
    <2>2. code \in Seq(Seq(A)) /\ Len(code) \in Nat
      BY <1>1, <2>1
    <2>3. PICK F : Joins(A, code, F)
      BY <2>2, FlattenJoins
    <2>4. Len(code) \in 0 .. Len(code)
      BY <2>2
    <2> QED BY <1>2, <2>3, <2>4 DEF Joins
  <1>5. PICK l : l = Len(e)
    OBVIOUS
  <1>6. l \in Nat
    BY <1>4, <1>5
  <1>7. /\ text \in Seq(A) /\ Len(text) = l + 3 /\ text[1] = Sl!QuoteMark /\ text[l + 2] = Sl!QuoteMark
        /\ text[l + 3] = Sl!Space /\ \A k \in 1 .. l : text[1 + k] = e[k]
    <2>1. /\ <<Sl!QuoteMark>> \in Seq(A) /\ Len(<<Sl!QuoteMark>>) = 1 /\ <<Sl!QuoteMark>>[1] = Sl!QuoteMark
          /\ <<Sl!Space>> \in Seq(A) /\ Len(<<Sl!Space>>) = 1 /\ <<Sl!Space>>[1] = Sl!Space
      OBVIOUS
    <2> HIDE DEF A
    <2>2. PICK r : r = <<Sl!QuoteMark>> \o e
      OBVIOUS
    <2>3. r \in Seq(A) /\ Len(r) = 1 + l /\ r[1] = Sl!QuoteMark /\ \A k \in 1 .. l : r[1 + k] = e[k]
      <3>1. /\ r \in Seq(A) /\ Len(r) = 1 + l
            /\ \A i \in 1 .. 1 + l : r[i] = IF i <= 1 THEN <<Sl!QuoteMark>>[i] ELSE e[i - 1]
        BY <1>4, <1>5, <2>1, <2>2, ConcatProperties
      <3> QED BY <1>6, <2>1, <3>1
    <2>4. PICK s : s = r \o <<Sl!QuoteMark>>
      OBVIOUS
    <2>5. s \in Seq(A) /\ Len(s) = l + 2 /\ s[l + 2] = Sl!QuoteMark /\ \A k \in 1 .. l + 1 : s[k] = r[k]
      <3>1. /\ s \in Seq(A) /\ Len(s) = (1 + l) + 1
            /\ \A i \in 1 .. (1 + l) + 1 : s[i] = IF i <= 1 + l THEN r[i] ELSE <<Sl!QuoteMark>>[i - (1 + l)]
        BY <2>1, <2>3, <2>4, ConcatProperties
      <3> QED BY <1>6, <2>1, <3>1
    <2>6. /\ text \in Seq(A) /\ Len(text) = l + 3 /\ text[l + 3] = Sl!Space /\ \A k \in 1 .. l + 2 : text[k] = s[k]
      <3>1. PICK z : z = <<Sl!Space>>
        OBVIOUS
      <3>2. text = s \o z
        BY <1>3, <2>2, <2>4, <3>1
      <3>3. s \in Seq(A) /\ z \in Seq(A) /\ Len(s) = l + 2 /\ Len(z) = 1 /\ z[1] = Sl!Space
        BY <2>1, <2>5, <3>1
      <3>4. /\ text \in Seq(A) /\ Len(text) = Len(s) + Len(z)
            /\ \A i \in 1 .. Len(s) + Len(z) : text[i] = IF i <= Len(s) THEN s[i] ELSE z[i - Len(s)]
        BY ONLY <3>2, <3>3, ConcatProperties
      <3> QED BY ONLY <1>6, <3>3, <3>4
    <2>7. text[1] = Sl!QuoteMark
      <3>1. 1 \in 1 .. l + 1 /\ 1 \in 1 .. l + 2
        BY ONLY <1>6
      <3> QED BY ONLY <2>3, <2>5, <2>6, <3>1
    <2>8. text[l + 2] = Sl!QuoteMark
      <3>1. l + 2 \in 1 .. l + 2
        BY ONLY <1>6
      <3> QED BY ONLY <2>5, <2>6, <3>1
    <2>9. ASSUME NEW k \in 1 .. l PROVE text[1 + k] = e[k]
      <3>1. 1 + k \in 1 .. l + 1 /\ 1 + k \in 1 .. l + 2
        BY ONLY <1>6, k \in 1 .. l
      <3> QED BY ONLY <2>3, <2>5, <2>6, <3>1, k \in 1 .. l
    <2> QED BY ONLY <2>6, <2>7, <2>8, <2>9
  <1> QED BY <1>1, <1>2, <1>4, <1>5, <1>7 DEF IsWritten, Written

\* and a word with the quotes around it and the space behind it is one argument.
LEMMA WordScanned ==
  ASSUME NEW line, Len(line) \in Nat, NEW f, Follow(line, f), NEW word \in Seq(Characters), NEW b,
         NEW text, text = InQuotes(word) \o <<Sl!Space>>, Spells(line, b, text),
         NEW args \in Seq(Seq(Characters)), Fresh(f[b], args)
  PROVE  Fresh(f[b + Len(text)], Append(args, word))
  <1>1. PICK e : IsWritten(word, text, e)
    BY WrittenIs
  <1>2. PICK code : code = [n \in DOMAIN word |-> Doubled(word[n])]
    OBVIOUS
  <1>3. e = Q!FlattenSeq(code)
    BY <1>1, <1>2 DEF IsWritten
  <1>5. PICK l : l = Len(e)
    OBVIOUS
  <1>6. l \in Nat
    BY <1>1, <1>5 DEF IsWritten
  <1>7. /\ Len(text) = l + 3 /\ text[1] = Sl!QuoteMark /\ text[l + 2] = Sl!QuoteMark
        /\ text[l + 3] = Sl!Space /\ \A k \in 1 .. l : text[1 + k] = e[k]
    BY <1>1, <1>5 DEF IsWritten
  <1>8. b \in Nat /\ b + (l + 3) <= Len(line) /\ \A k \in 1 .. l + 3 : line[b + k] = text[k]
    BY <1>7 DEF Spells
  <1>9. InWord(f[b + 1], args, <<>>)
    <2>1. PICK w : w = f[b]
      OBVIOUS
    <2>2. f[b + 1] = Sl!Step(line, w, b + 1) /\ line[b + 1] = Sl!QuoteMark
      BY <1>6, <1>7, <1>8, <2>1 DEF Follow
    <2>3. w \in Parsers /\ ~w.started /\ ~w.quoted /\ ~w.skips /\ ~w.ended /\ w.args = args /\ w.arg = <<>>
      BY <2>1 DEF Fresh
    <2>4. f[b + 1] = [w EXCEPT !.started = TRUE, !.quoted = TRUE]
      BY <2>2, <2>3, MarksDiffer DEF Sl!Step, Sl!Unquoted
    <2> QED BY <2>3, <2>4 DEF InWord, Parsers
  <1>10. Spells(line, b + 1, e)
    <2>1. ASSUME NEW k \in 1 .. l PROVE line[(b + 1) + k] = e[k]
      <3>1. 1 + k \in 1 .. l + 3 /\ b + (1 + k) = (b + 1) + k
        BY <1>6, <1>8
      <3>2. line[b + (1 + k)] = text[1 + k]
        BY <1>8, <3>1
      <3> QED BY <1>7, <3>1, <3>2
    <2>2. b + 1 \in Nat /\ (b + 1) + l <= Len(line)
      BY <1>6, <1>8
    <2> QED BY <1>5, <2>1, <2>2 DEF Spells
  <1>11. PICK c : c = b + 1 + l
    OBVIOUS
  <1>12. InWord(f[c], args, word)
    BY <1>2, <1>3, <1>5, <1>9, <1>10, <1>11, CharsScanned
  <1>13. c \in Nat /\ c + 2 <= Len(line) /\ line[c + 1] = Sl!QuoteMark /\ line[c + 2] = Sl!Space
    <2>1. l + 2 \in 1 .. l + 3 /\ l + 3 \in 1 .. l + 3 /\ b + (l + 2) = c + 1 /\ b + (l + 3) = c + 2
      BY <1>6, <1>8, <1>11
    <2>2. c \in Nat /\ c + 2 <= Len(line)
      BY <1>6, <1>8, <1>11
    <2> QED BY <1>7, <1>8, <2>1, <2>2
  <1>14. PICK v : v = f[c]
    OBVIOUS
  <1>15. v \in Parsers /\ v.started /\ v.quoted /\ ~v.skips /\ ~v.ended /\ v.args = args /\ v.arg = word
    BY <1>12, <1>14 DEF InWord
  <1>16. PICK w : w = f[c + 1]
    OBVIOUS
  <1>17. w = [v EXCEPT !.quoted = FALSE]
    <2>1. w = Sl!Step(line, v, c + 1)
      BY <1>13, <1>14, <1>16 DEF Follow
    <2>2. line[(c + 1) + 1] # Sl!QuoteMark
      <3>1. (c + 1) + 1 = c + 2
        BY <1>13
      <3> QED BY <1>13, <3>1, MarksDiffer
    <2> QED BY <1>13, <1>15, <2>1, <2>2 DEF Sl!Step, Sl!Quoted
  <1>18. w \in Parsers /\ w.started /\ ~w.quoted /\ ~w.skips /\ ~w.ended /\ w.args = args /\ w.arg = word
    BY <1>15, <1>17 DEF Parsers
  <1>19. PICK x : x = f[c + 2]
    OBVIOUS
  <1>20. x = [w EXCEPT !.args = Append(@, w.arg), !.arg = <<>>, !.started = FALSE]
    <2>1. x = Sl!Step(line, w, c + 2)
      <3>1. c + 2 \in 1 .. Len(line) /\ (c + 2) - 1 = c + 1
        BY <1>13
      <3> QED BY <1>16, <1>19, <3>1 DEF Follow
    <2>2. x = Sl!EndArg(w)
      BY <1>13, <1>18, <2>1, MarksDiffer DEF Sl!Step, Sl!Unquoted
    <2> QED BY <1>18, <2>2 DEF Sl!EndArg
  <1>21. Append(args, word) \in Seq(Seq(Characters)) /\ <<>> \in Seq(Characters)
    <2>1. PICK T : T = Seq(Characters)
      OBVIOUS
    <2>2. args \in Seq(T) /\ word \in T /\ <<>> \in T
      BY <2>1, EmptySeq
    <2> QED BY <2>1, <2>2, AppendProperties
  <1>22. Fresh(x, Append(args, word))
    BY <1>18, <1>20, <1>21 DEF Fresh, Parsers
  <1>23. b + Len(text) = c + 2
    <2>1. Len(text) = l + 3 /\ b \in Nat /\ l \in Nat /\ c = b + 1 + l
      BY <1>6, <1>7, <1>8, <1>11
    <2> QED BY ONLY <2>1
  <1> QED BY <1>19, <1>22, <1>23

\* So are all words.
LEMMA WordsScanned ==
  ASSUME NEW words \in Seq(Seq(Characters))
  PROVE  Sl!Parse(AllInQuotes(words)) = words
  <1> DEFINE A == Written
             Text(n) == InQuotes(words[n]) \o <<Sl!Space>>
  <1>1. PICK len : len = Len(words)
    OBVIOUS
  <1>2. len \in Nat /\ DOMAIN words = 1 .. len /\ \A n \in 1 .. len : words[n] \in Seq(Characters)
    BY <1>1
  <1>3. PICK texts : texts = [n \in DOMAIN words |-> Text(n)]
    OBVIOUS
  <1>4. PICK line : line = AllInQuotes(words)
    OBVIOUS
  <1>5. line = Q!FlattenSeq(texts)
    BY <1>3, <1>4 DEF AllInQuotes
  <1>6. \A n \in 1 .. len : Text(n) \in Seq(A)
    <2> SUFFICES ASSUME NEW n \in 1 .. len PROVE Text(n) \in Seq(A)
      OBVIOUS
    <2>1. PICK word \in Seq(Characters) : word = words[n]
      BY <1>2
    <2> QED BY <2>1, WrittenIs DEF IsWritten
  <1> HIDE DEF A, Text
  <1>7. texts \in Seq(Seq(A)) /\ Len(texts) = len /\ \A n \in 1 .. len : texts[n] = Text(n)
    BY <1>2, <1>3, <1>6
  <1>8. PICK F : Joins(A, texts, F)
    BY <1>7, FlattenJoins
  <1>9. /\ Len(line) = Len(F[len])
        /\ \A n \in 0 .. len : Len(F[n]) \in 0 .. Len(line)
        /\ \A n \in 1 .. len :
             /\ Len(F[n]) = Len(F[n - 1]) + Len(texts[n])
             /\ \A k \in 1 .. Len(texts[n]) : line[Len(F[n - 1]) + k] = texts[n][k]
    <2>1. Laid(texts, line, F)
      BY <1>5, <1>7, <1>8, JoinsAt
    <2> QED BY <1>7, <2>1 DEF Laid
  <1>10. Len(line) \in Nat
    <2>1. line \in Seq(A)
      BY <1>2, <1>5, <1>7, <1>8 DEF Joins
    <2> QED BY <2>1
  <1>11. PICK f : /\ f[0] = Sl!NewParser
                  /\ \A n \in 1 .. Len(line) : f[n] = Sl!Step(line, f[n - 1], n)
                  /\ Sl!Scan(line) = f[Len(line)]
    BY <1>10, ScanLoop
  <1>12. Follow(line, f)
    BY <1>11 DEF Follow
  <1>13. \A n \in 0 .. len : Fresh(f[Len(F[n])], SubSeq(words, 1, n))
    <2> DEFINE Wrong == {n \in 0 .. len : ~Fresh(f[Len(F[n])], SubSeq(words, 1, n))}
    <2> SUFFICES ASSUME Wrong # {} PROVE FALSE
      OBVIOUS
    <2>1. Wrong \subseteq Nat
      OBVIOUS
    <2>2. PICK n \in Wrong : \A m \in Wrong : n <= m
      BY <2>1, Least
    <2>3. n # 0
      <3>1. Len(F[0]) = 0 /\ SubSeq(words, 1, 0) = <<>>
        BY <1>8, SubSeqEmpty DEF Joins
      <3>2. PICK p : p = Sl!NewParser
        OBVIOUS
      <3>3. p = [args |-> <<>>, arg |-> <<>>, started |-> FALSE, quoted |-> FALSE,
                 skips |-> FALSE, ended |-> FALSE]
        BY <3>2 DEF Sl!NewParser
      <3>4. Fresh(p, <<>>)
        BY <3>3, EmptySeq DEF Fresh, Parsers
      <3>5. Fresh(f[Len(F[0])], SubSeq(words, 1, 0))
        BY <1>11, <3>1, <3>2, <3>4
      <3> QED BY <2>2, <3>5
    <2>4. n \in 1 .. len /\ n \in 0 .. len /\ n - 1 \in 0 .. len /\ n - 1 \notin Wrong
      BY <1>2, <2>2, <2>3
    <2>5. PICK b, word, text : b = Len(F[n - 1]) /\ word = words[n] /\ text = texts[n]
      OBVIOUS
    <2>6. PICK s, t : s = SubSeq(words, 1, n - 1) /\ t = SubSeq(words, 1, n)
      OBVIOUS
    <2>7. Fresh(f[b], s)
      BY <2>4, <2>5, <2>6
    <2>8. t = Append(s, word) /\ word \in Seq(Characters) /\ s \in Seq(Seq(Characters))
      <3>1. PICK T : T = Seq(Characters)
        OBVIOUS
      <3>2. words \in Seq(T) /\ 1 \in 1 .. Len(words) /\ n \in 1 .. Len(words)
        BY <1>1, <1>2, <2>4, <3>1
      <3>3. t = s \o <<word>>
        BY <2>5, <2>6, <3>2, SubSeqRecursiveSecond
      <3>4. \A i \in 1 .. n - 1 : words[i] \in T
        BY <1>2, <2>4, <3>1
      <3>5. s \in Seq(T)
        <4>1. 1 \in Int /\ n - 1 \in Int
          BY <2>4
        <4> QED BY <2>6, <3>4, <4>1, SubSeqProperties
      <3>6. word \in T
        BY <1>2, <2>4, <2>5, <3>1
      <3>7. Append(s, word) = s \o <<word>>
        BY <3>5, <3>6, AppendIsConcat
      <3> QED BY <3>1, <3>3, <3>5, <3>6, <3>7
    <2>9. text = InQuotes(word) \o <<Sl!Space>>
      BY <1>7, <2>4, <2>5 DEF Text
    <2>10. b \in Nat /\ Len(F[n]) = b + Len(text) /\ Len(F[n]) <= Len(line)
      <3>1. b \in 0 .. Len(line) /\ Len(F[n]) \in 0 .. Len(line)
        BY <1>9, <2>4, <2>5
      <3>2. Len(F[n]) = b + Len(text)
        BY <1>9, <2>4, <2>5
      <3> QED BY <1>10, <3>1, <3>2
    <2>11. Spells(line, b, text)
      BY <1>9, <2>4, <2>5, <2>10 DEF Spells
    <2>12. Fresh(f[b + Len(text)], t)
      BY <1>10, <1>12, <2>7, <2>8, <2>9, <2>11, WordScanned
    <2> QED BY <2>2, <2>6, <2>10, <2>12
  <1>14. SubSeq(words, 1, len) = words
    BY <1>1, SubSeqFull
  <1>15. PICK p : p = Sl!Scan(line)
    OBVIOUS
  <1>16. Fresh(p, words)
    <2>1. len \in 0 .. len /\ p = f[Len(F[len])]
      BY <1>2, <1>9, <1>11, <1>15
    <2>2. Fresh(f[Len(F[len])], SubSeq(words, 1, len))
      BY <1>13, <2>1
    <2> QED BY <1>14, <2>1, <2>2
  <1>17. ~p.ended /\ ~p.quoted /\ ~p.started /\ p.args = words
    BY <1>16 DEF Fresh
  <1>18. Sl!EndArg(p) = p
    BY <1>17 DEF Sl!EndArg
  <1> QED BY <1>4, <1>15, <1>17, <1>18 DEF Sl!Parse

\* When what two texts have from some place on is the same.
SameRests(a, b, k, l) ==
  /\ Len(a) - k = Len(b) - l
  /\ \A i \in 0 .. Len(a) - k : a[k + i] = b[l + i]

\* So it is if they are as long, and agree at each place.
LEMMA RestsEqual ==
  ASSUME NEW A, NEW a \in Seq(A), NEW b \in Seq(A), NEW k \in 1 .. Len(a) + 1, NEW l \in 1 .. Len(b) + 1
  PROVE  SubSeq(a, k, Len(a)) = SubSeq(b, l, Len(b)) <=> SameRests(a, b, k, l)
  <1>1. PICK m, n : m = Len(a) /\ n = Len(b)
    OBVIOUS
  <1>2. m \in Nat /\ n \in Nat /\ k \in 1 .. m + 1 /\ l \in 1 .. n + 1
    BY <1>1
  <1>3. PICK r, t : r = SubSeq(a, k, m) /\ t = SubSeq(b, l, n)
    OBVIOUS
  <1>4. r \in Seq(A) /\ Len(r) = m - k + 1 /\ \A i \in 1 .. m - k + 1 : r[i] = a[k + i - 1]
    <2>1. k \in Int /\ m \in Int /\ \A i \in k .. m : a[i] \in A
      BY <1>1, <1>2
    <2>2. /\ r \in Seq(A) /\ Len(r) = (IF k <= m THEN m - k + 1 ELSE 0)
          /\ \A i \in 1 .. m - k + 1 : r[i] = a[k + i - 1]
      BY <1>3, <2>1, SubSeqProperties
    <2>3. (IF k <= m THEN m - k + 1 ELSE 0) = m - k + 1
      BY <1>2
    <2> QED BY <2>2, <2>3
  <1>5. t \in Seq(A) /\ Len(t) = n - l + 1 /\ \A i \in 1 .. n - l + 1 : t[i] = b[l + i - 1]
    <2>1. l \in Int /\ n \in Int /\ \A i \in l .. n : b[i] \in A
      BY <1>1, <1>2
    <2>2. /\ t \in Seq(A) /\ Len(t) = (IF l <= n THEN n - l + 1 ELSE 0)
          /\ \A i \in 1 .. n - l + 1 : t[i] = b[l + i - 1]
      BY <1>3, <2>1, SubSeqProperties
    <2>3. (IF l <= n THEN n - l + 1 ELSE 0) = n - l + 1
      BY <1>2
    <2> QED BY <2>2, <2>3
  <1>6. ASSUME r = t PROVE m - k = n - l /\ \A i \in 0 .. m - k : a[k + i] = b[l + i]
    <2>1. m - k = n - l
      BY <1>2, <1>4, <1>5, <1>6
    <2>2. ASSUME NEW i \in 0 .. m - k PROVE a[k + i] = b[l + i]
      <3>1. i + 1 \in 1 .. m - k + 1 /\ i + 1 \in 1 .. n - l + 1
        BY <1>2, <2>1
      <3>2. k + (i + 1) - 1 = k + i /\ l + (i + 1) - 1 = l + i
        BY <1>2
      <3>3. r[i + 1] = a[k + i] /\ t[i + 1] = b[l + i]
        BY <1>4, <1>5, <3>1, <3>2
      <3> QED BY <1>6, <3>3
    <2> QED BY <2>1, <2>2
  <1>7. ASSUME m - k = n - l, \A i \in 0 .. m - k : a[k + i] = b[l + i] PROVE r = t
    <2>1. Len(r) = Len(t)
      BY <1>2, <1>4, <1>5, <1>7
    <2>2. ASSUME NEW i \in 1 .. Len(r) PROVE r[i] = t[i]
      <3>1. i \in 1 .. m - k + 1 /\ i \in 1 .. n - l + 1 /\ i - 1 \in 0 .. m - k
        BY <1>2, <1>4, <1>7
      <3>2. k + (i - 1) = k + i - 1 /\ l + (i - 1) = l + i - 1
        BY <1>2
      <3>3. a[k + (i - 1)] = b[l + (i - 1)]
        BY <1>7, <3>1
      <3> QED BY <1>4, <1>5, <3>1, <3>2, <3>3
    <2> QED BY <1>4, <1>5, <2>1, <2>2, SeqEqual
  <1> QED BY <1>1, <1>3, <1>6, <1>7 DEF SameRests

\* A text without one of its characters.
LEMMA DroppedIs ==
  ASSUME NEW A, NEW s \in Seq(A), NEW n \in 1 .. Len(s)
  PROVE  /\ Dropped(s, n) \in Seq(A) /\ Len(Dropped(s, n)) = Len(s) - 1
         /\ \A i \in 1 .. n - 1 : Dropped(s, n)[i] = s[i]
         /\ \A i \in n .. Len(s) - 1 : Dropped(s, n)[i] = s[i + 1]
  <1>1. PICK m : m = Len(s)
    OBVIOUS
  <1>2. m \in Nat /\ n \in 1 .. m /\ \A i \in 1 .. m : s[i] \in A
    BY <1>1
  <1>3. PICK r, t : r = SubSeq(s, 1, n - 1) /\ t = SubSeq(s, n + 1, m)
    OBVIOUS
  <1>4. r \in Seq(A) /\ Len(r) = n - 1 /\ \A i \in 1 .. n - 1 : r[i] = s[i]
    <2>1. 1 \in Int /\ n - 1 \in Int /\ \A i \in 1 .. n - 1 : s[i] \in A
      BY <1>2
    <2>2. /\ r \in Seq(A) /\ Len(r) = (IF 1 <= n - 1 THEN (n - 1) - 1 + 1 ELSE 0)
          /\ \A i \in 1 .. (n - 1) - 1 + 1 : r[i] = s[1 + i - 1]
      BY <1>3, <2>1, SubSeqProperties
    <2>3. (IF 1 <= n - 1 THEN (n - 1) - 1 + 1 ELSE 0) = n - 1 /\ (n - 1) - 1 + 1 = n - 1
      BY <1>2
    <2>4. \A i \in 1 .. n - 1 : 1 + i - 1 = i
      OBVIOUS
    <2> QED BY <2>2, <2>3, <2>4
  <1>5. t \in Seq(A) /\ Len(t) = m - n /\ \A i \in 1 .. m - n : t[i] = s[n + i]
    <2>1. n + 1 \in Int /\ m \in Int /\ \A i \in n + 1 .. m : s[i] \in A
      BY <1>2
    <2>2. /\ t \in Seq(A) /\ Len(t) = (IF n + 1 <= m THEN m - (n + 1) + 1 ELSE 0)
          /\ \A i \in 1 .. m - (n + 1) + 1 : t[i] = s[(n + 1) + i - 1]
      BY <1>3, <2>1, SubSeqProperties
    <2>3. (IF n + 1 <= m THEN m - (n + 1) + 1 ELSE 0) = m - n /\ m - (n + 1) + 1 = m - n
      BY <1>2
    <2>4. \A i \in 1 .. m - n : (n + 1) + i - 1 = n + i
      BY <1>2
    <2> QED BY <2>2, <2>3, <2>4
  <1>6. PICK w : w = Dropped(s, n)
    OBVIOUS
  <1>7. w = r \o t
    BY <1>1, <1>3, <1>6 DEF Dropped
  <1>8. /\ w \in Seq(A) /\ Len(w) = Len(r) + Len(t)
        /\ \A i \in 1 .. Len(r) + Len(t) : w[i] = IF i <= Len(r) THEN r[i] ELSE t[i - Len(r)]
    BY <1>4, <1>5, <1>7, ConcatProperties
  <1>9. Len(w) = m - 1
    BY <1>2, <1>4, <1>5, <1>8
  <1>10. ASSUME NEW i \in 1 .. n - 1 PROVE w[i] = s[i]
    <2>1. i \in 1 .. Len(r) + Len(t) /\ i <= Len(r)
      BY <1>2, <1>4, <1>5
    <2> QED BY <1>4, <1>8, <2>1
  <1>11. ASSUME NEW i \in n .. m - 1 PROVE w[i] = s[i + 1]
    <2>1. i \in 1 .. Len(r) + Len(t) /\ ~(i <= Len(r)) /\ i - Len(r) = i - n + 1
      BY <1>2, <1>4, <1>5
    <2>2. w[i] = t[i - n + 1]
      BY <1>8, <2>1
    <2>3. i - n + 1 \in 1 .. m - n /\ n + (i - n + 1) = i + 1
      BY <1>2
    <2> QED BY <1>5, <2>2, <2>3
  <1> QED BY <1>1, <1>6, <1>8, <1>9, <1>10, <1>11

\* Two texts of which one has one character more.
OneMore(a, b, n) ==
  /\ n \in 1 .. Len(b) /\ Len(b) = Len(a) + 1
  /\ \A i \in 1 .. n - 1 : a[i] = b[i]
  /\ \A i \in n .. Len(a) : a[i] = b[i + 1]

\* One text without a character is another.
LEMMA DroppedEqual ==
  ASSUME NEW A, NEW a \in Seq(A), NEW b \in Seq(A), NEW n \in 1 .. Len(b)
  PROVE  Dropped(b, n) = a <=> OneMore(a, b, n)
  <1>1. PICK w : w = Dropped(b, n)
    OBVIOUS
  <1>2. /\ w \in Seq(A) /\ Len(w) = Len(b) - 1
        /\ \A i \in 1 .. n - 1 : w[i] = b[i]
        /\ \A i \in n .. Len(b) - 1 : w[i] = b[i + 1]
    BY <1>1, DroppedIs
  <1>3. Len(a) \in Nat /\ Len(b) \in Nat
    OBVIOUS
  <1>4. ASSUME w = a PROVE OneMore(a, b, n)
    <2>1. Len(b) = Len(a) + 1 /\ Len(b) - 1 = Len(a)
      BY <1>2, <1>3, <1>4
    <2> QED BY <1>2, <1>4, <2>1 DEF OneMore
  <1>5. ASSUME OneMore(a, b, n) PROVE w = a
    <2>1. Len(b) - 1 = Len(a) /\ Len(w) = Len(a)
      BY <1>2, <1>3, <1>5 DEF OneMore
    <2>2. ASSUME NEW i \in 1 .. Len(w) PROVE w[i] = a[i]
      <3>1. i \in 1 .. n - 1 \/ i \in n .. Len(a)
        BY <1>3, <2>1
      <3> QED BY <1>2, <1>5, <2>1, <3>1 DEF OneMore
    <2> QED BY <1>2, <2>1, <2>2, SeqEqual
  <1> QED BY <1>1, <1>4, <1>5

\* Two texts that differ in one character at most.
OneOther(a, b, n) ==
  /\ n \in 1 .. Len(a) /\ Len(a) = Len(b)
  /\ \A i \in 1 .. Len(a) : i # n => a[i] = b[i]

\* Both texts without the character at the same place are the same.
LEMMA DroppedBoth ==
  ASSUME NEW A, NEW a \in Seq(A), NEW b \in Seq(A), NEW n \in 1 .. Len(a), Len(a) = Len(b)
  PROVE  Dropped(a, n) = Dropped(b, n) <=> OneOther(a, b, n)
  <1>1. PICK v, w : v = Dropped(a, n) /\ w = Dropped(b, n)
    OBVIOUS
  <1>2. PICK m : m = Len(a)
    OBVIOUS
  <1>3. m \in Nat /\ m = Len(b) /\ n \in 1 .. m
    BY <1>2
  <1>4. /\ v \in Seq(A) /\ Len(v) = m - 1
        /\ \A i \in 1 .. n - 1 : v[i] = a[i]
        /\ \A i \in n .. m - 1 : v[i] = a[i + 1]
    BY <1>1, <1>2, DroppedIs
  <1>5. /\ w \in Seq(A) /\ Len(w) = m - 1
        /\ \A i \in 1 .. n - 1 : w[i] = b[i]
        /\ \A i \in n .. m - 1 : w[i] = b[i + 1]
    BY <1>1, <1>3, DroppedIs
  <1>6. ASSUME v = w, NEW i \in 1 .. m, i # n PROVE a[i] = b[i]
    <2>1. CASE i < n
      <3>1. i \in 1 .. n - 1
        BY <1>3, <2>1
      <3> QED BY <1>4, <1>5, <1>6, <3>1
    <2>2. CASE i > n
      <3>1. i - 1 \in n .. m - 1 /\ (i - 1) + 1 = i
        BY <1>3, <2>2
      <3> QED BY <1>4, <1>5, <1>6, <3>1
    <2> QED BY <1>3, <1>6, <2>1, <2>2
  <1>7. ASSUME OneOther(a, b, n) PROVE v = w
    <2>1. ASSUME NEW i \in 1 .. Len(v) PROVE v[i] = w[i]
      <3>1. i \in 1 .. n - 1 \/ i \in n .. m - 1
        BY <1>3, <1>4
      <3>2. \A k \in 1 .. m : k # n => a[k] = b[k]
        BY <1>2, <1>7 DEF OneOther
      <3>3. CASE i \in 1 .. n - 1
        BY <1>3, <1>4, <1>5, <3>2, <3>3
      <3>4. CASE i \in n .. m - 1
        <4>1. i + 1 \in 1 .. m /\ i + 1 # n
          BY <1>3, <3>4
        <4> QED BY <1>4, <1>5, <3>2, <3>4, <4>1
      <3> QED BY <3>1, <3>3, <3>4
    <2> QED BY <1>4, <1>5, <2>1, SeqEqual
  <1> QED BY <1>1, <1>2, <1>3, <1>6, <1>7 DEF OneOther

\* Two texts of which one has two neighbours exchanged.
Exchanged(a, b, n) ==
  /\ n \in 1 .. Len(a) - 1 /\ Len(a) = Len(b)
  /\ a[n] = b[n + 1] /\ a[n + 1] = b[n]
  /\ \A i \in 1 .. Len(a) : i # n /\ i # n + 1 => a[i] = b[i]

\* One text with its neighbours exchanged is another.
LEMMA SwappedEqual ==
  ASSUME NEW A, NEW a \in Seq(A), NEW b \in Seq(A), NEW n \in 1 .. Len(a) - 1
  PROVE  Swapped(a, n) = b <=> Exchanged(a, b, n)
  <1>1. PICK w, m : w = Swapped(a, n) /\ m = Len(a)
    OBVIOUS
  <1>2. m \in Nat /\ n \in 1 .. m /\ n + 1 \in 1 .. m /\ n # n + 1
    BY <1>1
  <1>3. a \in [1 .. m -> A] /\ a[n] \in A /\ a[n + 1] \in A
    BY <1>1, <1>2
  <1>4. w = [a EXCEPT ![n] = a[n + 1], ![n + 1] = a[n]]
    BY <1>1 DEF Swapped
  <1>5. /\ w \in [1 .. m -> A] /\ w[n] = a[n + 1] /\ w[n + 1] = a[n]
        /\ \A i \in 1 .. m : i # n /\ i # n + 1 => w[i] = a[i]
    BY <1>2, <1>3, <1>4
  <1>6. w \in Seq(A) /\ Len(w) = m
    BY <1>2, <1>5
  <1>7. ASSUME w = b PROVE Exchanged(a, b, n)
    BY <1>1, <1>5, <1>6, <1>7 DEF Exchanged
  <1>8. ASSUME Exchanged(a, b, n) PROVE w = b
    <2>1. Len(b) = m /\ a[n] = b[n + 1] /\ a[n + 1] = b[n]
      BY <1>1, <1>8 DEF Exchanged
    <2>2. ASSUME NEW i \in 1 .. Len(w) PROVE w[i] = b[i]
      <3>1. i \in 1 .. m /\ i \in 1 .. Len(a)
        BY <1>1, <1>6
      <3>2. CASE i # n /\ i # n + 1
        BY <1>5, <1>8, <3>1, <3>2 DEF Exchanged
      <3>3. CASE i = n \/ i = n + 1
        BY <1>5, <2>1, <3>3
      <3> QED BY <3>2, <3>3
    <2> QED BY <1>6, <2>1, <2>2, SeqEqual
  <1> QED BY <1>1, <1>7, <1>8

\* The first place where two texts differ.
Parting(a, b, n) ==
  /\ n \in 1 .. Len(a) /\ n \in 1 .. Len(b) /\ a[n] # b[n]
  /\ \A i \in 1 .. n - 1 : a[i] = b[i]

\* If the rest after one more character is the same, that character is the only
\* one that was added.
LEMMA PartingMore ==
  ASSUME NEW A, NEW a \in Seq(A), NEW b \in Seq(A), NEW n, Parting(a, b, n)
  PROVE  SubSeq(a, n, Len(a)) = SubSeq(b, n + 1, Len(b)) <=> \E m \in 1 .. Len(b) : OneMore(a, b, m)
  <1>1. n \in 1 .. Len(a) /\ n \in 1 .. Len(b) /\ Len(a) \in Nat /\ Len(b) \in Nat
    BY DEF Parting
  <1>3. PICK l : l = n + 1
    OBVIOUS
  <1>2. n \in 1 .. Len(a) + 1 /\ l \in 1 .. Len(b) + 1
    BY <1>1, <1>3
  <1>4. SubSeq(a, n, Len(a)) = SubSeq(b, l, Len(b)) <=> SameRests(a, b, n, l)
    BY <1>2, RestsEqual
  <1>5. ASSUME SameRests(a, b, n, l)
        PROVE  OneMore(a, b, n)
    <2>1. Len(b) = Len(a) + 1
      BY <1>1, <1>3, <1>5 DEF SameRests
    <2>2. ASSUME NEW i \in n .. Len(a) PROVE a[i] = b[i + 1]
      <3>1. i - n \in 0 .. Len(a) - n /\ n + (i - n) = i /\ l + (i - n) = i + 1
        BY <1>1, <1>3
      <3> QED BY <1>5, <3>1 DEF SameRests
    <2> QED BY <1>1, <2>1, <2>2 DEF OneMore, Parting
  <1>6. ASSUME NEW m \in 1 .. Len(b), OneMore(a, b, m)
        PROVE  SameRests(a, b, n, l)
    <2>1. Len(b) = Len(a) + 1 /\ \A i \in 1 .. m - 1 : a[i] = b[i]
      BY <1>6 DEF OneMore
    <2>2. n >= m
      BY <1>1, <2>1 DEF Parting
    <2>3. ASSUME NEW i \in 0 .. Len(a) - n PROVE a[n + i] = b[l + i]
      <3>1. n + i \in m .. Len(a) /\ l + i = (n + i) + 1
        BY <1>1, <1>3, <2>2
      <3> QED BY <1>6, <3>1 DEF OneMore
    <2> QED BY <1>1, <1>3, <2>1, <2>3 DEF SameRests
  <1> QED BY <1>1, <1>3, <1>4, <1>5, <1>6 DEF SameRests

\* If the rests after one character are the same, it is the only other one.
LEMMA PartingOther ==
  ASSUME NEW A, NEW a \in Seq(A), NEW b \in Seq(A), NEW n, Parting(a, b, n)
  PROVE  SubSeq(a, n + 1, Len(a)) = SubSeq(b, n + 1, Len(b)) <=> \E m \in 1 .. Len(a) : OneOther(a, b, m)
  <1>1. n \in 1 .. Len(a) /\ n \in 1 .. Len(b) /\ Len(a) \in Nat /\ Len(b) \in Nat
    BY DEF Parting
  <1>3. PICK l : l = n + 1
    OBVIOUS
  <1>2. l \in 1 .. Len(a) + 1 /\ l \in 1 .. Len(b) + 1
    BY <1>1, <1>3
  <1>4. SubSeq(a, l, Len(a)) = SubSeq(b, l, Len(b)) <=> SameRests(a, b, l, l)
    BY <1>2, RestsEqual
  <1>5. ASSUME SameRests(a, b, l, l)
        PROVE  OneOther(a, b, n)
    <2>1. Len(b) = Len(a)
      BY <1>1, <1>3, <1>5 DEF SameRests
    <2>2. ASSUME NEW i \in 1 .. Len(a), i # n PROVE a[i] = b[i]
      <3>1. CASE i < n
        BY <1>1, <3>1 DEF Parting
      <3>2. CASE i > n
        <4>1. i - l \in 0 .. Len(a) - l /\ l + (i - l) = i
          BY <1>1, <1>3, <3>2
        <4> QED BY <1>5, <4>1 DEF SameRests
      <3> QED BY <1>1, <2>2, <3>1, <3>2
    <2> QED BY <1>1, <2>1, <2>2 DEF OneOther
  <1>6. ASSUME NEW m \in 1 .. Len(a), OneOther(a, b, m)
        PROVE  SameRests(a, b, l, l)
    <2>1. Len(b) = Len(a) /\ n = m
      BY <1>1, <1>6 DEF OneOther, Parting
    <2>2. ASSUME NEW i \in 0 .. Len(a) - l PROVE a[l + i] = b[l + i]
      <3>1. l + i \in 1 .. Len(a) /\ l + i # m
        BY <1>1, <1>3, <2>1
      <3> QED BY <1>6, <3>1 DEF OneOther
    <2> QED BY <1>1, <1>3, <2>1, <2>2 DEF SameRests
  <1> QED BY <1>1, <1>3, <1>4, <1>5, <1>6 DEF SameRests

\* If the rests after two exchanged characters are the same, these are the only ones.
LEMMA PartingExchanged ==
  ASSUME NEW A, NEW a \in Seq(A), NEW b \in Seq(A), NEW n, Parting(a, b, n)
  PROVE  (/\ Len(a) > n /\ Len(b) > n
          /\ a[n] = b[n + 1] /\ a[n + 1] = b[n]
          /\ SubSeq(a, n + 2, Len(a)) = SubSeq(b, n + 2, Len(b)))
           <=> \E m \in 1 .. Len(a) - 1 : Exchanged(a, b, m)
  <1>1. n \in 1 .. Len(a) /\ n \in 1 .. Len(b) /\ Len(a) \in Nat /\ Len(b) \in Nat
    BY DEF Parting
  <1>2. PICK l : l = n + 2
    OBVIOUS
  <1>3. ASSUME Len(a) > n, Len(b) > n
        PROVE  SubSeq(a, l, Len(a)) = SubSeq(b, l, Len(b)) <=> SameRests(a, b, l, l)
    <2>1. l \in 1 .. Len(a) + 1 /\ l \in 1 .. Len(b) + 1
      BY <1>1, <1>2, <1>3
    <2> QED BY <2>1, RestsEqual
  <1>4. ASSUME Len(a) > n, Len(b) > n, a[n] = b[n + 1], a[n + 1] = b[n],
               SameRests(a, b, l, l)
        PROVE  n \in 1 .. Len(a) - 1 /\ Exchanged(a, b, n)
    <2>1. Len(b) = Len(a) /\ n \in 1 .. Len(a) - 1
      BY <1>1, <1>2, <1>4 DEF SameRests
    <2>2. ASSUME NEW i \in 1 .. Len(a), i # n, i # n + 1 PROVE a[i] = b[i]
      <3>1. CASE i < n
        BY <1>1, <3>1 DEF Parting
      <3>2. CASE i > n
        <4>1. i - l \in 0 .. Len(a) - l /\ l + (i - l) = i
          BY <1>1, <1>2, <2>2, <3>2
        <4> QED BY <1>4, <4>1 DEF SameRests
      <3> QED BY <1>1, <2>2, <3>1, <3>2
    <2> QED BY <1>4, <2>1, <2>2 DEF Exchanged
  <1>5. ASSUME NEW m \in 1 .. Len(a) - 1, Exchanged(a, b, m)
        PROVE  /\ Len(a) > n /\ Len(b) > n /\ a[n] = b[n + 1] /\ a[n + 1] = b[n]
               /\ SameRests(a, b, l, l)
    <2>1. Len(b) = Len(a) /\ a[m] = b[m + 1] /\ a[m + 1] = b[m]
      BY <1>5 DEF Exchanged, SameRests
    <2>2. n = m \/ n = m + 1
      BY <1>1, <1>5 DEF Exchanged, Parting, SameRests
    <2>3. n # m + 1
      <3> SUFFICES ASSUME n = m + 1 PROVE FALSE
        OBVIOUS
      <3>1. m \in 1 .. n - 1
        BY <1>1
      <3>2. a[m] = b[m]
        BY <3>1 DEF Parting
      <3>3. a[n] = b[n]
        BY <2>1, <3>2
      <3> QED BY <3>3 DEF Parting
    <2>4. n = m
      BY <2>2, <2>3
    <2>5. ASSUME NEW i \in 0 .. Len(a) - l PROVE a[l + i] = b[l + i]
      <3>1. l + i \in 1 .. Len(a) /\ l + i # m /\ l + i # m + 1
        BY <1>1, <1>2, <2>4
      <3> QED BY <1>5, <3>1 DEF Exchanged, SameRests
    <2> QED BY <1>1, <1>2, <2>1, <2>4, <2>5 DEF SameRests
  <1>6. (/\ Len(a) > n /\ Len(b) > n
         /\ a[n] = b[n + 1] /\ a[n + 1] = b[n]
         /\ SubSeq(a, l, Len(a)) = SubSeq(b, l, Len(b)))
          <=> \E m \in 1 .. Len(a) - 1 : Exchanged(a, b, m)
    BY <1>3, <1>4, <1>5
  <1> QED BY <1>2, <1>6

\* What is within one typing error, said character by character.
NearIs(a, b) ==
  \/ a = b
  \/ \E n \in 1 .. Len(a) : OneMore(b, a, n)
  \/ \E n \in 1 .. Len(b) : OneMore(a, b, n)
  \/ \E n \in 1 .. Len(a) : OneOther(a, b, n)
  \/ \E n \in 1 .. Len(a) - 1 : Exchanged(a, b, n)

\* Near says so.
LEMMA NearSays ==
  ASSUME NEW A, NEW a \in Seq(A), NEW b \in Seq(A)
  PROVE  Near(a, b) <=> NearIs(a, b)
  <1>1. DOMAIN a = 1 .. Len(a) /\ DOMAIN b = 1 .. Len(b)
    OBVIOUS
  <1>2. (\E n \in DOMAIN a : Dropped(a, n) = b) <=> \E n \in 1 .. Len(a) : OneMore(b, a, n)
    BY <1>1, DroppedEqual
  <1>3. (\E n \in DOMAIN b : Dropped(b, n) = a) <=> \E n \in 1 .. Len(b) : OneMore(a, b, n)
    BY <1>1, DroppedEqual
  <1>4. (Len(a) = Len(b) /\ \E n \in DOMAIN a : Dropped(a, n) = Dropped(b, n))
          <=> \E n \in 1 .. Len(a) : OneOther(a, b, n)
    <2>1. \A n \in 1 .. Len(a) : OneOther(a, b, n) => Len(a) = Len(b)
      BY DEF OneOther
    <2>2. ASSUME Len(a) = Len(b), NEW n \in 1 .. Len(a)
          PROVE  Dropped(a, n) = Dropped(b, n) <=> OneOther(a, b, n)
      BY <2>2, DroppedBoth
    <2> QED BY <1>1, <2>1, <2>2
  <1>5. (\E n \in 1 .. Len(a) - 1 : Swapped(a, n) = b)
          <=> \E n \in 1 .. Len(a) - 1 : Exchanged(a, b, n)
    BY SwappedEqual
  <1> QED BY <1>2, <1>3, <1>4, <1>5 DEF Near, NearIs

\* Texts that do not differ as far as both go are near if their lengths are.
LEMMA NearPrefixes ==
  ASSUME NEW A, NEW a \in Seq(A), NEW b \in Seq(A),
         \A i \in 1 .. Len(a) : i <= Len(b) => a[i] = b[i]
  PROVE  NearIs(a, b) <=> Len(a) <= Len(b) + 1 /\ Len(b) <= Len(a) + 1
  <1>1. Len(a) \in Nat /\ Len(b) \in Nat
    OBVIOUS
  <1>2. NearIs(a, b) => Len(a) <= Len(b) + 1 /\ Len(b) <= Len(a) + 1
    BY <1>1 DEF NearIs, OneMore, OneOther, Exchanged
  <1>3. CASE Len(a) = Len(b)
    <2>1. \A i \in 1 .. Len(a) : a[i] = b[i]
      BY <1>1, <1>3
    <2>2. a = b
      BY <1>3, <2>1, SeqEqual
    <2> QED BY <1>1, <1>2, <1>3, <2>2 DEF NearIs
  <1>4. CASE Len(a) = Len(b) + 1
    <2>1. Len(a) \in 1 .. Len(a)
      BY <1>1, <1>4
    <2>2. \A i \in 1 .. Len(a) - 1 : b[i] = a[i]
      BY <1>1, <1>4
    <2>3. \A i \in Len(a) .. Len(b) : b[i] = a[i + 1]
      BY <1>1, <1>4
    <2>4. OneMore(b, a, Len(a))
      BY <1>4, <2>1, <2>2, <2>3 DEF OneMore
    <2>5. NearIs(a, b)
      BY <2>1, <2>4 DEF NearIs
    <2> QED BY <1>2, <2>5
  <1>5. CASE Len(b) = Len(a) + 1
    <2>1. Len(b) \in 1 .. Len(b)
      BY <1>1, <1>5
    <2>2. \A i \in 1 .. Len(b) - 1 : a[i] = b[i]
      BY <1>1, <1>5
    <2>3. \A i \in Len(b) .. Len(a) : a[i] = b[i + 1]
      BY <1>1, <1>5
    <2>4. OneMore(a, b, Len(b))
      BY <1>5, <2>1, <2>2, <2>3 DEF OneMore
    <2>5. NearIs(a, b)
      BY <2>1, <2>4 DEF NearIs
    <2> QED BY <1>2, <2>5
  <1> QED BY <1>1, <1>2, <1>3, <1>4, <1>5

\* AlmostEqual finds what is within one typing error.
LEMMA AlmostEqualIsNear ==
  ASSUME NEW A, NEW a \in Seq(A), NEW b \in Seq(A)
  PROVE  Sl!AlmostEqual(a, b) <=> Near(a, b)
  <1> DEFINE differ == {n \in DOMAIN a \cap DOMAIN b : a[n] # b[n]}
             n == CHOOSE n \in differ : \A k \in differ : n <= k
             Rest(s, k) == SubSeq(s, k, Len(s))
  <1>1. DOMAIN a = 1 .. Len(a) /\ DOMAIN b = 1 .. Len(b) /\ Len(a) \in Nat /\ Len(b) \in Nat
    OBVIOUS
  <1>2. Sl!AlmostEqual(a, b)
          <=> IF differ = {} THEN Len(a) <= Len(b) + 1 /\ Len(b) <= Len(a) + 1
              ELSE \/ Rest(a, n) = Rest(b, n + 1)
                   \/ Rest(a, n + 1) = Rest(b, n)
                   \/ Rest(a, n + 1) = Rest(b, n + 1)
                   \/ /\ Len(a) > n /\ Len(b) > n
                      /\ a[n] = b[n + 1] /\ a[n + 1] = b[n]
                      /\ Rest(a, n + 2) = Rest(b, n + 2)
    BY DEF Sl!AlmostEqual
  <1>3. CASE differ = {}
    <2>1. ASSUME NEW i \in 1 .. Len(a), i <= Len(b) PROVE a[i] = b[i]
      <3>1. i \in DOMAIN a \cap DOMAIN b
        BY <1>1, <2>1
      <3> QED BY <1>3, <3>1
    <2>2. NearIs(a, b) <=> Len(a) <= Len(b) + 1 /\ Len(b) <= Len(a) + 1
      BY <2>1, NearPrefixes
    <2> QED BY <1>2, <1>3, <2>2, NearSays
  <1>4. CASE differ # {}
    <2>0. differ \subseteq Nat
      BY <1>1
    <2>1. \E k \in differ : \A m \in differ : k <= m
      <3> HIDE DEF differ
      <3> QED BY <1>4, <2>0, Least
    <2>2. n \in differ /\ \A k \in differ : n <= k
      <3> HIDE DEF differ
      <3> QED BY <2>1
    <2> HIDE DEF n
    <2>3. ASSUME NEW i \in 1 .. n - 1 PROVE a[i] = b[i]
      <3>1. i \in DOMAIN a \cap DOMAIN b /\ ~(n <= i)
        BY <1>1, <2>2
      <3> QED BY <2>2, <3>1
    <2>4. Parting(a, b, n) /\ Parting(b, a, n)
      BY <1>1, <2>2, <2>3 DEF Parting
    <2>5. a # b
      BY <2>2
    <2>6. Rest(a, n) = Rest(b, n + 1) <=> \E m \in 1 .. Len(b) : OneMore(a, b, m)
      BY <2>4, PartingMore
    <2>7. Rest(b, n) = Rest(a, n + 1) <=> \E m \in 1 .. Len(a) : OneMore(b, a, m)
      BY <2>4, PartingMore
    <2>8. Rest(a, n + 1) = Rest(b, n + 1) <=> \E m \in 1 .. Len(a) : OneOther(a, b, m)
      BY <2>4, PartingOther
    <2>9. (/\ Len(a) > n /\ Len(b) > n
           /\ a[n] = b[n + 1] /\ a[n + 1] = b[n]
           /\ Rest(a, n + 2) = Rest(b, n + 2))
            <=> \E m \in 1 .. Len(a) - 1 : Exchanged(a, b, m)
      BY <2>4, PartingExchanged
    <2> HIDE DEF differ, Rest
    <2>10. Sl!AlmostEqual(a, b) <=> NearIs(a, b)
      BY <1>2, <1>4, <2>5, <2>6, <2>7, <2>8, <2>9 DEF NearIs
    <2> QED BY <2>10, NearSays
  <1> QED BY <1>3, <1>4

\* A text that begins with "!" is that before the rest of it, and no other rest.
LEMMA BangFirst ==
  ASSUME NEW A, NEW name \in Seq(A), NEW c \in Seq(A), Sl!Bang \in A
  PROVE  name = <<Sl!Bang>> \o c <=> name # <<>> /\ Head(name) = Sl!Bang /\ Tail(name) = c
  <1>1. PICK m : m = Sl!Bang
    OBVIOUS
  <1>2. m \in A
    BY <1>1
  <1>3. <<m>> \in Seq(A) /\ Len(<<m>>) = 1 /\ <<m>>[1] = m
    BY <1>2
  <1>4. PICK w : w = <<m>> \o c
    OBVIOUS
  <1>5. /\ w \in Seq(A) /\ Len(w) = 1 + Len(c)
        /\ \A i \in 1 .. 1 + Len(c) : w[i] = IF i <= 1 THEN m ELSE c[i - 1]
    <2>1. /\ w \in Seq(A) /\ Len(w) = Len(<<m>>) + Len(c)
          /\ \A i \in 1 .. Len(<<m>>) + Len(c) : w[i] = IF i <= Len(<<m>>) THEN <<m>>[i] ELSE c[i - Len(<<m>>)]
      BY <1>3, <1>4, ConcatProperties
    <2>2. \A i \in 1 .. 1 + Len(c) : i <= 1 => <<m>>[i] = m
      OBVIOUS
    <2> QED BY <1>3, <2>1, <2>2
  <1>6. Len(c) \in Nat /\ Len(name) \in Nat
    OBVIOUS
  <1>7. ASSUME NEW s \in Seq(A), s # <<>>
        PROVE  /\ Head(s) = s[1] /\ Tail(s) \in Seq(A) /\ Len(s) \in Nat \ {0}
               /\ Len(Tail(s)) = Len(s) - 1 /\ \A i \in 1 .. Len(s) - 1 : Tail(s)[i] = s[i + 1]
    BY <1>7, HeadTailProperties, EmptySeq
  <1>8. ASSUME name = w PROVE name # <<>> /\ Head(name) = m /\ Tail(name) = c
    <2>1. name # <<>>
      BY <1>5, <1>6, <1>8
    <2>2. Head(name) = m
      BY <1>5, <1>6, <1>7, <1>8, <2>1
    <2>3. PICK t : t = Tail(name)
      OBVIOUS
    <2>4. t \in Seq(A) /\ Len(t) = Len(c) /\ \A i \in 1 .. Len(c) : t[i] = w[i + 1]
      BY <1>5, <1>6, <1>7, <1>8, <2>1, <2>3
    <2>5. ASSUME NEW i \in 1 .. Len(t) PROVE t[i] = c[i]
      <3>1. i \in 1 .. Len(c) /\ i + 1 \in 1 .. 1 + Len(c) /\ ~(i + 1 <= 1) /\ (i + 1) - 1 = i
        BY <1>6, <2>4
      <3> QED BY <1>5, <2>4, <3>1
    <2>6. t = c
      BY <2>4, <2>5, SeqEqual
    <2> QED BY <2>1, <2>2, <2>3, <2>6
  <1>9. ASSUME name # <<>>, Head(name) = m, Tail(name) = c PROVE name = w
    <2>1. /\ name[1] = m /\ Len(name) = 1 + Len(c)
          /\ \A i \in 1 .. Len(c) : c[i] = name[i + 1]
      BY <1>6, <1>7, <1>9
    <2>2. ASSUME NEW i \in 1 .. Len(name) PROVE name[i] = w[i]
      <3>1. CASE i = 1
        BY <1>5, <1>6, <2>1, <3>1
      <3>2. CASE i # 1
        <4>1. i - 1 \in 1 .. Len(c) /\ (i - 1) + 1 = i /\ i \in 1 .. 1 + Len(c) /\ ~(i <= 1)
          BY <1>6, <2>1, <3>2
        <4> QED BY <1>5, <2>1, <4>1
      <3> QED BY <3>1, <3>2
    <2> QED BY <1>5, <2>1, <2>2, SeqEqual
  <1> QED BY <1>1, <1>4, <1>8, <1>9

\* What is suggested is what is meant by it.
LEMMA SuggestionsRight ==
  ASSUME NEW name \in Seq(Characters)
  PROVE  NameRight(name, Sl!Suggestions(name))
  <1> DEFINE A == Characters \cup {Sl!Bang}
  <1>1. \A s \in Seq(Characters) : s \in Seq(A)
    OBVIOUS
  <1>2. name \in Seq(A) /\ Sl!Bang \in A /\ \A c \in Commands : c \in Seq(Characters) /\ c \in Seq(A)
    BY <1>1, LinesAssumption
  <1> HIDE DEF A
  <1>3. \A c \in Commands : name = <<Sl!Bang>> \o c <=> name # <<>> /\ Head(name) = Sl!Bang /\ Tail(name) = c
    BY <1>2, BangFirst
  <1>4. CASE name # <<>> /\ Head(name) = Sl!Bang /\ Tail(name) \in Commands
    <2>1. PICK c : c = Tail(name)
      OBVIOUS
    <2>2. c \in Commands /\ name = <<Sl!Bang>> \o c
      BY <1>3, <1>4, <2>1
    <2>3. Sl!Suggestions(name) = {<<Sl!Bang, Sl!Space>> \o c}
      BY <1>4, <2>1 DEF Sl!Suggestions
    <2> QED BY <2>2, <2>3 DEF NameRight
  <1>5. CASE ~(name # <<>> /\ Head(name) = Sl!Bang /\ Tail(name) \in Commands)
    <2>1. ~ \E c \in Commands : name = <<Sl!Bang>> \o c
      BY <1>3, <1>5
    <2>2. Sl!Suggestions(name) = {c \in Commands : Sl!AlmostEqual(name, c)}
      BY <1>5 DEF Sl!Suggestions
    <2>3. \A c \in Commands : Sl!AlmostEqual(name, c) <=> Near(name, c)
      BY <1>2, AlmostEqualIsNear
    <2>4. Sl!Suggestions(name) = {c \in Commands : Near(name, c)}
      BY <2>2, <2>3
    <2> QED BY <2>1, <2>4 DEF NameRight
  <1> QED BY <1>4, <1>5

\*-------------------------------------------------------------------- txtar
\* The lines of a text, without the one that is no marker and no other line, and
\* those of them that name no file.
AnyBodies ==
  {Tx!Plain, Tx!Bare, Tx!Nameless}
    \cup {Tx!Marker(name) : name \in FileNames}
    \cup {Tx!MarkerCR(name) : name \in FileNames}
    \cup {Tx!UnquoteLine(name) : name \in FileNames}
GoodLines == {line \in [quotes : Nat, body : AnyBodies] : line # Tx!Line(0, Tx!Bare)}
Named(line) == line.quotes = 0 /\ line.body[1] = "marker"
TameLines == {line \in GoodLines : ~Named(line)}

\* A text whose last line is not made a marker by a newline.
Readable(t) ==
  /\ t \in [lines : Seq(GoodLines), newline : BOOLEAN]
  /\ ~t.newline /\ Len(t.lines) # 0 => Len(t.lines[Len(t.lines)].body) # 3

\* A file is named by a marker.
LEMMA NamedBody ==
  ASSUME NEW line \in GoodLines
  PROVE  /\ Named(line) => line.body[2] \in FileNames
         /\ line.quotes \in Nat
         /\ line.quotes > 0 \/ line.body # Tx!Bare
  <1>1. line.quotes \in Nat /\ line.body \in AnyBodies /\ line # Tx!Line(0, Tx!Bare)
        /\ line = [quotes |-> line.quotes, body |-> line.body]
    BY DEF GoodLines
  <1>2. line.quotes > 0 \/ line.body # Tx!Bare
    BY <1>1 DEF Tx!Line
  <1>3. ASSUME line.body[1] = "marker" PROVE line.body[2] \in FileNames
    <2>1. CASE \E name \in FileNames : line.body = Tx!Marker(name) \/ line.body = Tx!MarkerCR(name)
      BY <2>1 DEF Tx!Marker, Tx!MarkerCR
    <2>2. CASE line.body \in {Tx!Plain, Tx!Bare, Tx!Nameless}
      BY <1>3, <2>2 DEF Tx!Plain, Tx!Bare, Tx!Nameless
    <2>3. CASE \E name \in FileNames : line.body = Tx!UnquoteLine(name)
      BY <1>3, <2>3 DEF Tx!UnquoteLine
    <2> QED BY <1>1, <2>1, <2>2, <2>3 DEF AnyBodies
  <1> QED BY <1>1, <1>2, <1>3 DEF Named

\* What isMarker says of a line.
LEMMA MarkIs ==
  ASSUME NEW t, Readable(t), NEW n \in 1 .. Len(t.lines)
  PROVE  Tx!IsMarker(t, n) = IF Named(t.lines[n]) THEN t.lines[n].body[2] ELSE NoName
  <1>1. PICK line, len : line = t.lines[n] /\ len = Len(t.lines)
    OBVIOUS
  <1>2. line \in GoodLines /\ len \in Nat /\ n \in 1 .. len
    BY <1>1 DEF Readable
  <1>3. line.quotes \in Nat /\ (line.quotes > 0 \/ line.body # Tx!Bare)
    BY <1>2, NamedBody
  <1>4. ~(Len(line.body) = 3 /\ ~(n < len \/ t.newline))
    BY <1>1, <1>2 DEF Readable
  <1>5. Tx!IsMarker(t, n) =
          IF line.quotes > 0 THEN NoName
          ELSE IF line.body = Tx!Bare THEN Crash
          ELSE IF line.body[1] # "marker" \/ (Len(line.body) = 3 /\ ~(n < len \/ t.newline)) THEN NoName
          ELSE line.body[2]
    BY <1>1 DEF Tx!IsMarker
  <1>6. line.quotes > 0 \/ line.quotes = 0
    BY <1>3
  <1> QED BY <1>1, <1>3, <1>4, <1>5, <1>6 DEF Named

\* A file has a name.
LEMMA MarkNamed ==
  ASSUME NEW t, Readable(t), NEW n \in 1 .. Len(t.lines)
  PROVE  /\ Tx!IsMarker(t, n) # NoName <=> Named(t.lines[n])
         /\ Named(t.lines[n]) => Tx!IsMarker(t, n) \in FileNames
  <1>1. t.lines[n] \in GoodLines
    BY DEF Readable
  <1> QED BY <1>1, MarkIs, NamedBody, FilesAssumption

\* The place of the next marker after k, or the end.
NextMark(lines, k, m) ==
  /\ m \in k + 1 .. Len(lines) + 1
  /\ \A j \in k + 1 .. m - 1 : ~Named(lines[j])
  /\ m <= Len(lines) => Named(lines[m])

\* What FindFileMarker finds.
IsFound(t, m, found) ==
  /\ NextMark(t.lines, 0, m)
  /\ found.before = Tx!Text(SubSeq(t.lines, 1, m - 1), TRUE)
  /\ found.name = IF m <= Len(t.lines) THEN t.lines[m].body[2] ELSE NoName
  /\ found.ended <=> m < Len(t.lines) \/ (m = Len(t.lines) /\ t.newline)
\* FindFileMarker finds the first marker.
LEMMA FoundRight ==
  ASSUME NEW t, Readable(t)
  PROVE  \E m : IsFound(t, m, Tx!FindFileMarker(t))
  <1> DEFINE marks == {n \in DOMAIN t.lines : Tx!IsMarker(t, n) # NoName}
             at == Tx!F!Min(marks)
  <1>1. PICK len : len = Len(t.lines)
    OBVIOUS
  <1>f. PICK found : found = Tx!FindFileMarker(t)
    OBVIOUS
  <1> SUFFICES \E m : IsFound(t, m, found)
    BY <1>f
  <1>2. t.lines \in Seq(GoodLines) /\ t.newline \in BOOLEAN /\ len \in Nat /\ DOMAIN t.lines = 1 .. len
    BY <1>1 DEF Readable
  <1>3. \A n \in 1 .. len : n \in marks <=> Named(t.lines[n])
    BY <1>1, <1>2, MarkNamed
  <1>4. CASE marks = {}
    <2>1. found = [before |-> Tx!FixNL(t), name |-> NoName, after |-> Tx!Empty, ended |-> FALSE]
      BY <1>4, <1>f DEF Tx!FindFileMarker
    <2>2. \A j \in 1 .. len : ~Named(t.lines[j])
      BY <1>3, <1>4
    <2>3. PICK m : m = len + 1
      OBVIOUS
    <2>4. m \in 0 + 1 .. len + 1 /\ m - 1 = len /\ ~(m <= len) /\ ~(m < len) /\ m # len
      BY <1>2, <2>3
    <2>5. NextMark(t.lines, 0, m)
      BY <1>1, <2>2, <2>4 DEF NextMark
    <2>6. SubSeq(t.lines, 1, len) = t.lines
      <3>1. 1 \in Int /\ len \in Int /\ \A i \in 1 .. len : t.lines[i] \in GoodLines
        BY <1>1, <1>2
      <3>2. PICK r : r = SubSeq(t.lines, 1, len)
        OBVIOUS
      <3>3. /\ r \in Seq(GoodLines) /\ Len(r) = (IF 1 <= len THEN len - 1 + 1 ELSE 0)
            /\ \A i \in 1 .. len - 1 + 1 : r[i] = t.lines[1 + i - 1]
        BY <3>1, <3>2, SubSeqProperties
      <3>4. Len(r) = len /\ \A i \in 1 .. len : r[i] = t.lines[i]
        BY <1>2, <3>3
      <3> QED BY <1>1, <1>2, <3>2, <3>3, <3>4, SeqEqual
    <2>7. Tx!FixNL(t) = Tx!Text(t.lines, TRUE)
      BY DEF Tx!FixNL
    <2>8. found.before = Tx!FixNL(t) /\ found.name = NoName /\ ~found.ended
      BY <2>1
    <2> QED BY <1>1, <2>4, <2>5, <2>6, <2>7, <2>8 DEF IsFound
  <1>5. CASE marks # {}
    <2>1. found = [before |-> Tx!Text(SubSeq(t.lines, 1, at - 1), TRUE),
                   name |-> Tx!IsMarker(t, at),
                   after |-> Tx!DropTo(t, at + 1),
                   ended |-> at < Len(t.lines) \/ t.newline]
      BY <1>5, <1>f DEF Tx!FindFileMarker
    <2>2. marks \subseteq 1 .. len /\ marks \subseteq Nat
      BY <1>2
    <2> HIDE DEF marks
    <2>3. at \in marks /\ \A m \in marks : at <= m
      <3>1. \E n \in marks : \A m \in marks : n <= m
        BY <1>5, <2>2, Least
      <3> QED BY <3>1 DEF Tx!F!Min
    <2> HIDE DEF at
    <2>4. at \in 1 .. len /\ Named(t.lines[at])
      BY <1>3, <2>2, <2>3
    <2>5. ASSUME NEW j \in 1 .. at - 1 PROVE ~Named(t.lines[j])
      <3>1. j \in 1 .. len /\ ~(at <= j)
        BY <1>2, <2>4
      <3> QED BY <1>3, <2>3, <3>1
    <2>6. NextMark(t.lines, 0, at)
      BY <1>1, <1>2, <2>4, <2>5 DEF NextMark
    <2>7. Tx!IsMarker(t, at) = t.lines[at].body[2]
      BY <1>1, <2>4, MarkIs
    <2>8. /\ found.before = Tx!Text(SubSeq(t.lines, 1, at - 1), TRUE)
          /\ found.name = Tx!IsMarker(t, at)
      BY <2>1
    <2>11. found.ended = (at < len \/ t.newline)
      BY <1>1, <2>1, Zenon
    <2>9. (at < len \/ at = len) /\ at <= len
      BY <1>2, <2>4
    <2>10. found.ended <=> at < len \/ (at = len /\ t.newline)
      BY <2>9, <2>11
    <2> QED BY <1>1, <2>6, <2>7, <2>8, <2>9, <2>10 DEF IsFound
  <1> QED BY <1>4, <1>5

\* There is one next marker.
LEMMA NextMarkOnce ==
  ASSUME NEW lines, Len(lines) \in Nat, NEW k \in 0 .. Len(lines), NEW m, NEW n,
         NextMark(lines, k, m), NextMark(lines, k, n)
  PROVE  m = n
  <1>1. m \in k + 1 .. Len(lines) + 1 /\ n \in k + 1 .. Len(lines) + 1
    BY DEF NextMark
  <1>2. ~(m < n)
    <2> SUFFICES ASSUME m < n PROVE FALSE
      OBVIOUS
    <2>1. m \in k + 1 .. n - 1 /\ m <= Len(lines)
      BY <1>1
    <2> QED BY <2>1 DEF NextMark
  <1>3. ~(n < m)
    <2> SUFFICES ASSUME n < m PROVE FALSE
      OBVIOUS
    <2>1. n \in k + 1 .. m - 1 /\ n <= Len(lines)
      BY <1>1
    <2> QED BY <2>1 DEF NextMark
  <1> QED BY <1>1, <1>2, <1>3

\* Part of a text.
LEMMA PartIs ==
  ASSUME NEW A, NEW s \in Seq(A), NEW k \in 0 .. Len(s), NEW m \in k .. Len(s), NEW r,
         r = SubSeq(s, k + 1, m)
  PROVE  r \in Seq(A) /\ Len(r) = m - k /\ \A i \in 1 .. m - k : r[i] = s[k + i]
  <1>1. PICK len : len = Len(s)
    OBVIOUS
  <1>2. len \in Nat /\ k \in 0 .. len /\ m \in k .. len /\ \A i \in 1 .. len : s[i] \in A
    BY <1>1
  <1>3. k + 1 \in Int /\ m \in Int /\ \A i \in k + 1 .. m : s[i] \in A
    BY <1>2
  <1>4. /\ r \in Seq(A) /\ Len(r) = (IF k + 1 <= m THEN m - (k + 1) + 1 ELSE 0)
        /\ \A i \in 1 .. m - (k + 1) + 1 : r[i] = s[(k + 1) + i - 1]
    BY <1>3, SubSeqProperties
  <1>5. (IF k + 1 <= m THEN m - (k + 1) + 1 ELSE 0) = m - k /\ m - (k + 1) + 1 = m - k
    BY <1>2
  <1>6. \A i \in 1 .. m - k : (k + 1) + i - 1 = k + i
    BY <1>2
  <1> QED BY <1>4, <1>5, <1>6

\* What begins at some line is a text like the whole.
IsRest(t, k, d) ==
  /\ Readable(d) /\ Len(d.lines) = Len(t.lines) - k
  /\ \A i \in 1 .. Len(t.lines) - k : d.lines[i] = t.lines[k + i]
\* DropTo leaves such a text.
LEMMA DropReadable ==
  ASSUME NEW t, Readable(t), NEW k \in 0 .. Len(t.lines), NEW d, d = Tx!DropTo(t, k + 1)
  PROVE  IsRest(t, k, d)
  <1>1. PICK len : len = Len(t.lines)
    OBVIOUS
  <1>2. t.lines \in Seq(GoodLines) /\ t.newline \in BOOLEAN /\ len \in Nat /\ k \in 0 .. len
    BY <1>1 DEF Readable
  <1>3. d = [lines |-> SubSeq(t.lines, k + 1, len), newline |-> t.newline]
    BY <1>1 DEF Tx!DropTo, Tx!Text
  <1>4. d.lines = SubSeq(t.lines, k + 1, len) /\ d.newline = t.newline
    BY <1>3
  <1>5. PICK r : r = d.lines
    OBVIOUS
  <1>6. len \in k .. len
    BY <1>2
  <1>7. r \in Seq(GoodLines) /\ Len(r) = len - k /\ \A i \in 1 .. len - k : r[i] = t.lines[k + i]
    BY <1>1, <1>2, <1>4, <1>5, <1>6, PartIs
  <1>8. d \in [lines : Seq(GoodLines), newline : BOOLEAN]
    BY <1>2, <1>3, <1>4, <1>5, <1>7
  <1>9. ASSUME ~d.newline, Len(r) # 0 PROVE Len(r[Len(r)].body) # 3
    <2>1. len - k \in 1 .. len - k /\ k + (len - k) = len /\ len # 0
      BY <1>2, <1>7, <1>9
    <2>2. r[Len(r)] = t.lines[len]
      BY <1>7, <2>1
    <2> QED BY <1>1, <1>4, <1>9, <2>1, <2>2 DEF Readable
  <1> QED BY <1>1, <1>5, <1>7, <1>8, <1>9 DEF Readable, IsRest

\* What is found from the k-th line on.
BetweenMarks(lines, k, m) == Tx!Text(SubSeq(lines, k + 1, m - 1), TRUE)
IsFoundAfter(lines, k, m, found) ==
  /\ NextMark(lines, k, m)
  /\ found.before = BetweenMarks(lines, k, m)
  /\ Len(found.before.lines) = m - k - 1
  /\ found.name = IF m <= Len(lines) THEN lines[m].body[2] ELSE NoName

\* FindFileMarker, on what is left after the k-th line.
LEMMA FoundAfter ==
  ASSUME NEW t, Readable(t), NEW k \in 0 .. Len(t.lines)
  PROVE  \E m : IsFoundAfter(t.lines, k, m, Tx!FindFileMarker(Tx!DropTo(t, k + 1)))
  <1>1. PICK d, lines : d = Tx!DropTo(t, k + 1) /\ lines = t.lines
    OBVIOUS
  <1>2. PICK len, found : len = Len(lines) /\ found = Tx!FindFileMarker(d)
    OBVIOUS
  <1>3. lines \in Seq(GoodLines) /\ len \in Nat /\ k \in 0 .. len
    BY <1>1, <1>2 DEF Readable
  <1>4. Readable(d) /\ Len(d.lines) = len - k /\ \A i \in 1 .. len - k : d.lines[i] = lines[k + i]
    <2>1. IsRest(t, k, d)
      BY <1>1, DropReadable
    <2> QED BY <1>1, <1>2, <2>1 DEF IsRest
  <1>5. PICK n : IsFound(d, n, found)
    BY <1>2, <1>4, FoundRight
  <1>6. PICK m : m = k + n
    OBVIOUS
  <1>7. n \in 0 + 1 .. len - k + 1
    BY <1>4, <1>5 DEF IsFound, NextMark
  <1>8. n \in Nat /\ m \in k + 1 .. len + 1 /\ (n <= len - k <=> m <= len) /\ m - 1 \in k .. len
    BY <1>3, <1>6, <1>7
  <1>9. m <= len => d.lines[n] = lines[m]
    BY <1>3, <1>4, <1>6, <1>7, <1>8
  <1>10. NextMark(lines, k, m)
    <2>1. ASSUME NEW j \in k + 1 .. m - 1 PROVE ~Named(lines[j])
      <3>1. j - k \in 0 + 1 .. n - 1 /\ j - k \in 1 .. len - k /\ k + (j - k) = j
        BY <1>3, <1>6, <1>7
      <3>2. ~Named(d.lines[j - k])
        BY <1>5, <3>1 DEF IsFound, NextMark
      <3>3. d.lines[j - k] = lines[j]
        BY <1>4, <3>1
      <3> QED BY <3>2, <3>3
    <2>2. ASSUME m <= len PROVE Named(lines[m])
      <3>1. n <= Len(d.lines)
        BY <1>4, <1>8, <2>2
      <3>2. Named(d.lines[n])
        BY <1>5, <3>1 DEF IsFound, NextMark
      <3> QED BY <1>9, <2>2, <3>2
    <2> QED BY <1>2, <1>8, <2>1, <2>2 DEF NextMark
  <1>11. found.name = IF m <= len THEN lines[m].body[2] ELSE NoName
    <2>1. found.name = IF n <= Len(d.lines) THEN d.lines[n].body[2] ELSE NoName
      BY <1>5 DEF IsFound
    <2> QED BY <1>4, <1>8, <1>9, <2>1
  <1>12. PICK r, s : r = SubSeq(d.lines, 1, n - 1) /\ s = SubSeq(lines, k + 1, m - 1)
    OBVIOUS
  <1>13. s \in Seq(GoodLines) /\ Len(s) = m - 1 - k /\ \A i \in 1 .. m - 1 - k : s[i] = lines[k + i]
    <2>1. PICK e : e = m - 1
      OBVIOUS
    <2>2. e \in k .. Len(lines) /\ s = SubSeq(lines, k + 1, e)
      BY <1>2, <1>8, <1>12, <2>1
    <2>3. s \in Seq(GoodLines) /\ Len(s) = e - k /\ \A i \in 1 .. e - k : s[i] = lines[k + i]
      BY <1>2, <1>3, <2>2, PartIs
    <2> QED BY <2>1, <2>3
  <1>14. r \in Seq(GoodLines) /\ Len(r) = n - 1 /\ \A i \in 1 .. n - 1 : r[i] = d.lines[i]
    <2>1. PICK e : e = n - 1
      OBVIOUS
    <2>2. d.lines \in Seq(GoodLines) /\ 0 \in 0 .. Len(d.lines) /\ e \in 0 .. Len(d.lines)
      BY <1>3, <1>4, <1>7, <2>1 DEF Readable
    <2>3. 0 + 1 = 1 /\ e - 0 = e /\ \A i \in 1 .. e : 0 + i = i
      BY <2>2
    <2>4. r = SubSeq(d.lines, 0 + 1, e)
      BY <1>12, <2>1, <2>3
    <2>5. r \in Seq(GoodLines) /\ Len(r) = e - 0 /\ \A i \in 1 .. e - 0 : r[i] = d.lines[0 + i]
      BY <2>2, <2>4, PartIs
    <2> QED BY <2>1, <2>3, <2>5
  <1>15. r = s
    <2>1. Len(r) = Len(s)
      BY <1>6, <1>8, <1>13, <1>14
    <2>2. ASSUME NEW i \in 1 .. Len(r) PROVE r[i] = s[i]
      <3>1. i \in 1 .. n - 1 /\ i \in 1 .. m - 1 - k /\ i \in 1 .. len - k
        BY <1>3, <1>6, <1>7, <1>14
      <3> QED BY <1>4, <1>13, <1>14, <3>1
    <2> QED BY <1>13, <1>14, <2>1, <2>2, SeqEqual
  <1>16. found.before = BetweenMarks(lines, k, m)
    BY <1>5, <1>12, <1>15 DEF IsFound, BetweenMarks
  <1>17. Len(found.before.lines) = m - k - 1
    <2>1. found.before = Tx!Text(s, TRUE)
      BY <1>12, <1>16 DEF BetweenMarks
    <2>2. found.before.lines = s
      BY <2>1 DEF Tx!Text
    <2> QED BY <1>8, <1>13, <2>2
  <1> QED BY <1>1, <1>2, <1>10, <1>11, <1>16, <1>17 DEF IsFoundAfter

\* A file from its marker to the next.
FileOf(lines, k, m) == [name |-> lines[k].body[2], data |-> BetweenMarks(lines, k, m)]

\* The files from a marker on: to the next one, and those from there on.
Unpacked(lines, f) ==
  \A k \in 1 .. Len(lines), m \in 1 .. Len(lines) + 1 :
    Named(lines[k]) /\ NextMark(lines, k, m) =>
      f[k] = IF m > Len(lines) THEN <<FileOf(lines, k, m)>> ELSE <<FileOf(lines, k, m)>> \o f[m]

\* The loop of FilesFrom.
LEMMA FilesLoop ==
  ASSUME NEW t, Readable(t)
  PROVE  \E f : Unpacked(t.lines, f) /\ \A n : Tx!FilesFrom(t, n) = f[n]
  <1> DEFINE found(k) == Tx!FindFileMarker(Tx!DropTo(t, k + 1))
             file(k) == <<[name |-> Tx!IsMarker(t, k), data |-> found(k).before]>>
             Body(f, k) == IF found(k).name \in {NoName, Crash} THEN file(k)
                           ELSE file(k) \o f[k + Len(found(k).before.lines) + 1]
  <1>1. PICK lines, len : lines = t.lines /\ len = Len(lines)
    OBVIOUS
  <1>2. lines \in Seq(GoodLines) /\ len \in Nat /\ \A k \in 1 .. len : lines[k] \in GoodLines
    BY <1>1 DEF Readable
  <1>3. ASSUME NEW k \in 1 .. len
        PROVE  \E m : /\ NextMark(lines, k, m) /\ m \in k + 1 .. len + 1
                      /\ found(k).before = BetweenMarks(lines, k, m)
                      /\ found(k).name \in {NoName, Crash} <=> m > len
                      /\ k + Len(found(k).before.lines) + 1 = m
    <2>1. k \in 0 .. Len(t.lines)
      BY <1>1, <1>2
    <2>2. PICK m : IsFoundAfter(lines, k, m, found(k))
      BY <1>1, <2>1, FoundAfter
    <2> HIDE DEF found
    <2>3. m \in k + 1 .. len + 1 /\ NextMark(lines, k, m)
      BY <1>1, <2>2 DEF IsFoundAfter, NextMark
    <2>4. found(k).before = BetweenMarks(lines, k, m) /\ Len(found(k).before.lines) = m - k - 1
          /\ found(k).name = (IF m <= len THEN lines[m].body[2] ELSE NoName)
      BY <1>1, <2>2 DEF IsFoundAfter
    <2>5. m <= len => lines[m] \in GoodLines /\ Named(lines[m])
      BY <1>1, <1>2, <2>3 DEF NextMark
    <2>6. m <= len => lines[m].body[2] \in FileNames
      BY <2>5, NamedBody
    <2>7. found(k).name \in {NoName, Crash} <=> m > len
      BY <1>2, <2>3, <2>4, <2>6, FilesAssumption
    <2>8. k + Len(found(k).before.lines) + 1 = m
      BY <1>2, <2>3, <2>4
    <2> QED BY <2>3, <2>4, <2>7, <2>8
  <1>4. ASSUME NEW k \in 1 .. len, NEW g, NEW h, \A i \in k + 1 .. len : g[i] = h[i]
        PROVE  Body(g, k) = Body(h, k)
    <2> HIDE DEF found, file
    <2>1. PICK m : /\ m \in k + 1 .. len + 1
                   /\ found(k).name \in {NoName, Crash} <=> m > len
                   /\ k + Len(found(k).before.lines) + 1 = m
      BY <1>3
    <2>2. CASE m > len
      BY <2>1, <2>2
    <2>3. CASE ~(m > len)
      <3>1. m \in k + 1 .. len
        BY <1>2, <2>1, <2>3
      <3> QED BY <1>4, <2>1, <2>3, <3>1
    <2> QED BY <2>2, <2>3
  <1>5. \E f : f = [k \in 1 .. len |-> Body(f, k)]
    <2> DEFINE Lacking == {n \in 0 .. len : ~ \E f : f = [k \in len - n + 1 .. len |-> Body(f, k)]}
    <2>1. Lacking = {}
      <3> SUFFICES ASSUME Lacking # {} PROVE FALSE
        OBVIOUS
      <3>0. Lacking \subseteq Nat
        OBVIOUS
      <3>1. PICK n \in Lacking : \A m \in Lacking : n <= m
        BY <3>0, Least
      <3>a. n \in 0 .. len
        OBVIOUS
      <3> HIDE DEF Body
      <3>2. CASE n = 0
        <4> DEFINE g == [k \in len - 0 + 1 .. len |-> <<>>]
        <4>1. len - 0 + 1 .. len = {}
          BY <1>2
        <4>2. \A k \in len - 0 + 1 .. len : Body(g, k) = <<>>
          BY <4>1
        <4>3. g = [k \in len - 0 + 1 .. len |-> Body(g, k)]
          BY <4>2
        <4> QED BY <3>2, <4>3
      <3>3. CASE n # 0
        <4>1. n - 1 \in 0 .. len /\ ~(n <= n - 1)
          BY <1>2, <3>a, <3>3
        <4>2. n - 1 \notin Lacking
          BY <3>1, <4>1
        <4>3. PICK f : f = [k \in len - (n - 1) + 1 .. len |-> Body(f, k)]
          BY <4>1, <4>2
        <4>4. PICK p : p = len - n + 1
          OBVIOUS
        <4>5. p \in 1 .. len /\ p + 1 = len - (n - 1) + 1
          BY <1>2, <3>a, <3>3, <4>4
        <4>6. f = [k \in p + 1 .. len |-> Body(f, k)]
          BY <4>3, <4>5
        <4> DEFINE g == [k \in p .. len |-> IF k = p THEN Body(f, p) ELSE f[k]]
        <4>7. \A i \in p + 1 .. len : g[i] = f[i]
          BY <4>5
        <4>8. ASSUME NEW k \in p .. len PROVE g[k] = Body(g, k)
          <5>1. k \in 1 .. len /\ \A i \in k + 1 .. len : f[i] = g[i]
            BY <4>5, <4>7
          <5>2. Body(f, k) = Body(g, k)
            BY <1>4, <5>1
          <5>3. CASE k = p
            BY <5>2, <5>3
          <5>4. CASE k # p
            <6>1. k \in p + 1 .. len
              BY <4>5, <5>4
            <6> QED BY <4>6, <5>2, <5>4, <6>1
          <5> QED BY <5>3, <5>4
        <4>9. g = [k \in p .. len |-> Body(g, k)]
          <5>1. g = [k \in p .. len |-> g[k]]
            OBVIOUS
          <5> HIDE DEF g
          <5> QED BY <4>8, <5>1
        <4>10. \E h : h = [k \in len - n + 1 .. len |-> Body(h, k)]
          <5> HIDE DEF g
          <5> QED BY <4>4, <4>9
        <4> QED BY <4>10
      <3> QED BY <3>2, <3>3
    <2>2. len \in 0 .. len /\ len - len + 1 = 1
      BY <1>2
    <2>3. \E f : f = [k \in len - len + 1 .. len |-> Body(f, k)]
      BY <2>1, <2>2
    <2> QED BY <2>2, <2>3
  <1>6. \E f : f = [k \in 1 .. len |-> Body(f, k)] /\ \A n : Tx!FilesFrom(t, n) = f[n]
    <2> DEFINE from[k \in 1 .. Len(t.lines)] ==
                 IF found(k).name \in {NoName, Crash} THEN file(k)
                 ELSE file(k) \o from[k + Len(found(k).before.lines) + 1]
    <2>1. \A n : Tx!FilesFrom(t, n) = from[n]
      BY DEF Tx!FilesFrom
    <2>2. from = CHOOSE f : f = [k \in 1 .. len |-> Body(f, k)]
      BY <1>1
    <2> HIDE DEF from, Body
    <2>3. from = [k \in 1 .. len |-> Body(from, k)]
      BY <1>5, <2>2
    <2> QED BY <2>1, <2>3
  <1>7. PICK f : f = [k \in 1 .. len |-> Body(f, k)] /\ \A n : Tx!FilesFrom(t, n) = f[n]
    BY <1>6
  <1>8. ASSUME NEW k \in 1 .. len, NEW m \in 1 .. len + 1, Named(lines[k]), NextMark(lines, k, m)
        PROVE  f[k] = IF m > len THEN <<FileOf(lines, k, m)>> ELSE <<FileOf(lines, k, m)>> \o f[m]
    <2>1. f[k] = Body(f, k)
      <3> HIDE DEF Body
      <3> QED BY <1>7
    <2> HIDE DEF found
    <2>2. PICK n : /\ NextMark(lines, k, n) /\ found(k).before = BetweenMarks(lines, k, n)
                   /\ found(k).name \in {NoName, Crash} <=> n > len
                   /\ k + Len(found(k).before.lines) + 1 = n
      BY <1>3
    <2>3. k \in 0 .. Len(lines) /\ Len(lines) \in Nat
      BY <1>1, <1>2
    <2>4. m = n
      BY <1>8, <2>2, <2>3, NextMarkOnce
    <2>5. k \in 1 .. Len(t.lines)
      BY <1>1
    <2>6. Tx!IsMarker(t, k) = lines[k].body[2]
      BY <1>1, <1>8, <2>5, MarkIs
    <2>7. file(k) = <<FileOf(lines, k, m)>>
      BY <2>2, <2>4, <2>6 DEF FileOf
    <2> HIDE DEF file
    <2> QED BY <2>1, <2>2, <2>4, <2>7
  <1>9. Unpacked(lines, f)
    BY <1>1, <1>8 DEF Unpacked
  <1> QED BY <1>1, <1>7, <1>9

\* What Parse finds.
LEMMA ParseIs ==
  ASSUME NEW t, Readable(t)
  PROVE  \E f, m : /\ Unpacked(t.lines, f) /\ NextMark(t.lines, 0, m)
                   /\ Tx!Parse(t) = [comment |-> Tx!Text(SubSeq(t.lines, 1, m - 1), TRUE),
                                     files |-> IF m > Len(t.lines) THEN <<>> ELSE f[m]]
  <1>1. PICK lines, len : lines = t.lines /\ len = Len(lines)
    OBVIOUS
  <1>2. PICK found, m : found = Tx!FindFileMarker(t) /\ IsFound(t, m, found)
    BY FoundRight
  <1>3. lines \in Seq(GoodLines) /\ len \in Nat /\ m \in 0 + 1 .. len + 1
    BY <1>1, <1>2 DEF Readable, IsFound, NextMark
  <1>4. m \in 1 .. len + 1 /\ m - 1 \in 0 .. Len(lines) /\ 0 \in 0 .. Len(lines)
    BY <1>1, <1>3
  <1>5. found.before = Tx!Text(SubSeq(lines, 1, m - 1), TRUE)
    BY <1>1, <1>2 DEF IsFound
  <1>6. found.before.lines = SubSeq(lines, 1, m - 1)
    <2>1. PICK s : s = SubSeq(lines, 1, m - 1)
      OBVIOUS
    <2>2. found.before = Tx!Text(s, TRUE)
      BY <1>5, <2>1
    <2>3. found.before.lines = s
      BY <2>2 DEF Tx!Text
    <2> QED BY <2>1, <2>3
  <1>7. Len(found.before.lines) + 1 = m
    <2>1. PICK e : e = m - 1
      OBVIOUS
    <2>2. e \in 0 .. Len(lines) /\ e - 0 = e /\ 0 + 1 = 1 /\ e + 1 = m
      BY <1>3, <1>4, <2>1
    <2>3. Len(SubSeq(lines, 0 + 1, e)) = e - 0
      BY <1>3, <1>4, <2>2, PartIs
    <2> QED BY <1>6, <2>1, <2>2, <2>3
  <1>8. found.name \in {NoName, Crash} <=> m > len
    <2>1. found.name = (IF m <= len THEN lines[m].body[2] ELSE NoName)
      BY <1>1, <1>2 DEF IsFound
    <2>2. m <= len => lines[m] \in GoodLines /\ Named(lines[m])
      <3>1. m <= len => Named(lines[m])
        BY <1>1, <1>2 DEF IsFound, NextMark
      <3>2. m <= len => m \in 1 .. len
        BY <1>3, <1>4
      <3> QED BY <1>1, <1>3, <3>1, <3>2
    <2>3. m <= len => lines[m].body[2] \in FileNames
      BY <2>2, NamedBody
    <2> QED BY <1>3, <1>4, <2>1, <2>3, FilesAssumption
  <1>9. PICK f : Unpacked(lines, f) /\ \A n : Tx!FilesFrom(t, n) = f[n]
    BY <1>1, FilesLoop
  <1>10. Tx!Parse(t) = [comment |-> found.before,
                        files |-> IF found.name \in {NoName, Crash} THEN <<>>
                                  ELSE Tx!FilesFrom(t, Len(found.before.lines) + 1)]
    BY <1>2 DEF Tx!Parse
  <1>11. Tx!Parse(t) = [comment |-> Tx!Text(SubSeq(lines, 1, m - 1), TRUE),
                        files |-> IF m > len THEN <<>> ELSE f[m]]
    BY <1>5, <1>7, <1>8, <1>9, <1>10
  <1>12. NextMark(lines, 0, m)
    BY <1>1, <1>2 DEF IsFound
  <1> QED BY <1>1, <1>9, <1>11, <1>12

\* A sequence is one of what its members are in.
LEMMA Retyped ==
  ASSUME NEW A, NEW B, NEW s \in Seq(A), \A i \in 1 .. Len(s) : s[i] \in B
  PROVE  s \in Seq(B)
  OBVIOUS

\* An archive whose markers are those of its files.
GoodTexts == [lines : Seq(GoodLines), newline : {TRUE}]
GoodFiles == [name : FileNames, data : GoodTexts]
GoodArchives == [comment : GoodTexts, files : Seq(GoodFiles)]
CleanTexts == [lines : Seq(TameLines), newline : {TRUE}]
CleanFiles == [name : FileNames, data : CleanTexts]
CleanArchives == [comment : CleanTexts, files : Seq(CleanFiles)]

\* Between two markers there is none.
LEMMA BetweenClean ==
  ASSUME NEW lines \in Seq(GoodLines), NEW k \in 0 .. Len(lines), NEW m, NextMark(lines, k, m)
  PROVE  BetweenMarks(lines, k, m) \in CleanTexts
  <1>1. PICK e : e = m - 1
    OBVIOUS
  <1>2. m \in k + 1 .. Len(lines) + 1 /\ Len(lines) \in Nat
    BY DEF NextMark
  <1>3. e \in k .. Len(lines) /\ k \in Nat
    BY <1>1, <1>2
  <1>4. PICK r : r = SubSeq(lines, k + 1, e)
    OBVIOUS
  <1>5. r \in Seq(GoodLines) /\ Len(r) = e - k /\ \A i \in 1 .. e - k : r[i] = lines[k + i]
    BY <1>3, <1>4, PartIs
  <1>6. ASSUME NEW i \in 1 .. Len(r) PROVE r[i] \in TameLines
    <2>1. k + i \in k + 1 .. m - 1 /\ i \in 1 .. e - k
      BY <1>1, <1>2, <1>3, <1>5
    <2>2. ~Named(lines[k + i])
      BY <2>1 DEF NextMark
    <2>3. r[i] \in GoodLines
      BY <1>5
    <2> QED BY <1>5, <2>1, <2>2, <2>3 DEF TameLines
  <1>7. r \in Seq(TameLines)
    BY <1>5, <1>6, Retyped
  <1> QED BY <1>1, <1>4, <1>7 DEF BetweenMarks, Tx!Text, CleanTexts

\* What is parsed has only the markers of its files.
LEMMA ParseClean ==
  ASSUME NEW t, Readable(t)
  PROVE  Tx!Parse(t) \in CleanArchives
  <1>1. PICK lines, len : lines = t.lines /\ len = Len(lines)
    OBVIOUS
  <1>2. lines \in Seq(GoodLines) /\ len \in Nat /\ len = Len(lines)
    BY <1>1 DEF Readable
  <1>3. PICK f, m : /\ Unpacked(lines, f) /\ NextMark(lines, 0, m)
                    /\ Tx!Parse(t) = [comment |-> Tx!Text(SubSeq(lines, 1, m - 1), TRUE),
                                      files |-> IF m > len THEN <<>> ELSE f[m]]
    BY <1>1, ParseIs
  <1>4. ASSUME NEW k \in 1 .. len PROVE \E n : NextMark(lines, k, n)
    <2>1. k \in 0 .. Len(t.lines)
      BY <1>1, <1>2
    <2> QED BY <1>1, <2>1, FoundAfter DEF IsFoundAfter
  <1>5. ASSUME NEW k \in 1 .. len, Named(lines[k]), NEW n, NextMark(lines, k, n)
        PROVE  FileOf(lines, k, n) \in CleanFiles
    <2>1. lines[k] \in GoodLines /\ k \in 0 .. Len(lines)
      BY <1>2
    <2>2. lines[k].body[2] \in FileNames
      BY <1>5, <2>1, NamedBody
    <2>3. BetweenMarks(lines, k, n) \in CleanTexts
      BY <1>2, <1>5, <2>1, BetweenClean
    <2> QED BY <2>2, <2>3 DEF FileOf, CleanFiles
  <1>6. \A k \in 1 .. len : Named(lines[k]) => f[k] \in Seq(CleanFiles)
    <2> DEFINE Wrong == {n \in 0 .. len : n # len /\ Named(lines[len - n]) /\ f[len - n] \notin Seq(CleanFiles)}
    <2>1. Wrong = {}
      <3> SUFFICES ASSUME Wrong # {} PROVE FALSE
        OBVIOUS
      <3>1. Wrong \subseteq Nat
        OBVIOUS
      <3>2. PICK n \in Wrong : \A l \in Wrong : n <= l
        BY <3>1, Least
      <3>3. PICK k : k = len - n
        OBVIOUS
      <3>4. k \in 1 .. len /\ Named(lines[k]) /\ f[k] \notin Seq(CleanFiles) /\ n \in 0 .. len
        BY <1>2, <3>2, <3>3
      <3>5. PICK j : NextMark(lines, k, j)
        BY <1>4, <3>4
      <3>6. j \in k + 1 .. len + 1 /\ j \in 1 .. Len(lines) + 1
        BY <1>2, <3>4, <3>5 DEF NextMark
      <3>7. PICK file : file = FileOf(lines, k, j) /\ file \in CleanFiles
        BY <1>5, <3>4, <3>5
      <3>8. f[k] = IF j > len THEN <<file>> ELSE <<file>> \o f[j]
        BY <1>2, <1>3, <3>4, <3>5, <3>6, <3>7 DEF Unpacked
      <3>9. <<file>> \in Seq(CleanFiles)
        BY <3>7
      <3>10. CASE j > len
        BY <3>4, <3>8, <3>9, <3>10
      <3>11. CASE ~(j > len)
        <4>1. Named(lines[j])
          BY <1>2, <3>5, <3>6, <3>11 DEF NextMark
        <4>2. len - j \in 0 .. len /\ ~(n <= len - j) /\ len - (len - j) = j /\ len - j # len
          BY <1>2, <3>3, <3>4, <3>6, <3>11
        <4>3. len - j \notin Wrong
          BY <3>2, <4>2
        <4>4. f[j] \in Seq(CleanFiles)
          BY <4>1, <4>2, <4>3
        <4> HIDE DEF Wrong
        <4>5. <<file>> \o f[j] \in Seq(CleanFiles)
          BY <3>9, <4>4, ConcatProperties
        <4> QED BY <3>4, <3>8, <3>11, <4>5
      <3> QED BY <3>10, <3>11
    <2>2. ASSUME NEW k \in 1 .. len, Named(lines[k]) PROVE f[k] \in Seq(CleanFiles)
      <3>1. len - k \in 0 .. len /\ len - (len - k) = k /\ len - k # len
        BY <1>2
      <3> QED BY <2>1, <2>2, <3>1
    <2> QED BY <2>2
  <1>7. Tx!Text(SubSeq(lines, 1, m - 1), TRUE) \in CleanTexts
    <2>1. 0 \in 0 .. Len(lines) /\ 0 + 1 = 1
      BY <1>2
    <2>2. BetweenMarks(lines, 0, m) \in CleanTexts
      BY <1>2, <1>3, <2>1, BetweenClean
    <2> QED BY <2>1, <2>2 DEF BetweenMarks
  <1>8. (IF m > len THEN <<>> ELSE f[m]) \in Seq(CleanFiles)
    <2>1. CASE m > len
      BY <2>1
    <2>2. CASE ~(m > len)
      <3>1. m \in 1 .. len /\ Named(lines[m])
        BY <1>2, <1>3, <2>2 DEF NextMark
      <3> QED BY <1>6, <2>2, <3>1
    <2> QED BY <2>1, <2>2
  <1>9. PICK c, g : c = Tx!Text(SubSeq(lines, 1, m - 1), TRUE) /\ g = IF m > len THEN <<>> ELSE f[m]
    OBVIOUS
  <1>10. Tx!Parse(t) = [comment |-> c, files |-> g]
    BY <1>3, <1>9
  <1>11. c \in CleanTexts /\ g \in Seq(CleanFiles)
    BY <1>7, <1>8, <1>9
  <1> QED BY <1>10, <1>11 DEF CleanArchives

\* Where the parts of an archive are in its text.
Archived(lines, a, P) ==
  /\ lines \in Seq(GoodLines) /\ P[1] = Len(a.comment.lines) + 1
  /\ P[Len(a.files) + 1] = Len(lines) + 1
  /\ \A i \in 1 .. Len(a.files) + 1 : P[i] \in 1 .. Len(lines) + 1
  /\ \A i \in 1 .. Len(a.comment.lines) : lines[i] = a.comment.lines[i]
  /\ \A i \in 1 .. Len(a.files) :
       /\ P[i + 1] = P[i] + Len(a.files[i].data.lines) + 1
       /\ lines[P[i]] = Tx!Line(0, Tx!Marker(a.files[i].name))
       /\ \A k \in 1 .. Len(a.files[i].data.lines) : lines[P[i] + k] = a.files[i].data.lines[k]

\* A marker is a line, and is one.
LEMMA MarkerNamed ==
  ASSUME NEW name \in FileNames
  PROVE  LET line == Tx!Line(0, Tx!Marker(name))
         IN line \in GoodLines /\ Named(line) /\ line.body[2] = name
  <1>1. PICK line : line = Tx!Line(0, Tx!Marker(name))
    OBVIOUS
  <1>2. line = [quotes |-> 0, body |-> <<"marker", name>>]
    BY <1>1 DEF Tx!Line, Tx!Marker
  <1>3. line.body[1] = "marker" /\ line.body[2] = name /\ line.quotes = 0
    BY <1>2
  <1>4. line.body \in AnyBodies
    BY <1>2 DEF AnyBodies, Tx!Marker
  <1>5. line \in [quotes : Nat, body : AnyBodies]
    BY <1>2, <1>4
  <1>6. line # Tx!Line(0, Tx!Bare)
    <2>1. <<"marker", name>> # <<"bare">>
      <3>1. "marker" # "bare"
        OBVIOUS
      <3>2. <<"marker", name>>[1] = "marker" /\ <<"bare">>[1] = "bare"
        OBVIOUS
      <3> QED BY <3>1, <3>2
    <2> QED BY <1>2, <2>1 DEF Tx!Line, Tx!Bare
  <1> QED BY <1>1, <1>3, <1>5, <1>6 DEF GoodLines, Named

\* The text of an archive has its parts one after the other.
LEMMA FormatIs ==
  ASSUME NEW a \in GoodArchives
  PROVE  \E lines, P : Tx!Format(a) = Tx!Text(lines, TRUE) /\ Archived(lines, a, P)
  <1>1. PICK files, head, len, c : /\ files = a.files /\ head = a.comment.lines
                                   /\ len = Len(files) /\ c = Len(head)
    OBVIOUS
  <1>2. files \in Seq(GoodFiles) /\ head \in Seq(GoodLines) /\ len \in Nat /\ c \in Nat
        /\ DOMAIN files = 1 .. len /\ \A i \in 1 .. len : files[i] \in GoodFiles
    BY <1>1 DEF GoodArchives, GoodTexts
  <1>3. \A i \in 1 .. len : files[i].name \in FileNames /\ files[i].data.lines \in Seq(GoodLines)
    BY <1>2 DEF GoodFiles, GoodTexts
  <1> DEFINE mark(i) == Tx!Line(0, Tx!Marker(files[i].name))
             seqs == [i \in DOMAIN files |-> <<mark(i)>> \o files[i].data.lines]
  <1>4. ASSUME NEW i \in 1 .. len
        PROVE  /\ seqs[i] \in Seq(GoodLines) /\ Len(seqs[i]) = Len(files[i].data.lines) + 1
               /\ seqs[i][1] = mark(i)
               /\ \A k \in 1 .. Len(files[i].data.lines) : seqs[i][1 + k] = files[i].data.lines[k]
    <2>1. PICK d, b, w : d = files[i].data.lines /\ b = mark(i) /\ w = <<b>> \o d
      OBVIOUS
    <2>2. b \in GoodLines
      BY <1>3, <2>1, MarkerNamed
    <2> HIDE DEF mark
    <2>3. d \in Seq(GoodLines) /\ Len(d) \in Nat /\ <<b>> \in Seq(GoodLines) /\ Len(<<b>>) = 1 /\ <<b>>[1] = b
      BY <1>3, <2>1, <2>2
    <2>4. /\ w \in Seq(GoodLines) /\ Len(w) = Len(<<b>>) + Len(d)
          /\ \A k \in 1 .. Len(<<b>>) + Len(d) : w[k] = IF k <= Len(<<b>>) THEN <<b>>[k] ELSE d[k - Len(<<b>>)]
      BY <2>1, <2>3, ConcatProperties
    <2>5. w[1] = b
      BY <2>3, <2>4
    <2>6. ASSUME NEW k \in 1 .. Len(d) PROVE w[1 + k] = d[k]
      <3>1. 1 + k \in 1 .. 1 + Len(d) /\ ~(1 + k <= 1) /\ (1 + k) - 1 = k
        BY <2>3
      <3> QED BY <2>3, <2>4, <3>1
    <2>7. seqs[i] = w
      BY <1>2, <2>1
    <2>8. Len(w) = Len(d) + 1
      BY <2>3, <2>4
    <2> HIDE DEF seqs
    <2> QED BY <2>1, <2>4, <2>5, <2>6, <2>7, <2>8
  <1>5. seqs \in Seq(Seq(GoodLines)) /\ Len(seqs) = len
    <2>1. seqs = [i \in 1 .. len |-> seqs[i]]
      BY <1>2
    <2> HIDE DEF seqs
    <2>2. \A i \in 1 .. len : seqs[i] \in Seq(GoodLines)
      BY <1>4
    <2>3. PICK T : T = Seq(GoodLines)
      OBVIOUS
    <2>4. seqs \in [1 .. len -> T]
      BY <2>1, <2>2, <2>3
    <2> QED BY <1>2, <2>3, <2>4
  <1>6. Tx!Format(a) = Tx!Text(head \o Tx!S!FlattenSeq(seqs), TRUE)
    BY <1>1 DEF Tx!Format
  <1>7. Tx!S!FlattenSeq(seqs) = Q!FlattenSeq(seqs)
    <2> HIDE DEF seqs
    <2> QED BY DEF Tx!S!FlattenSeq, Q!FlattenSeq
  <1> HIDE DEF seqs
  <1>8. PICK F : Joins(GoodLines, seqs, F)
    BY <1>5, FlattenJoins
  <1>9. PICK text : text = Q!FlattenSeq(seqs)
    OBVIOUS
  <1>10. Laid(seqs, text, F)
    BY <1>5, <1>8, <1>9, JoinsAt
  <1>11. text \in Seq(GoodLines) /\ F[0] = <<>> /\ text = F[len]
    BY <1>2, <1>5, <1>8, <1>9 DEF Joins
  <1>12. /\ Len(text) \in Nat /\ Len(F[0]) = 0 /\ Len(F[len]) = Len(text)
         /\ \A n \in 0 .. len : Len(F[n]) \in 0 .. Len(text)
         /\ \A n \in 1 .. len :
              /\ Len(F[n]) = Len(F[n - 1]) + Len(seqs[n])
              /\ \A k \in 1 .. Len(seqs[n]) : text[Len(F[n - 1]) + k] = seqs[n][k]
    BY <1>5, <1>10, <1>11 DEF Laid
  <1>13. PICK lines : lines = head \o text
    OBVIOUS
  <1>14. /\ lines \in Seq(GoodLines) /\ Len(lines) = c + Len(text)
         /\ \A i \in 1 .. c + Len(text) : lines[i] = IF i <= c THEN head[i] ELSE text[i - c]
    <2>1. head \in Seq(GoodLines) /\ text \in Seq(GoodLines) /\ Len(head) = c
      BY <1>1, <1>2, <1>11
    <2>2. /\ lines \in Seq(GoodLines) /\ Len(lines) = Len(head) + Len(text)
          /\ \A i \in 1 .. Len(head) + Len(text) :
               lines[i] = IF i <= Len(head) THEN head[i] ELSE text[i - Len(head)]
      BY <1>13, <2>1, ConcatProperties
    <2> QED BY <2>1, <2>2
  <1> DEFINE P == [i \in 1 .. len + 1 |-> c + Len(F[i - 1]) + 1]
  <1>15. \A i \in 1 .. len + 1 : P[i] = c + Len(F[i - 1]) + 1
    OBVIOUS
  <1> HIDE DEF P
  <1>16. P[1] = c + 1 /\ P[len + 1] = Len(lines) + 1
    <2>1. 1 \in 1 .. len + 1 /\ len + 1 \in 1 .. len + 1 /\ 1 - 1 = 0 /\ (len + 1) - 1 = len
      BY <1>2
    <2>2. P[1] = c + 0 + 1 /\ P[len + 1] = c + Len(text) + 1
      BY <1>12, <1>15, <2>1
    <2> QED BY <1>2, <1>12, <1>14, <2>2
  <1>17. ASSUME NEW i \in 1 .. len + 1 PROVE P[i] \in 1 .. Len(lines) + 1
    <2>1. i - 1 \in 0 .. len
      BY <1>2
    <2>2. Len(F[i - 1]) \in 0 .. Len(text)
      BY <1>12, <2>1
    <2>3. P[i] = c + Len(F[i - 1]) + 1
      BY <1>15
    <2> QED BY <1>2, <1>12, <1>14, <2>2, <2>3
  <1>18. \A i \in 1 .. c : lines[i] = head[i]
    BY <1>2, <1>12, <1>14
  <1>19. ASSUME NEW i \in 1 .. len
         PROVE  /\ P[i + 1] = P[i] + Len(files[i].data.lines) + 1
                /\ lines[P[i]] = mark(i)
                /\ \A k \in 1 .. Len(files[i].data.lines) : lines[P[i] + k] = files[i].data.lines[k]
    <2> HIDE DEF mark
    <2>1. PICK b, e, n : b = Len(F[i - 1]) /\ e = Len(F[i]) /\ n = Len(files[i].data.lines)
      OBVIOUS
    <2>2. i - 1 \in 0 .. len /\ i \in 0 .. len /\ i \in 1 .. len + 1 /\ i + 1 \in 1 .. len + 1 /\ (i + 1) - 1 = i
      BY <1>2
    <2>3. n \in Nat /\ b \in 0 .. Len(text) /\ e \in 0 .. Len(text)
      BY <1>3, <1>12, <2>1, <2>2
    <2>4. Len(seqs[i]) = n + 1
      BY <1>4, <2>1
    <2>5. e = b + (n + 1) /\ \A k \in 1 .. n + 1 : text[b + k] = seqs[i][k]
      BY <1>12, <2>1, <2>4
    <2>6. P[i] = c + b + 1 /\ P[i + 1] = c + e + 1
      BY <1>15, <2>1, <2>2
    <2>7. P[i + 1] = P[i] + n + 1
      BY <1>2, <2>3, <2>5, <2>6
    <2>8. ASSUME NEW k \in 1 .. n + 1 PROVE lines[c + b + k] = seqs[i][k]
      <3>1. c + b + k \in 1 .. c + Len(text) /\ ~(c + b + k <= c) /\ (c + b + k) - c = b + k
        BY <1>2, <1>12, <2>3, <2>5
      <3>2. lines[c + b + k] = text[b + k]
        BY <1>14, <3>1
      <3> QED BY <2>5, <3>2
    <2>9. lines[P[i]] = mark(i)
      <3>1. 1 \in 1 .. n + 1
        BY <2>3
      <3> QED BY <1>4, <2>6, <2>8, <3>1
    <2>10. ASSUME NEW k \in 1 .. n PROVE lines[P[i] + k] = files[i].data.lines[k]
      <3>1. 1 + k \in 1 .. n + 1 /\ c + b + (1 + k) = c + b + 1 + k
        BY <1>2, <2>3
      <3>2. lines[P[i] + k] = seqs[i][1 + k]
        BY <2>6, <2>8, <3>1
      <3>3. seqs[i][1 + k] = files[i].data.lines[k]
        BY <1>4, <2>1
      <3> QED BY <3>2, <3>3
    <2> QED BY <2>1, <2>7, <2>9, <2>10
  <1>20. Archived(lines, a, P)
    BY <1>1, <1>14, <1>16, <1>17, <1>18, <1>19 DEF Archived
  <1>21. Tx!Format(a) = Tx!Text(lines, TRUE)
    BY <1>6, <1>7, <1>9, <1>13
  <1> QED BY <1>20, <1>21

\* A member before those that follow it.
LEMMA Prepended ==
  ASSUME NEW A, NEW s \in Seq(A), NEW i \in 1 .. Len(s), NEW j, j = i + 1
  PROVE  <<s[i]>> \o SubSeq(s, j, Len(s)) = SubSeq(s, i, Len(s))
  <1>1. PICK len, v, r, t : /\ len = Len(s) /\ v = s[i]
                            /\ r = SubSeq(s, i + 1, len) /\ t = SubSeq(s, (i - 1) + 1, len)
    OBVIOUS
  <1>2. len \in Nat /\ i \in 1 .. len /\ v \in A
    BY <1>1
  <1>3. i \in 0 .. Len(s) /\ i - 1 \in 0 .. Len(s) /\ len \in i .. Len(s) /\ len \in i - 1 .. Len(s)
    BY <1>1, <1>2
  <1>4. r \in Seq(A) /\ Len(r) = len - i /\ \A k \in 1 .. len - i : r[k] = s[i + k]
    BY <1>1, <1>3, PartIs
  <1>5. t \in Seq(A) /\ Len(t) = len - (i - 1) /\ \A k \in 1 .. len - (i - 1) : t[k] = s[(i - 1) + k]
    <2>1. PICK e : e = i - 1
      OBVIOUS
    <2>2. e \in 0 .. Len(s) /\ len \in e .. Len(s) /\ t = SubSeq(s, e + 1, len)
      BY <1>1, <1>3, <2>1
    <2>3. t \in Seq(A) /\ Len(t) = len - e /\ \A k \in 1 .. len - e : t[k] = s[e + k]
      BY <2>2, PartIs
    <2> QED BY <2>1, <2>3
  <1>6. <<v>> \in Seq(A) /\ Len(<<v>>) = 1 /\ <<v>>[1] = v
    BY <1>2
  <1>7. PICK w : w = <<v>> \o r
    OBVIOUS
  <1>8. /\ w \in Seq(A) /\ Len(w) = Len(<<v>>) + Len(r)
        /\ \A k \in 1 .. Len(<<v>>) + Len(r) : w[k] = IF k <= Len(<<v>>) THEN <<v>>[k] ELSE r[k - Len(<<v>>)]
    BY <1>4, <1>6, <1>7, ConcatProperties
  <1>9. Len(w) = Len(t)
    BY <1>2, <1>4, <1>5, <1>6, <1>8
  <1>10. ASSUME NEW k \in 1 .. Len(w) PROVE w[k] = t[k]
    <2>1. CASE k = 1
      <3>1. w[k] = v
        BY <1>4, <1>6, <1>8, <2>1
      <3>2. 1 \in 1 .. len - (i - 1) /\ (i - 1) + 1 = i
        BY <1>2
      <3> QED BY <1>1, <1>5, <2>1, <3>1, <3>2
    <2>2. CASE k # 1
      <3>1. k - 1 \in 1 .. len - i /\ i + (k - 1) = (i - 1) + k /\ k \in 1 .. len - (i - 1) /\ ~(k <= 1)
        BY <1>2, <1>4, <1>6, <1>8, <2>2
      <3>2. w[k] = r[k - 1]
        BY <1>6, <1>8, <3>1
      <3> QED BY <1>4, <1>5, <3>1, <3>2
    <2> QED BY <2>1, <2>2
  <1>11. w = t
    BY <1>5, <1>8, <1>9, <1>10, SeqEqual
  <1>12. (i - 1) + 1 = i
    BY <1>2
  <1> QED BY <1>1, <1>7, <1>11, <1>12

\* A clean archive has markers where its files begin, and nowhere else.
LEMMA MarksOfFiles ==
  ASSUME NEW a \in CleanArchives, NEW lines, NEW P, Archived(lines, a, P)
  PROVE  /\ NextMark(lines, 0, P[1])
         /\ Tx!Text(SubSeq(lines, 1, P[1] - 1), TRUE) = a.comment
         /\ \A i \in 1 .. Len(a.files) :
              /\ P[i] \in 1 .. Len(lines) /\ Named(lines[P[i]])
              /\ NextMark(lines, P[i], P[i + 1])
              /\ FileOf(lines, P[i], P[i + 1]) = a.files[i]
              /\ P[i + 1] > Len(lines) <=> i = Len(a.files)
  <1>1. PICK files, head, N, c, len : /\ files = a.files /\ head = a.comment.lines
                                      /\ N = Len(files) /\ c = Len(head) /\ len = Len(lines)
    OBVIOUS
  <1>0. files \in Seq(CleanFiles) /\ head \in Seq(TameLines) /\ a.comment = Tx!Text(head, TRUE)
    <2>1. a.files \in Seq(CleanFiles) /\ a.comment \in CleanTexts
      BY DEF CleanArchives
    <2>2. head \in Seq(TameLines) /\ a.comment = [lines |-> head, newline |-> TRUE]
      BY <1>1, <2>1 DEF CleanTexts
    <2> QED BY <1>1, <2>1, <2>2 DEF Tx!Text
  <1>2. /\ files \in Seq(CleanFiles) /\ N \in Nat /\ c \in Nat /\ c = Len(head)
        /\ head \in Seq(TameLines) /\ \A j \in 1 .. c : head[j] \in TameLines
    <2>1. head \in Seq(TameLines) /\ files \in Seq(CleanFiles)
      BY <1>0
    <2>2. Len(files) \in Nat /\ Len(head) \in Nat /\ \A j \in 1 .. Len(head) : head[j] \in TameLines
      BY <2>1
    <2> QED BY <1>1, <2>1, <2>2
  <1>l. lines \in Seq(GoodLines)
    BY DEF Archived
  <1>t. ASSUME NEW s \in Seq(TameLines) PROVE s \in Seq(GoodLines)
    BY DEF TameLines
  <1>s. ASSUME NEW i \in 1 .. N
        PROVE  /\ files[i].name \in FileNames /\ files[i].data.lines \in Seq(TameLines)
               /\ files[i].data = Tx!Text(files[i].data.lines, TRUE)
               /\ files[i] = [name |-> files[i].name, data |-> files[i].data]
    <2>1. files[i] \in CleanFiles
      BY <1>1, <1>2
    <2> QED BY <2>1 DEF CleanFiles, CleanTexts, Tx!Text
  <1>3. \A i \in 1 .. N : files[i].name \in FileNames /\ files[i].data.lines \in Seq(TameLines)
    BY <1>s
  <1>4. /\ lines \in Seq(GoodLines) /\ len \in Nat /\ P[1] = c + 1 /\ P[N + 1] = len + 1
        /\ \A i \in 1 .. N + 1 : P[i] \in 1 .. len + 1
        /\ \A i \in 1 .. c : lines[i] = head[i]
        /\ \A i \in 1 .. N :
             /\ P[i + 1] = P[i] + Len(files[i].data.lines) + 1
             /\ lines[P[i]] = Tx!Line(0, Tx!Marker(files[i].name))
             /\ \A k \in 1 .. Len(files[i].data.lines) : lines[P[i] + k] = files[i].data.lines[k]
    <2>1. lines \in Seq(GoodLines) /\ len \in Nat /\ P[1] = c + 1 /\ P[N + 1] = len + 1
      BY <1>1 DEF Archived
    <2>2. \A i \in 1 .. N + 1 : P[i] \in 1 .. len + 1
      BY <1>1 DEF Archived
    <2>3. \A i \in 1 .. c : lines[i] = head[i]
      BY <1>1 DEF Archived
    <2>4. \A i \in 1 .. N :
             /\ P[i + 1] = P[i] + Len(files[i].data.lines) + 1
             /\ lines[P[i]] = Tx!Line(0, Tx!Marker(files[i].name))
             /\ \A k \in 1 .. Len(files[i].data.lines) : lines[P[i] + k] = files[i].data.lines[k]
      BY <1>1 DEF Archived
    <2> QED BY <2>1, <2>2, <2>3, <2>4
  <1>5. ASSUME NEW i \in 1 .. N
        PROVE  P[i] \in 1 .. len /\ Named(lines[P[i]]) /\ lines[P[i]].body[2] = files[i].name
    <2>1. i \in 1 .. N + 1 /\ i + 1 \in 1 .. N + 1
      BY <1>2
    <2>2. P[i] \in 1 .. len + 1 /\ P[i + 1] \in 1 .. len + 1 /\ Len(files[i].data.lines) \in Nat
          /\ P[i + 1] = P[i] + Len(files[i].data.lines) + 1
      BY <1>3, <1>4, <2>1, SMTT(30)
    <2>3. P[i] \in 1 .. len
      BY <1>4, <2>2, SMTT(30)
    <2> QED BY <1>3, <1>4, <2>3, MarkerNamed
  <1>6. ASSUME NEW i \in 1 .. N + 1 PROVE P[i] <= len => Named(lines[P[i]])
    <2>1. i = N + 1 \/ i \in 1 .. N
      BY <1>2
    <2>2. CASE i = N + 1
      BY <1>4, <2>2
    <2> QED BY <1>5, <2>1, <2>2
  <1>7. NextMark(lines, 0, P[1])
    <2>1. 1 \in 1 .. N + 1
      BY <1>2
    <2>2. P[1] \in 0 + 1 .. len + 1 /\ (P[1] <= len => Named(lines[P[1]]))
      BY <1>4, <1>6, <2>1
    <2>3. ASSUME NEW j \in 0 + 1 .. P[1] - 1 PROVE ~Named(lines[j])
      <3>1. j \in 1 .. c
        <4>1. P[1] - 1 = c /\ 0 + 1 = 1
          BY <1>2, <1>4
        <4> QED BY <4>1
      <3>2. lines[j] = head[j]
        BY <1>4, <3>1
      <3>3. head[j] \in TameLines
        BY <1>2, <3>1
      <3> QED BY <3>2, <3>3 DEF TameLines
    <2> QED BY <1>1, <2>2, <2>3 DEF NextMark
  <1>8. SubSeq(lines, 1, P[1] - 1) = head
    <2>1. 1 \in 1 .. N + 1
      BY <1>2
    <2>0. P[1] \in 1 .. len + 1
      BY <1>4, <2>1
    <2>2. P[1] - 1 = c /\ c \in 0 .. Len(lines) /\ 0 \in 0 .. Len(lines) /\ 0 + 1 = 1 /\ c - 0 = c
      BY <1>1, <1>2, <1>4, <2>0
    <2>3. PICK r : r = SubSeq(lines, 0 + 1, c)
      OBVIOUS
    <2>4. r \in Seq(GoodLines) /\ Len(r) = c - 0 /\ \A i \in 1 .. c - 0 : r[i] = lines[0 + i]
      BY <1>4, <2>2, <2>3, PartIs
    <2>5. ASSUME NEW i \in 1 .. Len(r) PROVE r[i] = head[i]
      <3>1. i \in 1 .. c /\ 0 + i = i
        BY <2>2, <2>4
      <3> QED BY <1>4, <2>2, <2>4, <3>1
    <2>6. r = head
      <3>1. head \in Seq(GoodLines) /\ Len(r) = Len(head)
        BY <1>1, <1>2, <1>t, <2>2, <2>4
      <3> QED BY <2>4, <2>5, <3>1, SeqEqual
    <2> QED BY <2>2, <2>3, <2>6
  <1>9. ASSUME NEW i \in 1 .. N
        PROVE  /\ NextMark(lines, P[i], P[i + 1])
               /\ FileOf(lines, P[i], P[i + 1]) = files[i]
               /\ P[i + 1] > len <=> i = N
    <2>1. PICK p, q, d, n : p = P[i] /\ q = P[i + 1] /\ d = files[i].data.lines /\ n = Len(d)
      OBVIOUS
    <2>2. i + 1 \in 1 .. N + 1
      BY <1>2
    <2>3. d \in Seq(TameLines) /\ n \in Nat /\ p \in 1 .. len /\ q \in 1 .. len + 1 /\ q = p + n + 1
          /\ \A k \in 1 .. n : lines[p + k] = d[k]
      <3>1. d \in Seq(TameLines) /\ n = Len(d)
        BY <1>3, <2>1
      <3>2. n \in Nat
        BY <3>1
      <3>3. p \in 1 .. len
        BY <1>5, <2>1
      <3>4. q \in 1 .. len + 1 /\ q = p + n + 1 /\ \A k \in 1 .. n : lines[p + k] = d[k]
        BY <1>4, <2>1, <2>2
      <3> QED BY <3>1, <3>2, <3>3, <3>4
    <2>4. \A k \in 1 .. n : d[k] \in TameLines
      BY <2>1, <2>3
    <2>5. ASSUME NEW j \in p + 1 .. q - 1 PROVE ~Named(lines[j])
      <3>1. j - p \in 1 .. n /\ p + (j - p) = j
        BY <2>3
      <3>2. lines[j] = d[j - p] /\ d[j - p] \in TameLines
        BY <2>3, <2>4, <3>1
      <3> QED BY <3>2 DEF TameLines
    <2>6. NextMark(lines, p, q)
      <3>1. q <= len => Named(lines[q])
        BY <1>6, <2>1, <2>2
      <3>2. q \in p + 1 .. len + 1
        BY <1>4, <2>3
      <3> QED BY <1>1, <2>5, <3>1, <3>2 DEF NextMark
    <2>7. SubSeq(lines, p + 1, q - 1) = d
      <3>1. PICK e : e = q - 1
        OBVIOUS
      <3>2. e = p + n /\ p \in 0 .. Len(lines) /\ e \in p .. Len(lines) /\ e - p = n
        BY <1>1, <1>4, <2>3, <3>1
      <3>3. PICK r : r = SubSeq(lines, p + 1, e)
        OBVIOUS
      <3>4. r \in Seq(GoodLines) /\ Len(r) = e - p /\ \A k \in 1 .. e - p : r[k] = lines[p + k]
        <4>1. p \in 0 .. Len(lines) /\ e \in p .. Len(lines)
          BY <3>2
        <4> QED BY <1>l, <3>3, <4>1, PartIs
      <3>5. Len(r) = Len(d) /\ \A k \in 1 .. Len(r) : r[k] = d[k]
        BY <2>1, <2>3, <3>2, <3>4
      <3>6. r = d
        BY <1>t, <2>3, <3>4, <3>5, SeqEqual
      <3> QED BY <3>1, <3>3, <3>6
    <2>8. FileOf(lines, p, q) = files[i]
      <3>1. files[i] = [name |-> files[i].name, data |-> Tx!Text(d, TRUE)]
        BY <1>s, <2>1
      <3>2. lines[p].body[2] = files[i].name
        BY <1>5, <2>1
      <3> QED BY <2>7, <3>1, <3>2 DEF FileOf, BetweenMarks
    <2>9. q > len <=> i = N
      <3>1. CASE i = N
        BY <1>4, <2>1, <3>1
      <3>2. CASE i # N
        <4>1. i + 1 \in 1 .. N
          BY <1>2, <3>2
        <4> QED BY <1>4, <1>5, <2>1, <3>2, <4>1
      <3> QED BY <3>1, <3>2
    <2> QED BY <2>1, <2>6, <2>8, <2>9
  <1>10. Tx!Text(SubSeq(lines, 1, P[1] - 1), TRUE) = a.comment
    BY <1>0, <1>8
  <1>11. \A i \in 1 .. Len(a.files) :
              /\ P[i] \in 1 .. Len(lines) /\ Named(lines[P[i]])
              /\ NextMark(lines, P[i], P[i + 1])
              /\ FileOf(lines, P[i], P[i + 1]) = a.files[i]
              /\ P[i + 1] > Len(lines) <=> i = Len(a.files)
    BY <1>1, <1>5, <1>9
  <1> QED BY <1>7, <1>10, <1>11

\* A clean archive is found again in its text.
LEMMA RoundTrip ==
  ASSUME NEW a \in CleanArchives
  PROVE  Tx!Parse(Tx!Format(a)) = a
  <1>1. a \in GoodArchives
    <2>1. TameLines \subseteq GoodLines
      BY DEF TameLines
    <2>2. CleanTexts \subseteq GoodTexts
      <3>1. \A s \in Seq(TameLines) : s \in Seq(GoodLines)
        BY <2>1
      <3> QED BY <3>1 DEF CleanTexts, GoodTexts
    <2>3. CleanFiles \subseteq GoodFiles
      BY <2>2 DEF CleanFiles, GoodFiles
    <2>4. \A s \in Seq(CleanFiles) : s \in Seq(GoodFiles)
      BY <2>3
    <2> QED BY <2>2, <2>4 DEF CleanArchives, GoodArchives
  <1>2. PICK lines, P : Tx!Format(a) = Tx!Text(lines, TRUE) /\ Archived(lines, a, P)
    BY <1>1, FormatIs
  <1>3. PICK t : t = Tx!Format(a)
    OBVIOUS
  <1>4. lines \in Seq(GoodLines)
    BY <1>2 DEF Archived
  <1>5. Readable(t) /\ t.lines = lines
    BY <1>2, <1>3, <1>4 DEF Readable, Tx!Text
  <1>6. PICK f, m : /\ Unpacked(lines, f) /\ NextMark(lines, 0, m)
                    /\ Tx!Parse(t) = [comment |-> Tx!Text(SubSeq(lines, 1, m - 1), TRUE),
                                      files |-> IF m > Len(lines) THEN <<>> ELSE f[m]]
    BY <1>5, ParseIs
  <1>7. PICK files, N, len : files = a.files /\ N = Len(files) /\ len = Len(lines)
    OBVIOUS
  <1>8. /\ files \in Seq(CleanFiles) /\ N \in Nat /\ len \in Nat
        /\ a = [comment |-> a.comment, files |-> files]
    BY <1>4, <1>7 DEF CleanArchives
  <1>9. /\ NextMark(lines, 0, P[1])
        /\ Tx!Text(SubSeq(lines, 1, P[1] - 1), TRUE) = a.comment
        /\ \A i \in 1 .. N :
             /\ P[i] \in 1 .. len /\ Named(lines[P[i]])
             /\ NextMark(lines, P[i], P[i + 1])
             /\ FileOf(lines, P[i], P[i + 1]) = files[i]
             /\ P[i + 1] > len <=> i = N
    <2>1. /\ NextMark(lines, 0, P[1])
          /\ Tx!Text(SubSeq(lines, 1, P[1] - 1), TRUE) = a.comment
          /\ \A i \in 1 .. Len(a.files) :
               /\ P[i] \in 1 .. Len(lines) /\ Named(lines[P[i]])
               /\ NextMark(lines, P[i], P[i + 1])
               /\ FileOf(lines, P[i], P[i + 1]) = a.files[i]
               /\ P[i + 1] > Len(lines) <=> i = Len(a.files)
      BY <1>2, MarksOfFiles
    <2> QED BY <1>7, <2>1
  <1>10. m = P[1]
    BY <1>4, <1>6, <1>7, <1>8, <1>9, NextMarkOnce
  <1>11. \A i \in 1 .. N + 1 : P[i] \in 1 .. len + 1
    BY <1>2, <1>7 DEF Archived
  <1>12. ASSUME NEW i \in 1 .. N
         PROVE  f[P[i]] = IF i = N THEN <<files[i]>> ELSE <<files[i]>> \o f[P[i + 1]]
    <2>1. i + 1 \in 1 .. N + 1
      BY <1>8
    <2>2. PICK p, q : p = P[i] /\ q = P[i + 1]
      OBVIOUS
    <2>3. p \in 1 .. Len(lines) /\ q \in 1 .. Len(lines) + 1 /\ Named(lines[p]) /\ NextMark(lines, p, q)
      BY <1>7, <1>9, <1>11, <2>1, <2>2
    <2>4. f[p] = IF q > Len(lines) THEN <<FileOf(lines, p, q)>> ELSE <<FileOf(lines, p, q)>> \o f[q]
      BY <1>6, <2>3 DEF Unpacked
    <2> QED BY <1>7, <1>9, <2>2, <2>4
  <1>13. \A i \in 1 .. N : f[P[i]] = SubSeq(files, i, N)
    <2> DEFINE Wrong == {n \in 0 .. N : n # N /\ f[P[N - n]] # SubSeq(files, N - n, N)}
    <2>1. Wrong = {}
      <3> SUFFICES ASSUME Wrong # {} PROVE FALSE
        OBVIOUS
      <3>1. Wrong \subseteq Nat
        OBVIOUS
      <3>2. PICK n \in Wrong : \A l \in Wrong : n <= l
        BY <3>1, Least
      <3>3. PICK i : i = N - n
        OBVIOUS
      <3>4. i \in 1 .. N /\ f[P[i]] # SubSeq(files, i, N) /\ n \in 0 .. N
        BY <1>8, <3>2, <3>3
      <3>5. PICK j : j = i + 1
        OBVIOUS
      <3>6. i \in 1 .. Len(files) /\ <<files[i]>> \o SubSeq(files, j, N) = SubSeq(files, i, N)
        BY <1>7, <1>8, <3>4, <3>5, Prepended
      <3>7. CASE i = N
        <4>1. SubSeq(files, j, N) = <<>>
          <5>1. N \in 0 .. Len(files) /\ N \in N .. Len(files) /\ j = N + 1
            BY <1>7, <1>8, <3>5, <3>7
          <5>2. PICK r : r = SubSeq(files, N + 1, N)
            OBVIOUS
          <5>3. r \in Seq(CleanFiles) /\ Len(r) = N - N
            BY <1>8, <5>1, <5>2, PartIs, SMTT(30)
          <5>4. r = <<>>
            BY <1>8, <5>3, EmptySeq
          <5> QED BY <5>1, <5>2, <5>4
        <4>2. <<files[i]>> \o <<>> = <<files[i]>>
          <5>1. files[i] \in CleanFiles
            BY <1>7, <1>8, <3>4
          <5>2. <<files[i]>> \in Seq(CleanFiles)
            BY <5>1
          <5> QED BY <5>2, ConcatEmptySeq
        <4> QED BY <1>12, <3>4, <3>6, <3>7, <4>1, <4>2
      <3>8. CASE i # N
        <4>1. n - 1 \in 0 .. N /\ ~(n <= n - 1) /\ N - (n - 1) = j /\ n - 1 # N
          BY <1>8, <3>3, <3>4, <3>5, <3>8, SMTT(30)
        <4>2. n - 1 \notin Wrong
          BY <3>2, <4>1
        <4>3. f[P[j]] = SubSeq(files, j, N)
          BY <4>1, <4>2
        <4>4. f[P[i]] = <<files[i]>> \o f[P[j]]
          BY <1>12, <3>4, <3>5, <3>8
        <4> QED BY <3>4, <3>6, <4>3, <4>4
      <3> QED BY <3>7, <3>8
    <2>2. ASSUME NEW i \in 1 .. N PROVE f[P[i]] = SubSeq(files, i, N)
      <3>1. N - i \in 0 .. N /\ N - (N - i) = i /\ N - i # N
        BY <1>8
      <3> QED BY <2>1, <3>1
    <2> QED BY <2>2
  <1>14. (IF m > len THEN <<>> ELSE f[m]) = files
    <2>1. CASE N = 0
      <3>1. P[1] = len + 1
        BY <1>2, <1>7, <2>1 DEF Archived
      <3>2. files = <<>>
        BY <1>7, <1>8, <2>1, EmptySeq
      <3> QED BY <1>8, <1>10, <3>1, <3>2
    <2>2. CASE N # 0
      <3>1. 1 \in 1 .. N
        BY <1>8, <2>2
      <3>2. ~(m > len)
        BY <1>8, <1>9, <1>10, <3>1
      <3>3. f[m] = SubSeq(files, 1, N)
        BY <1>10, <1>13, <3>1
      <3>4. SubSeq(files, 1, N) = files
        <4>1. 0 \in 0 .. Len(files) /\ N \in 0 .. Len(files) /\ 0 + 1 = 1 /\ N - 0 = N
          BY <1>7, <1>8
        <4>2. PICK r : r = SubSeq(files, 0 + 1, N)
          OBVIOUS
        <4>3. r \in Seq(CleanFiles) /\ Len(r) = N - 0 /\ \A i \in 1 .. N - 0 : r[i] = files[0 + i]
          BY <1>8, <4>1, <4>2, PartIs
        <4>4. Len(r) = Len(files) /\ \A i \in 1 .. Len(r) : r[i] = files[i]
          BY <1>7, <1>8, <4>1, <4>3
        <4>5. r = files
          BY <1>8, <4>3, <4>4, SeqEqual
        <4> QED BY <4>1, <4>2, <4>5
      <3> QED BY <3>2, <3>3, <3>4
    <2> QED BY <2>1, <2>2
  <1>15. Tx!Parse(t) = [comment |-> a.comment, files |-> files]
    BY <1>6, <1>7, <1>9, <1>10, <1>14
  <1> QED BY <1>3, <1>8, <1>15

\* Bytes that are not read with a panic are good.
LEMMA BytesReadable ==
  ASSUME NEW t \in Bytes(FileLines), ~Tx!Crashes(t)
  PROVE  /\ t.lines \in Seq(GoodLines) /\ t.newline \in BOOLEAN
         /\ t = Tx!Text(t.lines, t.newline)
         /\ t.lines = <<>> => t.newline
  <1>1. /\ t.lines \in Seq(FileLines) /\ t.newline \in BOOLEAN
        /\ t = [lines |-> t.lines, newline |-> t.newline]
        /\ t.lines = <<>> => t.newline
    BY DEF Bytes
  <1>2. \A i \in 1 .. Len(t.lines) : t.lines[i] # Tx!Line(0, Tx!Bare)
    BY <1>1 DEF Tx!Crashes, Tx!S!ToSet
  <1>3. \A line \in FileLines : line \in [quotes : Nat, body : AnyBodies]
    BY DEF FileLines, AnyBodies
  <1>4. ASSUME NEW i \in 1 .. Len(t.lines) PROVE t.lines[i] \in GoodLines
    <2>1. t.lines[i] \in FileLines
      BY <1>1
    <2> QED BY <1>2, <1>3, <2>1 DEF GoodLines
  <1>5. t.lines \in Seq(GoodLines)
    BY <1>1, <1>4, Retyped
  <1> QED BY <1>1, <1>5 DEF Tx!Text

\* Lines that end are read whatever they are.
LEMMA EndedReadable ==
  ASSUME NEW lines \in Seq(GoodLines)
  PROVE  Readable(Tx!Text(lines, TRUE)) /\ Tx!Text(lines, TRUE).lines = lines
  BY DEF Readable, Tx!Text

\* What needs quoting has a marker.
LEMMA NeedsQuoteIs ==
  ASSUME NEW lines \in Seq(GoodLines)
  PROVE  Tx!NeedsQuote(Tx!Text(lines, TRUE)) <=> Tx!Text(lines, TRUE) \notin CleanTexts
  <1>1. PICK t, len : t = Tx!Text(lines, TRUE) /\ len = Len(lines)
    OBVIOUS
  <1>2. Readable(t) /\ t.lines = lines /\ len \in Nat
    <2>1. Readable(t) /\ t.lines = lines
      BY <1>1, EndedReadable
    <2>2. len \in Nat
      BY <1>1
    <2> QED BY <2>1, <2>2
  <1>3. t.newline
    BY <1>1 DEF Tx!Text
  <1>4. PICK m, found : found = Tx!FindFileMarker(t) /\ IsFound(t, m, found)
    BY <1>2, FoundRight
  <1>5. m \in 0 + 1 .. len + 1 /\ (\A j \in 0 + 1 .. m - 1 : ~Named(lines[j]))
        /\ (m <= len => Named(lines[m]))
    BY <1>1, <1>2, <1>4 DEF IsFound, NextMark
  <1>6. found.ended <=> m <= len
    <2>1. found.ended <=> m < len \/ (m = len /\ t.newline)
      BY <1>1, <1>2, <1>4 DEF IsFound
    <2>2. m <= len <=> m < len \/ m = len
      BY <1>2, <1>5
    <2> QED BY <1>3, <2>1, <2>2
  <1>7. ASSUME m <= len, t \in CleanTexts PROVE FALSE
    <2>1. lines \in Seq(TameLines)
      <3>1. t.lines \in Seq(TameLines)
        BY <1>7 DEF CleanTexts
      <3> QED BY <1>2, <3>1
    <2>3. m \in 1 .. len
      BY <1>2, <1>5, <1>7
    <2>2. lines[m] \in TameLines
      BY <1>1, <2>1, <2>3
    <2> QED BY <1>5, <1>7, <2>2 DEF TameLines
  <1>8. ASSUME ~(m <= len) PROVE t \in CleanTexts
    <2>1. ASSUME NEW i \in 1 .. Len(lines) PROVE lines[i] \in TameLines
      <3>1. i \in 0 + 1 .. m - 1
        BY <1>1, <1>2, <1>5, <1>8
      <3> QED BY <1>5, <3>1 DEF TameLines
    <2>2. lines \in Seq(TameLines)
      BY <2>1, Retyped
    <2> QED BY <1>1, <2>2 DEF CleanTexts, Tx!Text
  <1>9. Tx!NeedsQuote(t) <=> found.ended
    BY <1>4 DEF Tx!NeedsQuote
  <1> QED BY <1>1, <1>6, <1>7, <1>8, <1>9

\* What does not end in a line that a newline would make a marker.
LEMMA WholeReadable ==
  ASSUME NEW t \in Bytes(FileLines), ~Tx!Crashes(t),
         t.newline \/ Len(Q!Last(t.lines).body) < 3
  PROVE  Readable(t)
  <1>1. t.lines \in Seq(GoodLines) /\ t.newline \in BOOLEAN /\ t = Tx!Text(t.lines, t.newline)
    BY BytesReadable
  <1>2. t \in [lines : Seq(GoodLines), newline : BOOLEAN]
    BY <1>1 DEF Tx!Text
  <1>3. ASSUME ~t.newline PROVE Len(t.lines[Len(t.lines)].body) # 3
    <2>1. PICK n : n = Len(t.lines[Len(t.lines)].body)
      OBVIOUS
    <2>2. n < 3
      BY <1>3, <2>1 DEF Q!Last
    <2>3. ~(3 < 3)
      OBVIOUS
    <2>4. n # 3
      BY <2>2, <2>3, Zenon
    <2> QED BY <2>1, <2>4
  <1> QED BY <1>2, <1>3 DEF Readable

\* Quoted lines are no markers, and unquoted they are what they were.
LEMMA QuoteIs ==
  ASSUME NEW t \in Bytes(FileLines), t.newline
  PROVE  /\ Tx!Quote(t) \in CleanTexts
         /\ Tx!CanUnquote(Tx!Quote(t)) /\ Tx!Unquote(Tx!Quote(t)) = t
  <1>1. PICK lines : lines = t.lines
    OBVIOUS
  <1>2. lines \in Seq(FileLines) /\ t = [lines |-> lines, newline |-> t.newline]
    BY <1>1 DEF Bytes
  <1>3. ASSUME NEW i \in 1 .. Len(lines)
        PROVE  /\ lines[i].quotes \in Nat /\ lines[i].body \in AnyBodies
               /\ lines[i] = [quotes |-> lines[i].quotes, body |-> lines[i].body]
    <2>1. lines[i] \in FileLines
      BY <1>2
    <2> QED BY <2>1 DEF FileLines, AnyBodies
  <1>4. DOMAIN lines = 1 .. Len(lines) /\ Len(lines) \in Nat
    BY <1>2
  <1> DEFINE more == [n \in DOMAIN lines |-> Tx!Line(lines[n].quotes + 1, lines[n].body)]
  <1>5. Tx!Quote(t) = Tx!Text(more, t.newline)
    BY <1>1 DEF Tx!Quote
  <1>6. ASSUME NEW i \in 1 .. Len(lines)
        PROVE  more[i] \in TameLines /\ more[i].quotes = lines[i].quotes + 1 /\ more[i].body = lines[i].body
    <2>1. PICK line : line = more[i]
      OBVIOUS
    <2>2. line = [quotes |-> lines[i].quotes + 1, body |-> lines[i].body]
      BY <1>4, <2>1 DEF Tx!Line
    <2>3. line.quotes = lines[i].quotes + 1 /\ line.body = lines[i].body /\ line.quotes \in Nat /\ line.quotes # 0
      <3>1. PICK q : q = lines[i].quotes
        OBVIOUS
      <3>2. q \in Nat
        BY <1>3, <3>1
      <3>3. q + 1 \in Nat /\ q + 1 # 0
        BY <3>2
      <3>4. line.quotes = q + 1 /\ line.body = lines[i].body
        BY <2>2, <3>1
      <3> QED BY <3>1, <3>3, <3>4
    <2>4. line \in [quotes : Nat, body : AnyBodies]
      BY <1>3, <2>2, <2>3
    <2>5. line # Tx!Line(0, Tx!Bare)
      BY <2>3 DEF Tx!Line
    <2> QED BY <2>1, <2>3, <2>4, <2>5 DEF TameLines, GoodLines, Named
  <1>7. more \in Seq(TameLines) /\ Len(more) = Len(lines) /\ DOMAIN more = 1 .. Len(lines)
    <2>1. more = [n \in 1 .. Len(lines) |-> more[n]]
      BY <1>4
    <2> HIDE DEF more
    <2> QED BY <1>4, <1>6, <2>1
  <1> HIDE DEF more
  <1>8. Tx!Quote(t) = [lines |-> more, newline |-> TRUE]
    BY <1>5 DEF Tx!Text
  <1>9. Tx!Quote(t) \in CleanTexts
    BY <1>7, <1>8 DEF CleanTexts
  <1>10. Tx!CanUnquote(Tx!Quote(t))
    <2>1. CASE Len(lines) = 0
      <3>1. more = <<>>
        BY <1>7, <2>1, EmptySeq
      <3> QED BY <1>8, <3>1 DEF Tx!CanUnquote, Tx!Empty, Tx!Text
    <2>2. CASE Len(lines) # 0
      <3>1. 1 \in 1 .. Len(lines)
        BY <1>4, <2>2
      <3>2. more[1].quotes > 0
        <4>1. PICK q : q = lines[1].quotes
          OBVIOUS
        <4>2. q \in Nat
          BY <1>3, <3>1, <4>1
        <4>3. more[1].quotes = q + 1
          BY <1>6, <3>1, <4>1
        <4> QED BY <4>2, <4>3
      <3> QED BY <1>8, <3>2 DEF Tx!CanUnquote
    <2> QED BY <2>1, <2>2
  <1> DEFINE Less(quotes) == IF quotes > 0 THEN quotes - 1 ELSE 0
             back == [n \in DOMAIN more |-> Tx!Line(Less(more[n].quotes), more[n].body)]
  <1>11. Tx!Unquote(Tx!Quote(t)) = Tx!Text(back, TRUE)
    <2>1. PICK q : q = Tx!Quote(t)
      OBVIOUS
    <2>2. q.lines = more /\ q.newline = TRUE
      BY <1>8, <2>1
    <2> QED BY <2>1, <2>2 DEF Tx!Unquote
  <1>12. back = lines
    <2>1. ASSUME NEW i \in 1 .. Len(lines) PROVE back[i] = lines[i]
      <3>1. back[i] = Tx!Line(Less(more[i].quotes), more[i].body)
        BY <1>7
      <3>2. Less(more[i].quotes) = lines[i].quotes
        <4>1. PICK q : q = lines[i].quotes
          OBVIOUS
        <4>2. q \in Nat
          BY <1>3, <4>1
        <4>3. more[i].quotes = q + 1
          BY <1>6, <4>1
        <4>4. q + 1 > 0 /\ (q + 1) - 1 = q
          BY <4>2
        <4> QED BY <4>1, <4>3, <4>4
      <3> HIDE DEF Less, back
      <3> QED BY <1>3, <1>6, <3>1, <3>2 DEF Tx!Line
    <2>2. back = [n \in 1 .. Len(lines) |-> back[n]]
      BY <1>7
    <2>3. lines = [n \in 1 .. Len(lines) |-> lines[n]]
      BY <1>2, <1>4
    <2> HIDE DEF back
    <2> QED BY <2>1, <2>2, <2>3
  <1>13. Tx!Text(lines, TRUE) = t
    BY <1>2 DEF Tx!Text
  <1> QED BY <1>9, <1>10, <1>11, <1>12, <1>13

\* A file of its own, which is found again if it has no marker.
Single(data) == [comment |-> Tx!Empty, files |-> <<[name |-> "a", data |-> data]>>]
\* Nothing but its data decides that.
LEMMA SingleClean ==
  ASSUME NEW data
  PROVE  Single(data) \in CleanArchives <=> data \in CleanTexts
  <1>1. Tx!Empty \in CleanTexts
    BY DEF Tx!Empty, Tx!Text, CleanTexts
  <1>2. PICK file : file = [name |-> "a", data |-> data]
    OBVIOUS
  <1>3. file \in CleanFiles <=> data \in CleanTexts
    BY <1>2, FilesAssumption DEF CleanFiles
  <1>4. <<file>> \in Seq(CleanFiles) <=> file \in CleanFiles
    <2>1. ASSUME <<file>> \in Seq(CleanFiles) PROVE file \in CleanFiles
      <3>1. Len(<<file>>) = 1 /\ <<file>>[1] = file
        OBVIOUS
      <3> QED BY <2>1, <3>1
    <2> QED BY <2>1
  <1>5. Single(data) = [comment |-> Tx!Empty, files |-> <<file>>]
    BY <1>2 DEF Single
  <1> QED BY <1>1, <1>3, <1>4, <1>5 DEF CleanArchives

\* What Parse makes of a text.
LEMMA TextsRight ==
  ASSUME NEW t \in Bytes(FileLines)
  PROVE  TextRight(t, Tx!Parse(t))
  <1> DEFINE Found(data) == Tx!Parse(Tx!Format(Single(data))) = Single(data)
             whole == t.newline \/ Len(Q!Last(t.lines).body) < 3
  <1>1. PICK parsed : parsed = Tx!Parse(t)
    OBVIOUS
  <1>2. \A data \in CleanTexts : Found(data)
    BY SingleClean, RoundTrip
  <1>3. ASSUME whole, ~Tx!Crashes(t)
        PROVE  /\ Tx!Parse(Tx!Format(parsed)) = parsed
               /\ ~Tx!NeedsQuote(parsed.comment)
               /\ \A n \in DOMAIN parsed.files : ~Tx!NeedsQuote(parsed.files[n].data)
               /\ t.newline => (Tx!NeedsQuote(t) <=> ~Found(t))
    <2>1. Readable(t)
      BY <1>3, WholeReadable
    <2>2. parsed \in CleanArchives
      BY <1>1, <2>1, ParseClean
    <2>3. ASSUME NEW x \in CleanTexts PROVE ~Tx!NeedsQuote(x)
      <3>1. PICK lines : lines = x.lines
        OBVIOUS
      <3>2. lines \in Seq(TameLines) /\ x = Tx!Text(lines, TRUE)
        BY <3>1 DEF CleanTexts, Tx!Text
      <3>3. lines \in Seq(GoodLines)
        BY <3>2 DEF TameLines
      <3> QED BY <3>2, <3>3, NeedsQuoteIs
    <2>4. parsed.comment \in CleanTexts /\ parsed.files \in Seq(CleanFiles)
      BY <2>2 DEF CleanArchives
    <2>5. ASSUME NEW n \in DOMAIN parsed.files PROVE parsed.files[n].data \in CleanTexts
      <3>1. parsed.files[n] \in CleanFiles
        BY <2>4
      <3> QED BY <3>1 DEF CleanFiles
    <2>6. ASSUME t.newline PROVE Tx!NeedsQuote(t) <=> ~Found(t)
      <3>1. PICK lines : lines = t.lines
        OBVIOUS
      <3>2. lines \in Seq(GoodLines) /\ t = Tx!Text(lines, t.newline)
        BY <1>3, <3>1, BytesReadable
      <3>3. t.newline = TRUE
        BY <2>6, <1>3, BytesReadable
      <3>4. t = Tx!Text(lines, TRUE)
        BY <3>2, <3>3
      <3>5. Tx!NeedsQuote(t) <=> t \notin CleanTexts
        BY <3>2, <3>4, NeedsQuoteIs
      <3>6. ASSUME Found(t) PROVE t \in CleanTexts
        <4>1. Single(t) \in GoodArchives
          <5>1. t \in GoodTexts
            BY <3>2, <3>4 DEF GoodTexts, Tx!Text
          <5>2. PICK file : file = [name |-> "a", data |-> t]
            OBVIOUS
          <5>3. file \in GoodFiles
            BY <5>1, <5>2, FilesAssumption DEF GoodFiles
          <5>4. Tx!Empty \in GoodTexts
            BY DEF Tx!Empty, Tx!Text, GoodTexts
          <5>5. <<file>> \in Seq(GoodFiles)
            BY <5>3
          <5> QED BY <5>2, <5>4, <5>5 DEF Single, GoodArchives
        <4>2. PICK all, P : Tx!Format(Single(t)) = Tx!Text(all, TRUE) /\ Archived(all, Single(t), P)
          BY <4>1, FormatIs
        <4>3. all \in Seq(GoodLines)
          BY <4>2 DEF Archived
        <4>4. Tx!Parse(Tx!Format(Single(t))) \in CleanArchives
          BY <4>2, <4>3, EndedReadable, ParseClean
        <4> QED BY <3>6, <4>4, SingleClean
      <3> QED BY <1>2, <3>5, <3>6
    <2> QED BY <2>2, <2>3, <2>4, <2>5, <2>6, RoundTrip
  <1>4. ASSUME Tx!CanQuote(t)
        PROVE  LET quoted == Tx!Quote(t)
               IN Found(quoted) /\ Tx!CanUnquote(quoted) /\ Tx!Unquote(quoted) = t
    <2>1. t.newline
      BY <1>4 DEF Tx!CanQuote
    <2> HIDE DEF Found
    <2> QED BY <1>2, <2>1, QuoteIs
  <1> QED BY <1>1, <1>3, <1>4 DEF TextRight, Single

\* The loop of SaveDir: the archive after each entry.
Saves(entries, quote, all, U) ==
  /\ U[0] = [comment |-> Tx!Empty, files |-> <<>>]
  /\ \A n \in 1 .. Len(entries) : U[n] = Tx!Add(U[n - 1], entries[n], quote, all)
\* SaveDir goes through all of them.
LEMMA SaveLoop ==
  ASSUME NEW entries, Len(entries) \in Nat, NEW quote, NEW all
  PROVE  \E U : Saves(entries, quote, all, U) /\ Tx!SaveDir(entries, quote, all) = U[Len(entries)]
  <1> DEFINE len == Len(entries)
             first == [comment |-> Tx!Empty, files |-> <<>>]
             Body(f, n) == IF n = 0 THEN first ELSE Tx!Add(f[n - 1], entries[n], quote, all)
             upTo[n \in 0 .. len] == IF n = 0 THEN first ELSE Tx!Add(upTo[n - 1], entries[n], quote, all)
  <1>1. Tx!SaveDir(entries, quote, all) = upTo[len]
    BY DEF Tx!SaveDir
  <1>0. len \in Nat
    OBVIOUS
  <1> HIDE DEF first, len
  <1>2. \E f : f = [n \in 0 .. len |-> Body(f, n)]
    <2> DEFINE Lacking == {n \in 0 .. len : ~ \E f : f = [k \in 0 .. n |-> Body(f, k)]}
    <2>1. Lacking = {}
      <3> SUFFICES ASSUME Lacking # {} PROVE FALSE
        OBVIOUS
      <3>0. Lacking \subseteq Nat
        OBVIOUS
      <3>1. PICK n \in Lacking : \A m \in Lacking : n <= m
        BY <3>0, Least
      <3> HIDE DEF Body
      <3>2. CASE n = 0
        <4> DEFINE f == [k \in 0 .. 0 |-> first]
        <4>1. \A k \in 0 .. 0 : Body(f, k) = f[k]
          BY DEF Body
        <4>2. f = [k \in 0 .. 0 |-> Body(f, k)]
          BY <4>1
        <4> HIDE DEF f
        <4> QED BY <3>2, <4>2
      <3>3. CASE n # 0
        <4>1. n - 1 \in 0 .. len /\ n \in 0 .. len /\ n - 1 \notin Lacking
          BY <1>0, <3>1, <3>3
        <4>2. PICK f : f = [k \in 0 .. n - 1 |-> Body(f, k)]
          BY <4>1
        <4> DEFINE g == [k \in 0 .. n |-> IF k = n THEN Body(f, n) ELSE f[k]]
        <4>3. \A k \in 0 .. n - 1 : g[k] = f[k]
          BY <4>1
        <4>4. \A k \in 0 .. n : Body(g, k) = Body(f, k)
          BY <4>1, <4>3 DEF Body
        <4>5. \A k \in 0 .. n : g[k] = Body(g, k)
          <5> SUFFICES ASSUME NEW k \in 0 .. n PROVE g[k] = Body(g, k)
            OBVIOUS
          <5>1. CASE k = n
            BY <4>4, <5>1
          <5>2. CASE k # n
            <6>1. k \in 0 .. n - 1
              BY <4>1, <5>2
            <6>2. f[k] = Body(f, k)
              BY <4>2, <6>1
            <6> QED BY <4>3, <4>4, <6>1, <6>2
          <5> QED BY <5>1, <5>2
        <4>6. g = [k \in 0 .. n |-> Body(g, k)]
          BY <4>5
        <4> HIDE DEF g
        <4> QED BY <4>6
      <3> QED BY <3>2, <3>3
    <2>2. len \in 0 .. len /\ len \notin Lacking
      BY <1>0, <2>1
    <2> HIDE DEF Body
    <2> QED BY <2>2
  <1>3. upTo = [n \in 0 .. len |-> Body(upTo, n)]
    BY <1>2
  <1> HIDE DEF upTo
  <1>4. \A n \in 0 .. len : upTo[n] = Body(upTo, n)
    BY <1>3
  <1>5. upTo[0] = first
    <2>1. upTo[0] = Body(upTo, 0)
      BY <1>0, <1>4
    <2> QED BY <2>1
  <1>6. ASSUME NEW n \in 1 .. len PROVE upTo[n] = Tx!Add(upTo[n - 1], entries[n], quote, all)
    <2>1. n \in 0 .. len /\ n # 0
      BY <1>0
    <2>2. upTo[n] = Body(upTo, n)
      BY <1>4, <2>1
    <2> QED BY <2>1, <2>2
  <1>7. Saves(entries, quote, all, upTo)
    BY <1>5, <1>6 DEF Saves, first, len
  <1> QED BY <1>1, <1>7 DEF len

\* Whether an entry needs quoting, the file it becomes, and what the comment says
\* of a file that is quoted.
NeedsIt(e) == Tx!NeedsQuote(Tx!FixNL(e.data))
FileIn(e) ==
  [name |-> e.name, data |-> IF NeedsIt(e) THEN Tx!Quote(Tx!FixNL(e.data)) ELSE Tx!FixNL(e.data)]
Note(name) == Tx!Line(0, Tx!UnquoteLine(name))

\* Files are told apart by what is said of them.
LEMMA NoteIs ==
  ASSUME NEW name \in FileNames
  PROVE  Note(name) \in TameLines /\ \A other : Note(name) = Note(other) => name = other
  <1>1. PICK line, body : line = Note(name) /\ body = Tx!UnquoteLine(name)
    OBVIOUS
  <1>2. body = <<"unquote", name>>
    BY <1>1 DEF Tx!UnquoteLine
  <1>3. line = [quotes |-> 0, body |-> body]
    BY <1>1 DEF Note, Tx!Line
  <1>4. body \in AnyBodies
    BY <1>1 DEF AnyBodies
  <1>5. body[1] = "unquote" /\ body[2] = name
    BY <1>2
  <1>6. body # Tx!Bare
    <2>1. Tx!Bare[1] = "bare"
      BY DEF Tx!Bare
    <2> QED BY <1>5, <2>1
  <1>7. line \in TameLines
    <2>1. line.quotes = 0 /\ line.body = body
      BY <1>3
    <2>2. line \in [quotes : Nat, body : AnyBodies]
      BY <1>3, <1>4
    <2>3. Tx!Line(0, Tx!Bare).body = Tx!Bare
      BY DEF Tx!Line
    <2>4. ~Named(line)
      BY <1>5, <2>1 DEF Named
    <2> QED BY <1>6, <2>1, <2>2, <2>3, <2>4 DEF TameLines, GoodLines
  <1>8. ASSUME NEW other, Note(name) = Note(other) PROVE name = other
    <2>1. PICK word : word = Tx!UnquoteLine(other)
      OBVIOUS
    <2>2. word = <<"unquote", other>>
      BY <2>1 DEF Tx!UnquoteLine
    <2>3. Note(other).body = word
      BY <2>1 DEF Note, Tx!Line
    <2>4. Note(name).body = body
      BY <1>1, <1>3
    <2>5. word[2] = other
      BY <2>2
    <2> QED BY <1>5, <1>8, <2>3, <2>4, <2>5
  <1> QED BY <1>1, <1>7, <1>8

\* What is in the file of an entry.
LEMMA FileInIs ==
  ASSUME NEW e \in Entries, ~Tx!Crashes(e.data)
  PROVE  /\ FileIn(e) \in CleanFiles /\ FileIn(e).name = e.name
         /\ NeedsIt(e) => /\ Tx!CanUnquote(FileIn(e).data)
                          /\ Tx!Unquote(FileIn(e).data) = Tx!FixNL(e.data)
         /\ ~NeedsIt(e) => FileIn(e).data = Tx!FixNL(e.data)
  <1>1. e.data \in Bytes(FileLines) /\ e.name \in FileNames
    BY DEF Entries
  <1>2. PICK lines, d : lines = e.data.lines /\ d = Tx!FixNL(e.data)
    OBVIOUS
  <1>3. lines \in Seq(GoodLines)
    BY <1>1, <1>2, BytesReadable
  <1>4. d = Tx!Text(lines, TRUE)
    BY <1>2 DEF Tx!FixNL
  <1>5. d.newline /\ d \in Bytes(FileLines)
    <2>1. lines \in Seq(FileLines)
      BY <1>1, <1>2 DEF Bytes
    <2> QED BY <1>4, <2>1 DEF Bytes, Tx!Text
  <1>6. /\ Tx!Quote(d) \in CleanTexts
        /\ Tx!CanUnquote(Tx!Quote(d)) /\ Tx!Unquote(Tx!Quote(d)) = d
    BY <1>5, QuoteIs
  <1>7. NeedsIt(e) <=> d \notin CleanTexts
    <2>1. Tx!NeedsQuote(d) <=> d \notin CleanTexts
      BY <1>3, <1>4, NeedsQuoteIs
    <2> QED BY <1>2, <2>1 DEF NeedsIt
  <1>8. PICK file : file = FileIn(e)
    OBVIOUS
  <1>9. file = [name |-> e.name, data |-> IF NeedsIt(e) THEN Tx!Quote(d) ELSE d]
    BY <1>2, <1>8 DEF FileIn
  <1>10. file.name = e.name /\ file.data = (IF NeedsIt(e) THEN Tx!Quote(d) ELSE d)
    BY <1>9
  <1>11. file \in CleanFiles
    BY <1>1, <1>6, <1>7, <1>9 DEF CleanFiles
  <1> QED BY <1>2, <1>6, <1>8, <1>10, <1>11

\* What an archive has after the first n entries: the files of those that are to
\* be saved, with a note on each that is quoted.
Kind(quote, all) == [e \in Entries |-> Tx!Included(e, quote, all)]
HasFile(a, file) == \E j \in 1 .. Len(a.files) : a.files[j] = file
HasNote(a, line) == \E j \in 1 .. Len(a.comment.lines) : a.comment.lines[j] = line
Saved(entries, I, n, a) ==
  /\ a \in CleanArchives
  /\ \A line : HasNote(a, line) <=>
       \E i \in 1 .. n : I[entries[i]] /\ NeedsIt(entries[i]) /\ line = Note(entries[i].name)
  /\ \A file : HasFile(a, file) <=> \E i \in 1 .. n : I[entries[i]] /\ file = FileIn(entries[i])
  /\ \A j, k \in 1 .. Len(a.files) : a.files[j].name = a.files[k].name => j = k

\* Something is in a sequence it was appended to if it was before, or is that.
LEMMA AppendHas ==
  ASSUME NEW A, NEW s \in Seq(A), NEW v \in A, NEW r, r = Append(s, v)
  PROVE  /\ r \in Seq(A) /\ Len(r) = Len(s) + 1 /\ r[Len(s) + 1] = v
         /\ \A j \in 1 .. Len(s) : r[j] = s[j]
         /\ \A x : (\E j \in 1 .. Len(r) : r[j] = x) <=> (\E j \in 1 .. Len(s) : s[j] = x) \/ x = v
  <1>1. PICK len : len = Len(s)
    OBVIOUS
  <1>2. /\ len \in Nat /\ r \in Seq(A) /\ Len(r) = len + 1 /\ r[len + 1] = v
        /\ \A j \in 1 .. len : r[j] = s[j]
    BY <1>1
  <1>3. ASSUME NEW x, NEW j \in 1 .. Len(r), r[j] = x
        PROVE  (\E i \in 1 .. len : s[i] = x) \/ x = v
    <2>1. j \in 1 .. len \/ j = len + 1
      BY <1>2
    <2> QED BY <1>2, <1>3, <2>1
  <1>4. ASSUME NEW x, NEW j \in 1 .. len, s[j] = x PROVE \E i \in 1 .. Len(r) : r[i] = x
    <2>1. j \in 1 .. Len(r)
      BY <1>2
    <2> QED BY <1>2, <1>4, <2>1
  <1>5. \E i \in 1 .. Len(r) : r[i] = v
    <2>1. len + 1 \in 1 .. Len(r)
      BY <1>2
    <2> QED BY <1>2, <2>1
  <1> QED BY <1>1, <1>2, <1>3, <1>4, <1>5

\* The archive with the file of an entry, and with a note if it is quoted.
IsAdded(a, e, b) ==
  /\ b.files = Append(a.files, FileIn(e))
  /\ NeedsIt(e) => b.comment.lines = Append(a.comment.lines, Note(e.name))
  /\ ~NeedsIt(e) => b.comment = a.comment
  /\ b.comment = Tx!Text(b.comment.lines, TRUE)
  /\ b = [comment |-> b.comment, files |-> b.files]
\* Add does this for an entry that is to be saved, and nothing for others.
LEMMA AddIs ==
  ASSUME NEW a \in CleanArchives, NEW e, NEW quote, NEW all
  PROVE  /\ ~Tx!Included(e, quote, all) => Tx!Add(a, e, quote, all) = a
         /\ Tx!Included(e, quote, all) => IsAdded(a, e, Tx!Add(a, e, quote, all))
  <1>1. PICK b : b = Tx!Add(a, e, quote, all)
    OBVIOUS
  <1>2. b = IF ~Tx!Included(e, quote, all) THEN a
            ELSE [comment |-> IF NeedsIt(e) THEN Tx!Text(Append(a.comment.lines, Note(e.name)), TRUE)
                              ELSE a.comment,
                  files |-> Append(a.files, FileIn(e))]
    BY <1>1 DEF Tx!Add, NeedsIt, FileIn, Note
  <1>3. a.comment = Tx!Text(a.comment.lines, TRUE)
    <2>1. a.comment \in CleanTexts
      BY DEF CleanArchives
    <2> QED BY <2>1 DEF CleanTexts, Tx!Text
  <1>4. ASSUME Tx!Included(e, quote, all) PROVE IsAdded(a, e, b)
    <2>1. PICK c : c = IF NeedsIt(e) THEN Tx!Text(Append(a.comment.lines, Note(e.name)), TRUE)
                       ELSE a.comment
      OBVIOUS
    <2>2. b = [comment |-> c, files |-> Append(a.files, FileIn(e))]
      BY <1>2, <1>4, <2>1
    <2>3. b.comment = c /\ b.files = Append(a.files, FileIn(e)) /\ b = [comment |-> b.comment, files |-> b.files]
      BY <2>2
    <2>4. c = Tx!Text(c.lines, TRUE)
      BY <1>3, <2>1 DEF Tx!Text
    <2>5. NeedsIt(e) => c.lines = Append(a.comment.lines, Note(e.name))
      BY <2>1 DEF Tx!Text
    <2> QED BY <2>1, <2>3, <2>4, <2>5 DEF IsAdded
  <1> QED BY <1>1, <1>2, <1>4

\* One entry more.
LEMMA SavedMore ==
  ASSUME NEW entries \in Walks, NEW quote, NEW all, NEW n \in 1 .. Len(entries), NEW m, n = m + 1, m \in Nat,
         NEW a, Saved(entries, Kind(quote, all), m, a),
         Tx!Included(entries[n], quote, all) => ~Tx!Crashes(entries[n].data)
  PROVE  Saved(entries, Kind(quote, all), n, Tx!Add(a, entries[n], quote, all))
  <1>1. PICK e, I, b : e = entries[n] /\ I = Kind(quote, all) /\ b = Tx!Add(a, e, quote, all)
    OBVIOUS
  <1>2. entries \in Seq(Entries) /\ \A i, k \in DOMAIN entries : entries[i].name = entries[k].name => i = k
    BY DEF Walks
  <1>3. e \in Entries /\ DOMAIN entries = 1 .. Len(entries) /\ Len(entries) \in Nat
    BY <1>1, <1>2
  <1>4. I[e] <=> Tx!Included(e, quote, all)
    BY <1>1, <1>3 DEF Kind
  <1>5. 1 .. n = 1 .. m \cup {n} /\ 1 .. m \subseteq DOMAIN entries /\ n \notin 1 .. m
    BY <1>3
  <1>6. /\ a \in CleanArchives
        /\ \A line : HasNote(a, line) <=>
             \E i \in 1 .. m : I[entries[i]] /\ NeedsIt(entries[i]) /\ line = Note(entries[i].name)
        /\ \A file : HasFile(a, file) <=> \E i \in 1 .. m : I[entries[i]] /\ file = FileIn(entries[i])
        /\ \A j, k \in 1 .. Len(a.files) : a.files[j].name = a.files[k].name => j = k
    BY <1>1 DEF Saved
  <1>7. CASE ~I[e]
    <2>1. b = a
      BY <1>1, <1>4, <1>6, <1>7, AddIs
    <2>2. \A line : HasNote(a, line) <=>
            \E i \in 1 .. n : I[entries[i]] /\ NeedsIt(entries[i]) /\ line = Note(entries[i].name)
      BY ONLY <1>1, <1>5, <1>6, <1>7
    <2>3. \A file : HasFile(a, file) <=> \E i \in 1 .. n : I[entries[i]] /\ file = FileIn(entries[i])
      BY ONLY <1>1, <1>5, <1>6, <1>7
    <2> QED BY <1>1, <1>6, <2>1, <2>2, <2>3 DEF Saved
  <1>8. CASE I[e]
    <2>1. IsAdded(a, e, b)
      BY <1>1, <1>4, <1>6, <1>8, AddIs
    <2>2. PICK file : file = FileIn(e)
      OBVIOUS
    <2>3. file \in CleanFiles /\ file.name = e.name
      BY <1>1, <1>3, <1>4, <1>8, <2>2, FileInIs
    <2>4. a.files \in Seq(CleanFiles) /\ a.comment.lines \in Seq(TameLines)
      <3>1. a.files \in Seq(CleanFiles) /\ a.comment \in CleanTexts
        BY <1>6 DEF CleanArchives
      <3> QED BY <3>1 DEF CleanTexts
    <2>5. b.files = Append(a.files, file)
      BY <2>1, <2>2 DEF IsAdded
    <2>6. /\ b.files \in Seq(CleanFiles) /\ Len(b.files) = Len(a.files) + 1 /\ b.files[Len(a.files) + 1] = file
          /\ \A j \in 1 .. Len(a.files) : b.files[j] = a.files[j]
          /\ \A x : (\E j \in 1 .. Len(b.files) : b.files[j] = x)
                       <=> (\E j \in 1 .. Len(a.files) : a.files[j] = x) \/ x = file
      BY ONLY <2>3, <2>4, <2>5, AppendHas
    <2>7. \A x : HasFile(b, x) <=> \E i \in 1 .. n : I[entries[i]] /\ x = FileIn(entries[i])
      <3>1. \A x : HasFile(b, x) <=> HasFile(a, x) \/ x = file
        BY ONLY <2>6 DEF HasFile
      <3>2. n \in 1 .. n
        BY <1>5
      <3> QED BY ONLY <1>1, <1>5, <1>6, <1>8, <2>2, <3>1, <3>2
    <2>8. b.comment.lines \in Seq(TameLines) /\ \A x : HasNote(b, x) <=> HasNote(a, x) \/ (NeedsIt(e) /\ x = Note(e.name))
      <3>1. CASE NeedsIt(e)
        <4>1. PICK line : line = Note(e.name)
          OBVIOUS
        <4>2. line \in TameLines
          BY <1>3, <4>1, NoteIs DEF Entries
        <4>3. b.comment.lines = Append(a.comment.lines, line)
          BY <2>1, <3>1, <4>1 DEF IsAdded
        <4>4. /\ b.comment.lines \in Seq(TameLines)
              /\ \A x : (\E j \in 1 .. Len(b.comment.lines) : b.comment.lines[j] = x)
                           <=> (\E j \in 1 .. Len(a.comment.lines) : a.comment.lines[j] = x) \/ x = line
          <5>1. PICK s, r : s = a.comment.lines /\ r = b.comment.lines
            OBVIOUS
          <5>2. s \in Seq(TameLines) /\ r = Append(s, line)
            BY <2>4, <4>3, <5>1
          <5>3. /\ r \in Seq(TameLines)
                /\ \A x : (\E j \in 1 .. Len(r) : r[j] = x) <=> (\E j \in 1 .. Len(s) : s[j] = x) \/ x = line
            BY ONLY <4>2, <5>2, AppendHas
          <5> QED BY <5>1, <5>3
        <4> QED BY <3>1, <4>1, <4>4 DEF HasNote
      <3>2. CASE ~NeedsIt(e)
        BY <2>1, <2>4, <3>2 DEF IsAdded, HasNote
      <3> QED BY <3>1, <3>2
    <2>9. \A line : HasNote(b, line) <=>
            \E i \in 1 .. n : I[entries[i]] /\ NeedsIt(entries[i]) /\ line = Note(entries[i].name)
      <3>1. n \in 1 .. n
        BY <1>5
      <3> QED BY ONLY <1>1, <1>5, <1>6, <1>8, <2>8, <3>1
    <2>10. b \in CleanArchives
      <3>1. b.comment = Tx!Text(b.comment.lines, TRUE) /\ b = [comment |-> b.comment, files |-> b.files]
        BY <2>1 DEF IsAdded
      <3>2. b.comment \in CleanTexts
        <4>1. PICK c, lines : c = b.comment /\ lines = b.comment.lines
          OBVIOUS
        <4>2. c = [lines |-> lines, newline |-> TRUE]
          BY <3>1, <4>1 DEF Tx!Text
        <4>3. lines \in Seq(TameLines)
          BY <2>8, <4>1
        <4> QED BY <4>1, <4>2, <4>3 DEF CleanTexts
      <3> QED BY <2>6, <3>1, <3>2 DEF CleanArchives
    <2>11. ASSUME NEW j \in 1 .. Len(a.files) PROVE a.files[j].name # file.name
      <3>1. HasFile(a, a.files[j])
        BY DEF HasFile
      <3>2. PICK i \in 1 .. m : I[entries[i]] /\ a.files[j] = FileIn(entries[i])
        BY <1>6, <3>1
      <3>3. FileIn(entries[i]).name = entries[i].name
        BY DEF FileIn
      <3>4. entries[i].name # entries[n].name
        BY <1>2, <1>3, <1>5
      <3> QED BY <1>1, <2>3, <3>2, <3>3, <3>4
    <2>12. ASSUME NEW j \in 1 .. Len(b.files), NEW k \in 1 .. Len(b.files), b.files[j].name = b.files[k].name
           PROVE  j = k
      <3>1. Len(a.files) \in Nat
        BY <2>4
      <3>2. (j \in 1 .. Len(a.files) \/ j = Len(a.files) + 1) /\ (k \in 1 .. Len(a.files) \/ k = Len(a.files) + 1)
        BY <2>6, <3>1
      <3> QED BY <1>6, <2>6, <2>11, <2>12, <3>2
    <2> QED BY <1>1, <2>7, <2>9, <2>10, <2>12 DEF Saved
  <1> QED BY <1>7, <1>8

\* What txtar-c saves, whatever the directory is.
LEMMA SaveDirIs ==
  ASSUME NEW entries \in Walks, NEW quote, NEW all,
         \A n \in 1 .. Len(entries) :
           Tx!Included(entries[n], quote, all) => ~Tx!Crashes(entries[n].data)
  PROVE  Saved(entries, Kind(quote, all), Len(entries), Tx!SaveDir(entries, quote, all))
  <1>1. PICK len, I : len = Len(entries) /\ I = Kind(quote, all)
    OBVIOUS
  <1>2. len \in Nat
    BY <1>1 DEF Walks
  <1>3. PICK U : Saves(entries, quote, all, U) /\ Tx!SaveDir(entries, quote, all) = U[len]
    BY <1>1, <1>2, SaveLoop
  <1>4. /\ U[0] = [comment |-> Tx!Empty, files |-> <<>>]
        /\ \A n \in 1 .. len : U[n] = Tx!Add(U[n - 1], entries[n], quote, all)
    BY <1>1, <1>3 DEF Saves
  <1>5. Saved(entries, I, 0, U[0])
    <2>1. PICK a : a = U[0]
      OBVIOUS
    <2>2. a.comment = Tx!Empty /\ a.files = <<>> /\ a = [comment |-> Tx!Empty, files |-> <<>>]
      BY <1>4, <2>1
    <2>3. Tx!Empty = [lines |-> <<>>, newline |-> TRUE]
      BY DEF Tx!Empty, Tx!Text
    <2>4. Tx!Empty \in CleanTexts /\ Tx!Empty.lines = <<>>
      BY <2>3 DEF CleanTexts
    <2>5. a \in CleanArchives
      BY <2>2, <2>4 DEF CleanArchives
    <2>6. 1 .. Len(<<>>) = {} /\ 1 .. 0 = {}
      OBVIOUS
    <2>7. (\A line : ~HasNote(a, line)) /\ (\A file : ~HasFile(a, file))
      BY <2>2, <2>4, <2>6 DEF HasNote, HasFile
    <2> QED BY <2>1, <2>2, <2>5, <2>6, <2>7 DEF Saved
  <1>6. ASSUME NEW n \in 1 .. len, NEW m \in Nat, n = m + 1, Saved(entries, I, m, U[m])
        PROVE  Saved(entries, I, n, U[n])
    <2>1. U[n] = Tx!Add(U[m], entries[n], quote, all)
      <3>1. n - 1 = m
        BY <1>6
      <3> QED BY <1>4, <3>1
    <2> QED BY <1>1, <1>6, <2>1, SavedMore
  <1> DEFINE Wrong == {n \in 0 .. len : ~Saved(entries, I, n, U[n])}
  <1>7. Wrong = {}
    <2> SUFFICES ASSUME Wrong # {} PROVE FALSE
      OBVIOUS
    <2>1. Wrong \subseteq Nat
      OBVIOUS
    <2>2. PICK n \in Wrong : \A m \in Wrong : n <= m
      BY <2>1, Least
    <2>3. n # 0
      BY <1>5, <2>2
    <2>4. PICK m : m = n - 1
      OBVIOUS
    <2>5. n \in 1 .. len /\ m \in Nat /\ n = m + 1 /\ m \in 0 .. len /\ m \notin Wrong
      BY <1>2, <2>2, <2>3, <2>4
    <2> QED BY <1>6, <2>2, <2>5
  <1>8. len \in 0 .. len /\ len \notin Wrong
    BY <1>2, <1>7
  <1> QED BY <1>1, <1>3, <1>8

\* What is written of an archive whose files have different names.
LEMMA WriteIs ==
  ASSUME NEW a, a.files \in Seq(CleanFiles),
         \A j, k \in 1 .. Len(a.files) : a.files[j].name = a.files[k].name => j = k,
         \A j \in 1 .. Len(a.files) : a.files[j].name \notin Outside
  PROVE  ~Tx!Write(a).err /\ Tx!Write(a).tree = {a.files[i] : i \in DOMAIN a.files}
  <1> DEFINE Stops(i) == \/ a.files[i].name \in Outside
                         \/ \E j \in 1 .. i - 1 : a.files[j].name = a.files[i].name
             wrong == {i \in DOMAIN a.files : Stops(i)}
             written == IF wrong = {} THEN DOMAIN a.files ELSE 1 .. Tx!F!Min(wrong) - 1
  <1>1. DOMAIN a.files = 1 .. Len(a.files) /\ Len(a.files) \in Nat
    OBVIOUS
  <1>2. ASSUME NEW i \in 1 .. Len(a.files), NEW j \in 1 .. i - 1 PROVE a.files[j].name # a.files[i].name
    <2>1. j \in 1 .. Len(a.files) /\ j # i
      BY <1>1
    <2> QED BY <2>1
  <1>3. wrong = {}
    BY <1>1, <1>2
  <1>4. Tx!Write(a) = [err |-> wrong # {}, tree |-> {a.files[i] : i \in written}]
    BY DEF Tx!Write
  <1>5. written = DOMAIN a.files
    BY <1>3
  <1> HIDE DEF wrong, written
  <1>6. PICK err, tree : err = (wrong # {}) /\ tree = {a.files[i] : i \in written}
    OBVIOUS
  <1>7. Tx!Write(a) = [err |-> err, tree |-> tree]
    BY <1>4, <1>6
  <1>8. Tx!Write(a).err = err /\ Tx!Write(a).tree = tree
    BY <1>7
  <1> QED BY <1>3, <1>5, <1>6, <1>8

\* A directory is saved so that it can be extracted.
LEMMA DirsRight ==
  ASSUME NEW entries \in Walks, NEW quote \in BOOLEAN, NEW all \in BOOLEAN
  PROVE  DirRight(entries, quote, all, Tx!SaveDir(entries, quote, all))
  <1> DEFINE inc(e) == Tx!Included(e, quote, all)
             saved == {e \in Q!ToSet(entries) : inc(e)}
  <1>1. PICK a : a = Tx!SaveDir(entries, quote, all)
    OBVIOUS
  <1> SUFFICES ASSUME \A n \in DOMAIN entries : Tx!Taken(entries[n], all) => ~Tx!Crashes(entries[n].data)
               PROVE  LET back == Tx!Parse(Tx!Format(a))
                          out == Tx!Write(back)
                          QuotedFile(file) ==
                            Tx!Line(0, Tx!UnquoteLine(file.name)) \in Q!ToSet(back.comment.lines)
                      IN /\ ~out.err
                         /\ \A file \in out.tree : QuotedFile(file) => Tx!CanUnquote(file.data)
                         /\ Tx!UnquoteAll(back, out.tree) =
                              {[name |-> e.name, data |-> Tx!FixNL(e.data)] : e \in saved}
                         /\ quote => saved = {e \in Q!ToSet(entries) : Tx!Taken(e, all)}
    BY <1>1 DEF DirRight
  <1>2. /\ entries \in Seq(Entries) /\ DOMAIN entries = 1 .. Len(entries)
        /\ \A i, k \in 1 .. Len(entries) : entries[i].name = entries[k].name => i = k
    BY DEF Walks
  <1>3. ASSUME NEW n \in 1 .. Len(entries), inc(entries[n])
        PROVE  entries[n] \in Entries /\ ~Tx!Crashes(entries[n].data)
    <2>1. Tx!Taken(entries[n], all)
      BY <1>3 DEF Tx!Included
    <2> QED BY <1>2, <2>1
  <1>4. Saved(entries, Kind(quote, all), Len(entries), a)
    BY <1>1, <1>3, SaveDirIs
  <1>5. \A n \in 1 .. Len(entries) : Kind(quote, all)[entries[n]] = inc(entries[n])
    BY <1>2 DEF Kind
  <1>6. /\ a \in CleanArchives
        /\ \A line : HasNote(a, line) <=>
             \E i \in 1 .. Len(entries) : inc(entries[i]) /\ NeedsIt(entries[i]) /\ line = Note(entries[i].name)
        /\ \A file : HasFile(a, file) <=>
             \E i \in 1 .. Len(entries) : inc(entries[i]) /\ file = FileIn(entries[i])
        /\ \A j, k \in 1 .. Len(a.files) : a.files[j].name = a.files[k].name => j = k
    <2> HIDE DEF inc
    <2> QED BY <1>4, <1>5 DEF Saved
  <1>7. Tx!Parse(Tx!Format(a)) = a
    BY <1>6, RoundTrip
  <1>8. a.files \in Seq(CleanFiles) /\ DOMAIN a.files = 1 .. Len(a.files)
        /\ a.comment.lines \in Seq(TameLines) /\ DOMAIN a.comment.lines = 1 .. Len(a.comment.lines)
    <2>1. a.files \in Seq(CleanFiles) /\ a.comment \in CleanTexts
      BY <1>6 DEF CleanArchives
    <2>2. a.comment.lines \in Seq(TameLines)
      BY <2>1 DEF CleanTexts
    <2> QED BY <2>1, <2>2
  <1>9. ASSUME NEW j \in 1 .. Len(a.files)
        PROVE  \E i \in 1 .. Len(entries) : inc(entries[i]) /\ a.files[j] = FileIn(entries[i])
    <2>1. HasFile(a, a.files[j])
      BY DEF HasFile
    <2> QED BY <1>6, <2>1
  <1>10. ASSUME NEW j \in 1 .. Len(a.files) PROVE a.files[j].name \notin Outside
    <2>1. PICK i \in 1 .. Len(entries) : inc(entries[i]) /\ a.files[j] = FileIn(entries[i])
      BY <1>9
    <2>2. FileIn(entries[i]).name = entries[i].name
      BY DEF FileIn
    <2>3. entries[i] \in Entries
      BY <1>2
    <2> QED BY <2>1, <2>2, <2>3 DEF Entries
  <1>11. ~Tx!Write(a).err /\ Tx!Write(a).tree = {a.files[i] : i \in DOMAIN a.files}
    BY <1>6, <1>8, <1>10, WriteIs
  <1>12. PICK tree : tree = Tx!Write(a).tree
    OBVIOUS
  <1>13. \A file : file \in tree <=> \E i \in 1 .. Len(entries) : inc(entries[i]) /\ file = FileIn(entries[i])
    <2>1. \A file : file \in tree <=> HasFile(a, file)
      BY <1>8, <1>11, <1>12 DEF HasFile
    <2> HIDE DEF inc
    <2> QED BY <1>6, <2>1
  <1> DEFINE Noted(file) == Tx!Line(0, Tx!UnquoteLine(file.name)) \in Q!ToSet(a.comment.lines)
             NotedToo(file) == Tx!Line(0, Tx!UnquoteLine(file.name)) \in Tx!S!ToSet(a.comment.lines)
             Back(file) == IF NotedToo(file) THEN [file EXCEPT !.data = Tx!Unquote(@)] ELSE file
  <1>14. ASSUME NEW file PROVE (Noted(file) <=> HasNote(a, Note(file.name))) /\ (NotedToo(file) <=> HasNote(a, Note(file.name)))
    BY <1>8 DEF HasNote, Note, Q!ToSet, Tx!S!ToSet
  <1>15. ASSUME NEW i \in 1 .. Len(entries), inc(entries[i])
         PROVE  HasNote(a, Note(FileIn(entries[i]).name)) <=> NeedsIt(entries[i])
    <2>1. FileIn(entries[i]).name = entries[i].name
      BY DEF FileIn
    <2>2. entries[i] \in Entries
      BY <1>2
    <2>3. entries[i].name \in FileNames
      BY <2>2 DEF Entries
    <2>4. ASSUME NEW k \in 1 .. Len(entries), Note(entries[i].name) = Note(entries[k].name)
          PROVE  k = i
      <3>1. entries[i].name = entries[k].name
        BY <2>3, <2>4, NoteIs
      <3> QED BY <1>2, <3>1
    <2> HIDE DEF inc
    <2> QED BY <1>6, <1>15, <2>1, <2>4
  <1>16. ASSUME NEW i \in 1 .. Len(entries), inc(entries[i])
         PROVE  /\ Noted(FileIn(entries[i])) => Tx!CanUnquote(FileIn(entries[i]).data)
                /\ Back(FileIn(entries[i])) = [name |-> entries[i].name, data |-> Tx!FixNL(entries[i].data)]
    <2>1. PICK e, file : e = entries[i] /\ file = FileIn(e)
      OBVIOUS
    <2>2. e \in Entries /\ ~Tx!Crashes(e.data)
      BY <1>3, <1>16, <2>1
    <2>3. /\ file.name = e.name
          /\ NeedsIt(e) => Tx!CanUnquote(file.data) /\ Tx!Unquote(file.data) = Tx!FixNL(e.data)
          /\ ~NeedsIt(e) => file.data = Tx!FixNL(e.data)
      BY <2>1, <2>2, FileInIs
    <2>4. (Noted(file) <=> NeedsIt(e)) /\ (NotedToo(file) <=> NeedsIt(e))
      <3> HIDE DEF Noted, NotedToo
      <3> QED BY <1>14, <1>15, <1>16, <2>1
    <2>5. file = [name |-> file.name, data |-> file.data]
      BY <2>1 DEF FileIn
    <2>6. [file EXCEPT !.data = Tx!Unquote(@)] = [name |-> file.name, data |-> Tx!Unquote(file.data)]
      BY <2>5
    <2> HIDE DEF Noted, NotedToo
    <2>7. Back(file) = IF NeedsIt(e) THEN [name |-> file.name, data |-> Tx!Unquote(file.data)] ELSE file
      BY <2>4, <2>6
    <2>8. Back(file) = [name |-> e.name, data |-> Tx!FixNL(e.data)]
      <3> HIDE DEF Back
      <3> QED BY <2>3, <2>5, <2>7
    <2> HIDE DEF Back
    <2> QED BY <2>1, <2>3, <2>4, <2>8
  <1>17. \A e : e \in saved <=> \E i \in 1 .. Len(entries) : inc(entries[i]) /\ e = entries[i]
    <2> HIDE DEF inc
    <2> QED BY <1>2 DEF Q!ToSet
  <1>18. \A file \in tree : Noted(file) => Tx!CanUnquote(file.data)
    <2> HIDE DEF inc, Noted
    <2> QED BY <1>13, <1>16
  <1>19. Tx!UnquoteAll(a, tree) = {[name |-> e.name, data |-> Tx!FixNL(e.data)] : e \in saved}
    <2>1. Tx!UnquoteAll(a, tree) = {Back(file) : file \in tree}
      BY DEF Tx!UnquoteAll
    <2> HIDE DEF Back, saved, inc
    <2>2. \A v : v \in {Back(file) : file \in tree} <=>
                   \E i \in 1 .. Len(entries) : inc(entries[i]) /\ v = Back(FileIn(entries[i]))
      BY <1>13
    <2>3. \A v : v \in {[name |-> e.name, data |-> Tx!FixNL(e.data)] : e \in saved} <=>
                   \E i \in 1 .. Len(entries) :
                     inc(entries[i]) /\ v = [name |-> entries[i].name, data |-> Tx!FixNL(entries[i].data)]
      BY <1>17
    <2> QED BY <1>16, <2>1, <2>2, <2>3
  <1>20. ASSUME quote PROVE saved = {e \in Q!ToSet(entries) : Tx!Taken(e, all)}
    BY <1>20 DEF Tx!Included
  <1> HIDE DEF inc, saved, Noted
  <1>21. /\ ~Tx!Write(a).err
         /\ \A file \in Tx!Write(a).tree : Noted(file) => Tx!CanUnquote(file.data)
         /\ Tx!UnquoteAll(a, Tx!Write(a).tree) = {[name |-> e.name, data |-> Tx!FixNL(e.data)] : e \in saved}
    BY <1>11, <1>12, <1>18, <1>19
  <1> QED BY <1>7, <1>20, <1>21 DEF Noted

\*-------------------------------------------------------- the specification
\* Each job that was done has the result that the program computes for it.
Worked ==
  /\ job \in Jobs /\ done \in BOOLEAN
  /\ done =>
       /\ job.kind = "text" => result = Tx!Parse(job.text)
       /\ job.kind = "dir" => result = Tx!SaveDir(job.entries, job.quote, job.all)
       /\ job.kind = "diff" => result = Diff(job.old, job.new)
       /\ job.kind = "scan" => result = ScanDir(job.dir, job.tags)
       /\ job.kind = "line" => result = Sl!Parse(job.line)
       /\ job.kind = "words" => result = Sl!Parse(AllInQuotes(job.words))
       /\ job.kind = "name" => result = Sl!Suggestions(job.line)

\* Jobs are worked on once, and not changed.
THEOREM AlwaysWorked == Spec => []Worked
  <1>1. Init => Worked
    BY DEF Init, Worked
  <1>2. Worked /\ [Next]_vars => Worked'
    <2>1. SUFFICES ASSUME Worked, [Next]_vars PROVE Worked'
      OBVIOUS
    <2>2. CASE UNCHANGED vars
      BY ONLY <2>1, <2>2 DEF Worked, vars
    <2>3. CASE ParseText
      BY ONLY <2>1, <2>3 DEF Worked, ParseText, Start
    <2>4. CASE Archive
      BY ONLY <2>1, <2>4 DEF Worked, Archive, Start
    <2>5. CASE Compare
      BY ONLY <2>1, <2>5 DEF Worked, Compare, Start
    <2>6. CASE Scan
      BY ONLY <2>1, <2>6 DEF Worked, Scan, Start
    <2>7. CASE ParseLine
      BY ONLY <2>1, <2>7 DEF Worked, ParseLine, Start
    <2>8. CASE ParseWords
      BY ONLY <2>1, <2>8 DEF Worked, ParseWords, Start
    <2>9. CASE Suggest
      BY ONLY <2>1, <2>9 DEF Worked, Suggest, Start
    <2> QED BY ONLY <2>1, <2>2, <2>3, <2>4, <2>5, <2>6, <2>7, <2>8, <2>9 DEF Next
  <1> QED BY <1>1, <1>2, PTL DEF Spec

\* A diff is empty for equal texts only, the chunks that are printed turn one
\* text into the other, and as few unique lines as possible are removed
\* (diff.go:19-46, 163-258): for all texts, and any number of lines of context.
THEOREM DiffsAreRight == Spec => []DiffRight
  <1>1. Worked => DiffRight
    <2>1. SUFFICES ASSUME Worked, done, job.kind = "diff"
                   PROVE  /\ result = <<>> <=> job.old = job.new
                          /\ Patches(Lines(job.old), Lines(job.new), result)
                          /\ Anchored(Lines(job.old), Lines(job.new), result)
      BY DEF DiffRight, Over
    <2>2. job.old \in Bytes(Strings) /\ job.new \in Bytes(Strings)
      BY <2>1 DEF Worked, Jobs
    <2>3. result = Diff(job.old, job.new)
      BY <2>1 DEF Worked
    <2> QED BY <2>2, <2>3, DiffIs
  <1> QED BY <1>1, AlwaysWorked, PTL

\* What may be built under some tags is found under "*", and a file whose
\* conditions are independent is found there only if some tags build it
\* (build.go:29-34, 155-157, scan.go:16-82): for all directories and tags.
THEOREM BuildsAreRight == Spec => []BuildRight
  <1>1. Worked => BuildRight
    <2>1. SUFFICES ASSUME Worked, done, job.kind = "scan"
                   PROVE  /\ Covers(ScanDir(job.dir, {AllTags}), result)
                          /\ Sharp(job.dir, ScanDir(job.dir, {AllTags}))
      BY DEF BuildRight, Over
    <2>2. job.dir \in SUBSET GoFiles /\ job.tags \in SUBSET TagNames
      BY <2>1 DEF Worked, Jobs
    <2>3. result = ScanDir(job.dir, job.tags)
      BY <2>1 DEF Worked
    <2> QED BY <2>2, <2>3, CoversAll, SharpAll
  <1> QED BY <1>1, AlwaysWorked, PTL


\* A line gives the arguments its quotes say, what is quoted comes out as it was,
\* and an unknown command is compared with all that are within one typing error
\* (testscript.go:1259-1318, 775-802, misspell.go:8-14): for all lines of any
\* length, all words, all commands and whatever a variable is expanded to.
THEOREM LinesAreRight == Spec => []LineRight
  <1>1. Worked => LineRight
    <2>1. ASSUME Worked, done, job.kind = "line" PROVE ArgsRight(job.line, result)
      <3>1. job.line \in Seq(Characters)
        BY <2>1 DEF Worked, Jobs
      <3>2. result = Sl!Parse(job.line)
        BY <2>1 DEF Worked
      <3> QED BY <3>1, <3>2, ParseRight
    <2>2. ASSUME Worked, done, job.kind = "words" PROVE result = job.words
      <3>1. job.words \in Seq(Seq(Characters))
        BY <2>2 DEF Worked, Jobs
      <3>2. result = Sl!Parse(AllInQuotes(job.words))
        BY <2>2 DEF Worked
      <3> QED BY <3>1, <3>2, WordsScanned
    <2>3. ASSUME Worked, done, job.kind = "name" PROVE NameRight(job.line, result)
      <3>1. job.line \in Seq(Characters)
        BY <2>3 DEF Worked, Jobs
      <3>2. result = Sl!Suggestions(job.line)
        BY <2>3 DEF Worked
      <3> QED BY <3>1, <3>2, SuggestionsRight
    <2> QED BY <2>1, <2>2, <2>3 DEF LineRight, Over
  <1> QED BY <1>1, AlwaysWorked, PTL

\* What is parsed is the same when it is formatted and parsed again, quoting is
\* needed exactly for what would be lost, and a directory that was saved is there
\* again, unquoted, once the archive was extracted (archive.go:69-188,
\* savedir.go:39-106): for all texts, and all directories.
THEOREM ArchivesAreRight == Spec => []TxtarRight
  <1>1. Worked => TxtarRight
    <2>1. ASSUME Worked, done, job.kind = "text" PROVE TextRight(job.text, result)
      <3>1. job.text \in Bytes(FileLines)
        BY <2>1 DEF Worked, Jobs
      <3>2. result = Tx!Parse(job.text)
        BY <2>1 DEF Worked
      <3> QED BY <3>1, <3>2, TextsRight
    <2>2. ASSUME Worked, done, job.kind = "dir"
          PROVE  DirRight(job.entries, job.quote, job.all, result)
      <3>1. job.entries \in Walks /\ job.quote \in BOOLEAN /\ job.all \in BOOLEAN
        BY <2>2 DEF Worked, Jobs
      <3>2. result = Tx!SaveDir(job.entries, job.quote, job.all)
        BY <2>2 DEF Worked
      <3> QED BY <3>1, <3>2, DirsRight
    <2> QED BY <2>1, <2>2 DEF TxtarRight, Over
  <1> QED BY <1>1, AlwaysWorked, PTL

==============================================================================
