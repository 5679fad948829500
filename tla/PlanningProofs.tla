---------------------------- MODULE PlanningProofs ----------------------------
(***************************************************************************)
(* What the recursive functions of the planner compute, for every          *)
(* specification: the names it derives, and that each is new; the          *)
(* arguments it makes of the inputs of several steps, and where their      *)
(* values come from.                                                       *)
(*                                                                         *)
(* A function defined by recursion is one that satisfies its equation as   *)
(* long as there is one; that there is, and what it is like, is shown by   *)
(* the least number at which it would fail.                                *)
(***************************************************************************)
EXTENDS Planning, FiniteSetTheorems, WellFoundedInduction, TLAPS

\* A set of natural numbers that is not empty has a least element.
LEMMA LeastOf ==
    ASSUME NEW S \in SUBSET Nat, S # {}
    PROVE  \E m \in S : \A k \in S : m <= k
<1> DEFINE R == {pair \in Nat \X Nat : pair[1] < pair[2]}
<1>1. IsWellFoundedOn(R, Nat)
    BY NatLessThanWellFounded DEF OpToRel
<1>2. PICK m \in S : \A k \in S : <<k, m>> \notin R
    <2> HIDE DEF R
    <2>1. QED  BY <1>1, WFMin
<1>3. ASSUME NEW k \in S
      PROVE  m <= k
    <2>1. k \in Nat /\ m \in Nat
        OBVIOUS
    <2>2. <<k, m>> \in Nat \X Nat /\ <<k, m>>[1] = k /\ <<k, m>>[2] = m
        BY <2>1
    <2>3. QED  BY <1>2, <2>1, <2>2
<1>4. QED  BY <1>3

-----------------------------------------------------------------------------
(* Names *)

\* The name of an operation after those before it, and the function that PlannedNames
\* chooses: it gives the names of the first operations.
NextName(ops, overlay, i, before) == NameOf(ops[i], Entry(overlay, ops[i].id).name, before)

IsNames(ops, overlay, n, f) ==
    f = [i \in 0..n |-> IF i = 0 THEN <<>>
                        ELSE Append(f[i - 1], NextName(ops, overlay, i, f[i - 1]))]

\* There is such a function for any number of operations.
LEMMA NamesExist ==
    ASSUME NEW ops, NEW overlay, NEW n \in Nat
    PROVE  \E f : IsNames(ops, overlay, n, f)
<1> DEFINE bad == {m \in Nat : ~\E f : IsNames(ops, overlay, m, f)}
<1> SUFFICES ASSUME bad # {} PROVE FALSE
    OBVIOUS
<1>1. PICK m \in bad : \A k \in bad : m <= k
    BY LeastOf
<1>2. CASE m = 0
    <2>1. IsNames(ops, overlay, 0, [i \in 0..0 |-> <<>>])
        BY DEF IsNames
    <2>2. QED  BY <1>2, <2>1
<1>3. CASE m # 0
    <2>1. m - 1 \in Nat /\ m - 1 \notin bad
        BY <1>1, <1>3
    <2>2. PICK f : IsNames(ops, overlay, m - 1, f)
        BY <2>1
    <2> DEFINE g == [i \in 0..m |-> IF i = 0 THEN <<>>
                                    ELSE Append(f[i - 1], NextName(ops, overlay, i, f[i - 1]))]
    <2>3. \A i \in 1..m : i - 1 \in 0..(m - 1) /\ i - 1 \in 0..m
        BY <2>1
    <2>4. \A i \in 1..m : g[i - 1] = f[i - 1]
        BY <2>2, <2>3 DEF IsNames
    <2>5. \A i \in 0..m : i = 0 \/ i \in 1..m
        BY <2>1
    <2>6. IsNames(ops, overlay, m, g)
        BY <2>4, <2>5 DEF IsNames
    <2> HIDE DEF g
    <2>7. QED  BY <2>6
<1>4. QED  BY <1>2, <1>3

\* So the names are those of that function.
LEMMA NamesUnfold ==
    ASSUME NEW ops, NEW overlay, Len(ops) \in Nat
    PROVE  \E f : IsNames(ops, overlay, Len(ops), f) /\ PlannedNames(ops, overlay) = f[Len(ops)]
<1> DEFINE names == CHOOSE f : IsNames(ops, overlay, Len(ops), f)
<1>1. IsNames(ops, overlay, Len(ops), names)
    BY NamesExist
<1>2. PlannedNames(ops, overlay) = names[Len(ops)]
    BY DEF PlannedNames, IsNames, NextName
<1> HIDE DEF names
<1>3. QED  BY <1>1, <1>2

\* A function on the first numbers is a sequence, and appending to it extends it.
LEMMA AppendsTo ==
    ASSUME NEW n \in Nat, NEW it, it = [i \in 1..n |-> it[i]], NEW x
    PROVE  Append(it, x) = [i \in 1..(n + 1) |-> IF i <= n THEN it[i] ELSE x]
<1> DEFINE all == {it[i] : i \in 1..n} \union {x}
<1>1. \A i \in 1..n : it[i] \in all
    OBVIOUS
<1>2. x \in all
    OBVIOUS
<1> HIDE DEF all
<1>3. it \in Seq(all) /\ Len(it) = n
    BY <1>1
<1>4. QED  BY <1>2, <1>3

\* The names of the first operations.
Told(ops, overlay, f, k) == f[k] = [j \in 1..k |-> NextName(ops, overlay, j, f[j - 1])]

LEMMA NamesSoFar ==
    ASSUME NEW ops, NEW overlay, NEW n \in Nat, NEW f, IsNames(ops, overlay, n, f),
           NEW k \in 0..n
    PROVE  Told(ops, overlay, f, k)
<1> DEFINE bad == {m \in 0..n : ~Told(ops, overlay, f, m)}
<1> SUFFICES ASSUME bad # {} PROVE FALSE
    OBVIOUS
<1>1. PICK m \in bad : \A i \in bad : m <= i
    <2>1. bad \in SUBSET Nat
        OBVIOUS
    <2> HIDE DEF bad
    <2>2. QED  BY <2>1, LeastOf
<1>2. m \in 0..n /\ ~Told(ops, overlay, f, m)
    BY <1>1
<1>3. m # 0
    <2>1. f[0] = <<>>
        BY DEF IsNames
    <2>2. Told(ops, overlay, f, 0)
        BY <2>1 DEF Told
    <2>3. QED  BY <1>2, <2>2
<1>4. m - 1 \in 0..n /\ m - 1 \notin bad
    BY <1>1, <1>2, <1>3
<1>5. f[m - 1] = [j \in 1..(m - 1) |-> NextName(ops, overlay, j, f[j - 1])]
    BY <1>4 DEF Told
<1>6. f[m] = Append(f[m - 1], NextName(ops, overlay, m, f[m - 1]))
    BY <1>2, <1>3 DEF IsNames
<1> HIDE DEF bad
<1> DEFINE x == NextName(ops, overlay, m, f[m - 1])
<1>7. Append(f[m - 1], x) = [i \in 1..((m - 1) + 1) |-> IF i <= m - 1 THEN f[m - 1][i] ELSE x]
    <2>1. m - 1 \in Nat
        BY <1>4
    <2> HIDE DEF x
    <2>2. f[m - 1] = [i \in 1..(m - 1) |-> f[m - 1][i]]
        BY <1>5
    <2>3. QED  BY <2>1, <2>2, AppendsTo
<1>8. \A i \in 1..m : (IF i <= m - 1 THEN f[m - 1][i] ELSE x)
                          = NextName(ops, overlay, i, f[i - 1])
    <2>1. ASSUME NEW i \in 1..m, i <= m - 1
          PROVE  f[m - 1][i] = NextName(ops, overlay, i, f[i - 1])
        <3>1. i \in 1..(m - 1)
            BY <1>2, <2>1
        <3>2. QED  BY <1>5, <3>1
    <2>2. ASSUME NEW i \in 1..m, ~(i <= m - 1)
          PROVE  i = m
        BY <1>2, <2>2
    <2>3. QED  BY <2>1, <2>2
<1>9. (m - 1) + 1 = m
    BY <1>2
<1>10. Told(ops, overlay, f, m)
    BY <1>6, <1>7, <1>8, <1>9 DEF Told
<1>11. QED  BY <1>2, <1>10

\* Each name is given knowing those before it, and no others.
LEMMA NamesAre ==
    ASSUME NEW ops, NEW overlay, Len(ops) \in Nat
    PROVE  LET names == PlannedNames(ops, overlay) IN
           /\ names = [j \in 1..Len(ops) |-> names[j]]
           /\ \A j \in 1..Len(ops) : \E before :
                  /\ before = [i \in 1..(j - 1) |-> names[i]]
                  /\ names[j] = NextName(ops, overlay, j, before)
<1> DEFINE n == Len(ops)
           names == PlannedNames(ops, overlay)
<1>1. PICK f : IsNames(ops, overlay, n, f) /\ names = f[n]
    BY NamesUnfold
<1>2. ASSUME NEW k \in 0..n
      PROVE  Told(ops, overlay, f, k)
    <2>1. n \in Nat /\ IsNames(ops, overlay, n, f)
        BY <1>1
    <2> HIDE DEF names, n
    <2>2. QED  BY <2>1, NamesSoFar
<1>3. n \in 0..n
    OBVIOUS
<1> HIDE DEF names, n
<1>4. names = [j \in 1..n |-> NextName(ops, overlay, j, f[j - 1])]
    BY <1>1, <1>2, <1>3 DEF Told
<1>5. ASSUME NEW j \in 1..n
      PROVE  /\ f[j - 1] = [i \in 1..(j - 1) |-> names[i]]
             /\ names[j] = NextName(ops, overlay, j, f[j - 1])
    <2>1. j - 1 \in 0..n /\ \A i \in 1..(j - 1) : i \in 1..n
        BY DEF n
    <2>2. f[j - 1] = [i \in 1..(j - 1) |-> NextName(ops, overlay, i, f[i - 1])]
        BY <1>2, <2>1 DEF Told
    <2>3. \A i \in 1..(j - 1) : names[i] = NextName(ops, overlay, i, f[i - 1])
        BY <1>4, <2>1
    <2>4. QED  BY <1>4, <2>2, <2>3
<1>6. names = [j \in 1..n |-> names[j]]
    BY <1>4
<1>7. QED  BY <1>5, <1>6 DEF names, n

\* A number that makes the name new is found before they run out.
LEMMA SomeNumber ==
    ASSUME NEW taken, IsFiniteSet(taken), NEW words
    PROVE  LET Joined(n) == [words |-> words, number |-> n] IN
           \E n \in 1..(Cardinality(taken) + 1) :
               Joined(n) \notin taken /\ \A m \in 1..(n - 1) : Joined(m) \in taken
<1> DEFINE Joined(n) == [words |-> words, number |-> n]
           most == Cardinality(taken) + 1
           new == {n \in 1..most : Joined(n) \notin taken}
<1>1. Cardinality(taken) \in Nat
    BY FS_CardinalityType
<1>2. new # {}
    <2> SUFFICES ASSUME new = {} PROVE FALSE
        OBVIOUS
    <2> DEFINE f == [n \in 1..most |-> Joined(n)]
    <2>1. f \in [1..most -> taken]
        OBVIOUS
    <2>2. IsFiniteSet(1..most) /\ Cardinality(1..most) = most
        BY <1>1, FS_Interval
    <2>3. Cardinality(taken) < Cardinality(1..most)
        BY <1>1, <2>2
    <2>4. \A x, y \in 1..most : x # y => f[x] # f[y]
        <3>1. \A x \in 1..most : f[x].number = x
            OBVIOUS
        <3>2. QED  BY <3>1
    <2> DEFINE numbers == 1..most
    <2> HIDE DEF f
    <2>5. \E x, y \in numbers : x # y /\ f[x] = f[y]
        <3>1. IsFiniteSet(numbers) /\ Cardinality(taken) < Cardinality(numbers)
            BY <2>2, <2>3
        <3>2. f \in [numbers -> taken]
            BY <2>1
        <3> HIDE DEF numbers
        <3>3. QED  BY <3>1, <3>2, FS_PigeonHole
    <2>6. QED  BY <2>4, <2>5
<1>3. new \in SUBSET Nat
    BY <1>1
<1>4. PICK n \in new : \A m \in new : n <= m
    <2> HIDE DEF new
    <2>1. QED  BY <1>2, <1>3, LeastOf
<1>5. ASSUME NEW m \in 1..(n - 1)
      PROVE  Joined(m) \in taken
    <2>1. m \in 1..most /\ ~(n <= m)
        BY <1>1, <1>3
    <2> HIDE DEF Joined
    <2>2. m \notin new
        BY <1>4, <2>1
    <2>3. QED  BY <2>1, <2>2
<1>6. QED  BY <1>4, <1>5

\* A route is the sequence of its segments.
IsRoute(route) == Len(route) \in Nat /\ DOMAIN route = 1..Len(route)

\* A derived name is told apart from every name there is, of which there are finitely many:
\* by a prefix from its route, or by a number before they run out (Disambiguate).
THEOREM DisambiguateIsNew ==
    ASSUME NEW name, NEW route, IsRoute(route), NEW taken, IsFiniteSet(taken)
    PROVE  Disambiguate(name, route, taken) \notin taken
<1> DEFINE Prefixed(segment) == IF Head(name.words) = segment.text THEN name
                                ELSE Name(<<segment.text>> \o name.words)
           free == {i \in DOMAIN route : ~route[i].template /\ Prefixed(route[i]) \notin taken}
           words == Texts(Named(route)) \o name.words
           Joined(n) == [words |-> words, number |-> n]
           number == CHOOSE n \in 1..(Cardinality(taken) + 1) :
                         Joined(n) \notin taken /\ \A m \in 1..(n - 1) : Joined(m) \in taken
           first == CHOOSE i \in free : \A j \in free : i <= j
<1>1. Disambiguate(name, route, taken)
          = IF name \notin taken THEN name
            ELSE IF free # {} THEN Prefixed(route[first])
            ELSE Joined(number)
    BY DEF Disambiguate
<1>2. ASSUME free # {}
      PROVE  Prefixed(route[first]) \notin taken
    <2>1. free \in SUBSET Nat
        BY DEF IsRoute
    <2>2. \E i \in free : \A j \in free : i <= j
        <3> HIDE DEF free
        <3>1. QED  BY <1>2, <2>1, LeastOf
    <2>3. first \in free
        <3> HIDE DEF free
        <3>1. QED  BY <2>2
    <2> HIDE DEF first, Prefixed
    <2>4. QED  BY <2>3
<1>3. Joined(number) \notin taken
    <2> HIDE DEF words
    <2>1. QED  BY SomeNumber
<1> HIDE DEF Joined, number, Prefixed, first, free
<1>4. QED  BY <1>1, <1>2, <1>3

-----------------------------------------------------------------------------
(* Arguments *)

NextArgument(fields, k, before) ==
    IF fields[k].bare \in ToSet(before) THEN [fields[k].bare EXCEPT !.of = fields[k].of]
    ELSE fields[k].bare
IsArguments(fields, n, f) ==
    f = [k \in 0..n |-> IF k = 0 THEN <<>>
                        ELSE Append(f[k - 1], NextArgument(fields, k, f[k - 1]))]

LEMMA ArgumentsExist ==
    ASSUME NEW fields, NEW n \in Nat
    PROVE  \E f : IsArguments(fields, n, f)
<1> DEFINE bad == {m \in Nat : ~\E f : IsArguments(fields, m, f)}
<1> SUFFICES ASSUME bad # {} PROVE FALSE
    OBVIOUS
<1>1. PICK m \in bad : \A k \in bad : m <= k
    BY LeastOf
<1>2. CASE m = 0
    <2>1. IsArguments(fields, 0, [k \in 0..0 |-> <<>>])
        BY DEF IsArguments
    <2>2. QED  BY <1>2, <2>1
<1>3. CASE m # 0
    <2>1. m - 1 \in Nat /\ m - 1 \notin bad
        BY <1>1, <1>3
    <2>2. PICK f : IsArguments(fields, m - 1, f)
        BY <2>1
    <2> DEFINE g == [k \in 0..m |-> IF k = 0 THEN <<>>
                                    ELSE Append(f[k - 1], NextArgument(fields, k, f[k - 1]))]
    <2>3. \A k \in 1..m : k - 1 \in 0..(m - 1) /\ k - 1 \in 0..m
        BY <2>1
    <2>4. \A k \in 1..m : g[k - 1] = f[k - 1]
        BY <2>2, <2>3 DEF IsArguments
    <2>5. \A k \in 0..m : k = 0 \/ k \in 1..m
        BY <2>1
    <2>6. IsArguments(fields, m, g)
        BY <2>4, <2>5 DEF IsArguments
    <2> HIDE DEF g
    <2>7. QED  BY <2>6
<1>4. QED  BY <1>2, <1>3

LEMMA ArgumentsUnfold ==
    ASSUME NEW fields, Len(fields) \in Nat
    PROVE  \E f : /\ f[0] = <<>>
                  /\ \A k \in 1..Len(fields) :
                         f[k] = Append(f[k - 1], NextArgument(fields, k, f[k - 1]))
                  /\ Arguments(fields) = f[Len(fields)]
<1> DEFINE n == Len(fields)
           named == CHOOSE f : IsArguments(fields, n, f)
<1>1. IsArguments(fields, n, named)
    BY ArgumentsExist
<1>2. Arguments(fields) = named[n]
    BY DEF Arguments, IsArguments, NextArgument
<1> HIDE DEF named, n
<1>3. n \in Nat
    BY DEF n
<1>4. named[0] = <<>>
    BY <1>1, <1>3 DEF IsArguments
<1>5. ASSUME NEW k \in 1..n
      PROVE  named[k] = Append(named[k - 1], NextArgument(fields, k, named[k - 1]))
    <2>1. k \in 0..n /\ k # 0
        BY <1>3
    <2>2. QED  BY <1>1, <2>1 DEF IsArguments
<1>6. QED  BY <1>2, <1>4, <1>5 DEF n

\* A field's argument has its name, with or without its step.
LEMMA ArgumentsAre ==
    ASSUME NEW fields, Len(fields) \in Nat
    PROVE  \A k \in 1..Len(fields) : \E before :
               Arguments(fields)[k] = NextArgument(fields, k, before)
<1> DEFINE n == Len(fields)
<1>1. PICK f : /\ f[0] = <<>>
               /\ \A k \in 1..n : f[k] = Append(f[k - 1], NextArgument(fields, k, f[k - 1]))
               /\ Arguments(fields) = f[n]
    BY ArgumentsUnfold
<1> DEFINE Of(k) == /\ f[k] = [j \in 1..k |-> f[k][j]]
                    /\ \A j \in 1..k : f[k][j] = NextArgument(fields, j, f[j - 1])
           bad == {k \in 0..n : ~Of(k)}
<1>2. n \in Nat
    OBVIOUS
<1> HIDE DEF n
<1>3. bad = {}
    <2> SUFFICES ASSUME bad # {} PROVE FALSE
        OBVIOUS
    <2>1. PICK k \in bad : \A j \in bad : k <= j
        <3>1. bad \in SUBSET Nat
            BY <1>2
        <3> HIDE DEF bad
        <3>2. QED  BY <3>1, LeastOf
    <2>2. Of(0)
        BY <1>1
    <2>3. k \in 1..n
        BY <1>2, <2>1, <2>2
    <2>4. Of(k - 1) /\ k - 1 \in Nat /\ (k - 1) + 1 = k
        BY <1>2, <2>1, <2>3
    <2> DEFINE x == NextArgument(fields, k, f[k - 1])
               it == f[k - 1]
               m == k - 1
    <2>5. m \in Nat /\ m + 1 = k /\ it = [j \in 1..m |-> it[j]]
        BY <2>4
    <2>6. \A j \in 1..m : it[j] = NextArgument(fields, j, f[j - 1])
        BY <2>4
    <2>7. f[k] = Append(it, x)
        BY <1>1, <2>3
    <2> HIDE DEF x, it, m, Of
    <2>8. f[k] = [j \in 1..k |-> IF j <= m THEN it[j] ELSE x]
        BY <2>5, <2>7, AppendsTo
    <2>9. \A j \in 1..k : f[k][j] = NextArgument(fields, j, f[j - 1])
        <3>1. \A j \in 1..k : j \in 1..m \/ (j = k /\ ~(j <= m))
            BY <2>5
        <3>2. \A j \in 1..m : j <= m
            BY <2>5
        <3>3. QED  BY <2>6, <2>8, <3>1, <3>2 DEF x
    <2>10. Of(k)
        BY <2>8, <2>9 DEF Of
    <2>11. QED  BY <2>1, <2>10
<1>4. Of(n)
    <2> HIDE DEF Of
    <2>1. QED  BY <1>2, <1>3
<1>5. QED  BY <1>1, <1>4 DEF n

-----------------------------------------------------------------------------
(* Fields *)

NextFlat(seqs, i, before) == IF i = 1 THEN seqs[i] ELSE before \o seqs[i]
IsFlat(seqs, n, f) == f = [i \in 1..n |-> NextFlat(seqs, i, f[i - 1])]

LEMMA FlatExists ==
    ASSUME NEW seqs, NEW n \in Nat
    PROVE  \E f : IsFlat(seqs, n, f)
<1> DEFINE bad == {m \in Nat : ~\E f : IsFlat(seqs, m, f)}
<1> SUFFICES ASSUME bad # {} PROVE FALSE
    OBVIOUS
<1>1. PICK m \in bad : \A k \in bad : m <= k
    BY LeastOf
<1>2. CASE m = 0
    <2>1. IsFlat(seqs, 0, [i \in 1..0 |-> <<>>])
        BY DEF IsFlat
    <2>2. QED  BY <1>2, <2>1
<1>3. CASE m # 0
    <2>1. m - 1 \in Nat /\ m - 1 \notin bad
        BY <1>1, <1>3
    <2>2. PICK f : IsFlat(seqs, m - 1, f)
        BY <2>1
    <2> DEFINE g == [i \in 1..m |-> NextFlat(seqs, i, f[i - 1])]
    <2>3. \A i \in 2..m : i - 1 \in 1..(m - 1) /\ i - 1 \in 1..m
        BY <2>1
    <2>4. \A i \in 2..m : g[i - 1] = f[i - 1]
        BY <2>2, <2>3 DEF IsFlat
    <2>5. \A i \in 1..m : i = 1 \/ i \in 2..m
        BY <2>1
    <2>6. \A i \in 1..m : NextFlat(seqs, i, f[i - 1]) = NextFlat(seqs, i, g[i - 1])
        BY <2>4, <2>5 DEF NextFlat
    <2>7. IsFlat(seqs, m, g)
        BY <2>6 DEF IsFlat
    <2> HIDE DEF g
    <2>8. QED  BY <2>7
<1>4. QED  BY <1>2, <1>3

LEMMA FlatUnfolds ==
    ASSUME NEW seqs, Len(seqs) \in Nat \ {0}
    PROVE  \E f : /\ f[1] = seqs[1]
                  /\ \A i \in 2..Len(seqs) : f[i] = f[i - 1] \o seqs[i]
                  /\ FlattenSeq(seqs) = f[Len(seqs)]
<1> DEFINE n == Len(seqs)
           Is(f) == f = [i \in 1..n |-> IF i = 1 THEN seqs[i] ELSE f[i - 1] \o seqs[i]]
           flat == CHOOSE f : Is(f)
<1>1. PICK f : IsFlat(seqs, n, f)
    BY FlatExists
<1>2. Is(f)
    BY <1>1 DEF IsFlat, NextFlat
<1>3. Is(flat)
    BY <1>2
<1>4. FlattenSeq(seqs) = flat[n]
    BY DEF FlattenSeq
<1> HIDE DEF flat, n
<1>5. n \in Nat \ {0}
    BY DEF n
<1>6. flat[1] = seqs[1] /\ \A i \in 2..n : flat[i] = flat[i - 1] \o seqs[i]
    <2>1. 1 \in 1..n /\ \A i \in 2..n : i \in 1..n /\ i # 1
        BY <1>5
    <2>2. QED  BY <1>3, <2>1
<1> HIDE DEF Is
<1>7. QED  BY <1>4, <1>6 DEF n

\* Nothing that is put into one sequence is lost.
LEMMA FlatHasAll ==
    ASSUME NEW seqs, Len(seqs) \in Nat \ {0}, NEW S, \A i \in 1..Len(seqs) : seqs[i] \in Seq(S)
    PROVE  /\ FlattenSeq(seqs) \in Seq(S)
           /\ \A i \in 1..Len(seqs) : \A j \in 1..Len(seqs[i]) :
                  \E k \in 1..Len(FlattenSeq(seqs)) : FlattenSeq(seqs)[k] = seqs[i][j]
<1> DEFINE n == Len(seqs)
<1>1. PICK f : /\ f[1] = seqs[1]
               /\ \A i \in 2..n : f[i] = f[i - 1] \o seqs[i]
               /\ FlattenSeq(seqs) = f[n]
    BY FlatUnfolds
<1> DEFINE Has(m) == /\ f[m] \in Seq(S)
                     /\ \A i \in 1..m : \A j \in 1..Len(seqs[i]) :
                            \E k \in 1..Len(f[m]) : f[m][k] = seqs[i][j]
           bad == {m \in 1..n : ~Has(m)}
<1>2. n \in Nat \ {0} /\ \A i \in 1..n : seqs[i] \in Seq(S)
    OBVIOUS
<1> HIDE DEF n
<1>3. bad = {}
    <2> SUFFICES ASSUME bad # {} PROVE FALSE
        OBVIOUS
    <2>1. PICK m \in bad : \A j \in bad : m <= j
        <3>1. bad \in SUBSET Nat
            BY <1>2
        <3> HIDE DEF bad
        <3>2. QED  BY <3>1, LeastOf
    <2>2. Has(1)
        <3>1. \A i \in 1..1 : i = 1
            OBVIOUS
        <3>2. 1 \in 1..n
            BY <1>2
        <3>3. QED  BY <1>1, <1>2, <3>1, <3>2
    <2>3. m \in 1..n /\ ~Has(m)
        BY <2>1
    <2>4. m \in 2..n /\ m - 1 \in 1..n /\ m - 1 \notin bad
        <3>1. m # 1
            <4> HIDE DEF Has
            <4>1. QED  BY <2>2, <2>3
        <3>2. m \in 2..n /\ m - 1 \in 1..n /\ ~(m <= m - 1)
            BY <1>2, <2>3, <3>1
        <3> HIDE DEF bad
        <3>3. QED  BY <2>1, <3>2
    <2>12. /\ f[m - 1] \in Seq(S)
           /\ \A i \in 1..(m - 1) : \A j \in 1..Len(seqs[i]) :
                  \E k \in 1..Len(f[m - 1]) : f[m - 1][k] = seqs[i][j]
        BY <2>4
    <2> HIDE DEF bad, Has
    <2> DEFINE it == f[m - 1]
               more == seqs[m]
               both == it \o more
    <2>5. it \in Seq(S) /\ more \in Seq(S) /\ f[m] = both
        BY <1>1, <1>2, <2>3, <2>4, <2>12
    <2>6. /\ both \in Seq(S) /\ Len(both) = Len(it) + Len(more)
          /\ \A k \in 1..Len(it) : both[k] = it[k]
          /\ \A k \in 1..Len(more) : both[Len(it) + k] = more[k]
          /\ Len(it) \in Nat /\ Len(more) \in Nat
        <3> HIDE DEF it, more
        <3>1. QED  BY <2>5
    <2>7. \A i \in 1..(m - 1) : \A j \in 1..Len(seqs[i]) :
              \E k \in 1..Len(both) : both[k] = seqs[i][j]
        <3> SUFFICES ASSUME NEW i \in 1..(m - 1), NEW j \in 1..Len(seqs[i])
                     PROVE  \E k \in 1..Len(both) : both[k] = seqs[i][j]
            OBVIOUS
        <3>1. PICK k \in 1..Len(it) : it[k] = seqs[i][j]
            BY <2>12
        <3> HIDE DEF it, both
        <3>2. k \in 1..Len(both) /\ both[k] = seqs[i][j]
            BY <2>6, <3>1
        <3>3. QED  BY <3>2
    <2>8. \A j \in 1..Len(more) : \E k \in 1..Len(both) : both[k] = more[j]
        <3> SUFFICES ASSUME NEW j \in 1..Len(more)
                     PROVE  \E k \in 1..Len(both) : both[k] = more[j]
            OBVIOUS
        <3> HIDE DEF it, both, more
        <3>1. Len(it) + j \in 1..Len(both) /\ both[Len(it) + j] = more[j]
            BY <2>6
        <3>2. QED  BY <3>1
    <2>9. \A i \in 1..m : i \in 1..(m - 1) \/ i = m
        BY <2>4
    <2> HIDE DEF it, both
    <2>10. \A i \in 1..m : \A j \in 1..Len(seqs[i]) :
               \E k \in 1..Len(both) : both[k] = seqs[i][j]
        BY <2>7, <2>8, <2>9
    <2>11. Has(m)
        BY <2>5, <2>6, <2>10 DEF Has
    <2>13. QED  BY <2>3, <2>11
<1>4. Has(n)
    <2> HIDE DEF Has
    <2>1. QED  BY <1>2, <1>3
<1>5. QED  BY <1>1, <1>4 DEF n

\* The inputs of the steps, in one sequence.
FieldOf(steps, s, k) ==
    LET field == steps[s].inputs[k] IN
    [step |-> s, of |-> steps[s].id, in |-> field.in, wire |-> field.name,
     required |-> field.required,
     bare |-> [of |-> None, name |-> IF field.in = "body" THEN "body" ELSE field.name]]

AreSteps(steps) ==
    /\ Len(steps) \in Nat \ {0} /\ DOMAIN steps = 1..Len(steps)
    /\ \A s \in DOMAIN steps : /\ Len(steps[s].inputs) \in Nat
                               /\ DOMAIN steps[s].inputs = 1..Len(steps[s].inputs)

\* A function on the first numbers is a sequence of what it has.
LEMMA SequenceIs ==
    ASSUME NEW n \in Nat, NEW it, it = [i \in 1..n |-> it[i]], NEW S,
           \A i \in 1..n : it[i] \in S
    PROVE  it \in Seq(S) /\ Len(it) = n
<1>1. it \in [1..n -> S]
    OBVIOUS
<1>2. QED  BY <1>1

\* No input is left out.
LEMMA FieldsAre ==
    ASSUME NEW steps, AreSteps(steps)
    PROVE  /\ Len(Fields(steps)) \in Nat /\ DOMAIN Fields(steps) = 1..Len(Fields(steps))
           /\ \A s \in DOMAIN steps : \A k \in DOMAIN steps[s].inputs :
                  \E j \in DOMAIN Fields(steps) : Fields(steps)[j] = FieldOf(steps, s, k)
<1> DEFINE Of(s) == [k \in DOMAIN steps[s].inputs |-> FieldOf(steps, s, k)]
           seqs == [s \in DOMAIN steps |-> Of(s)]
           S == UNION {{FieldOf(steps, s, k) : k \in DOMAIN steps[s].inputs} : s \in DOMAIN steps}
           n == Len(steps)
<1>1. Fields(steps) = FlattenSeq(seqs)
    BY DEF Fields, FieldOf
<1>2. n \in Nat \ {0} /\ DOMAIN steps = 1..n
    BY DEF AreSteps
<1>3. ASSUME NEW s \in 1..n
      PROVE  /\ seqs[s] \in Seq(S) /\ Len(seqs[s]) = Len(steps[s].inputs)
             /\ \A k \in DOMAIN steps[s].inputs : seqs[s][k] = FieldOf(steps, s, k)
    <2> DEFINE m == Len(steps[s].inputs)
    <2>1. m \in Nat /\ DOMAIN steps[s].inputs = 1..m
        BY <1>2 DEF AreSteps
    <2>2. \A k \in 1..m : FieldOf(steps, s, k) \in S
        BY <1>2, <2>1
    <2>3. seqs[s] = Of(s)
        BY <1>2
    <2> HIDE DEF S, m
    <2>4. Of(s) = [k \in 1..m |-> FieldOf(steps, s, k)]
        BY <2>1
    <2> HIDE DEF seqs, Of
    <2> DEFINE it == seqs[s]
    <2>5. it = [k \in 1..m |-> it[k]] /\ \A k \in 1..m : it[k] = FieldOf(steps, s, k)
        BY <2>3, <2>4
    <2>6. \A k \in 1..m : it[k] \in S
        BY <2>2, <2>5
    <2> HIDE DEF it
    <2>7. it \in Seq(S) /\ Len(it) = m
        BY <2>1, <2>5, <2>6, SequenceIs
    <2>8. QED  BY <2>1, <2>5, <2>7 DEF it, m
<1>4. seqs \in Seq(Seq(S)) /\ Len(seqs) = n
    <2>1. seqs = [s \in 1..n |-> seqs[s]]
        BY <1>2
    <2> HIDE DEF seqs, S, n
    <2>2. QED  BY <1>2, <1>3, <2>1, SequenceIs
<1> HIDE DEF seqs, S, n, Of
<1>5. /\ FlattenSeq(seqs) \in Seq(S)
      /\ \A s \in 1..n : \A k \in 1..Len(seqs[s]) :
             \E j \in 1..Len(FlattenSeq(seqs)) : FlattenSeq(seqs)[j] = seqs[s][k]
    <2>1. Len(seqs) \in Nat \ {0} /\ \A s \in 1..Len(seqs) : seqs[s] \in Seq(S)
        BY <1>2, <1>3, <1>4
    <2>2. /\ FlattenSeq(seqs) \in Seq(S)
          /\ \A s \in 1..Len(seqs) : \A k \in 1..Len(seqs[s]) :
                 \E j \in 1..Len(FlattenSeq(seqs)) : FlattenSeq(seqs)[j] = seqs[s][k]
        BY <2>1, FlatHasAll
    <2>3. QED  BY <1>4, <2>2
<1> DEFINE fields == Fields(steps)
<1>6. Len(fields) \in Nat /\ DOMAIN fields = 1..Len(fields)
    BY <1>1, <1>5
<1>7. ASSUME NEW s \in DOMAIN steps, NEW k \in DOMAIN steps[s].inputs
      PROVE  \E j \in DOMAIN fields : fields[j] = FieldOf(steps, s, k)
    <2>1. s \in 1..n /\ k \in 1..Len(seqs[s])
        BY <1>2, <1>3 DEF AreSteps
    <2>2. PICK j \in 1..Len(FlattenSeq(seqs)) : FlattenSeq(seqs)[j] = seqs[s][k]
        BY <1>5, <2>1
    <2>3. seqs[s][k] = FieldOf(steps, s, k)
        BY <1>3, <2>1
    <2>4. QED  BY <1>1, <1>6, <2>2, <2>3
<1>8. QED  BY <1>6, <1>7

\* A required input has its binding, and is asked for unless something of its name is
\* supplied.
LEMMA ComposedIs ==
    ASSUME NEW steps, AreSteps(steps), NEW omit, NEW supplied,
           NEW s \in DOMAIN steps, NEW field \in ToSet(steps[s].inputs), field.required
    PROVE  LET schema == ComposeInputSchema(steps, omit, supplied) IN
           \E b \in schema.bindings :
               /\ b.step = s /\ b.wire = field.name /\ b.in = field.in
               /\ \/ b.argument \in schema.required
                  \/ /\ b.argument.of = None /\ b.argument.name \in supplied
                     /\ b.argument.name = IF field.in = "body" THEN "body" ELSE field.name
<1> DEFINE fields == Fields(steps)
           argument == Arguments(fields)
           single == Len(steps) = 1
<1>1. ComposeInputSchema(steps, omit, supplied)
          = Compose(fields, argument, single, omit, supplied)
    BY DEF ComposeInputSchema
<1>2. PICK k \in DOMAIN steps[s].inputs : steps[s].inputs[k] = field
    BY DEF ToSet
<1>3. PICK j \in DOMAIN fields : fields[j] = FieldOf(steps, s, k)
    BY FieldsAre
<1>4. PICK before : argument[j] = NextArgument(fields, j, before)
    <2>1. Len(fields) \in Nat /\ j \in 1..Len(fields)
        BY FieldsAre
    <2> HIDE DEF fields
    <2>2. QED  BY <2>1, ArgumentsAre
<1>5. /\ fields[j].step = s /\ fields[j].wire = field.name /\ fields[j].in = field.in
      /\ fields[j].required
    BY <1>2, <1>3 DEF FieldOf
<1>6. argument[j].name = IF field.in = "body" THEN "body" ELSE field.name
    BY <1>2, <1>3, <1>4 DEF NextArgument, FieldOf
<1> DEFINE b == [at |-> j, argument |-> argument[j], step |-> fields[j].step,
                 in |-> fields[j].in, wire |-> fields[j].wire]
<1> HIDE DEF fields, argument, single
<1>7. b \in Compose(fields, argument, single, omit, supplied).bindings
    BY <1>5 DEF Compose
<1>8. CASE argument[j].of # None \/ argument[j].name \notin supplied
    <2>1. argument[j] \in Compose(fields, argument, single, omit, supplied).required
        BY <1>5, <1>8 DEF Compose
    <2>2. QED  BY <1>1, <1>5, <1>7, <2>1
<1>9. CASE argument[j].of = None /\ argument[j].name \in supplied
    BY <1>1, <1>5, <1>6, <1>7, <1>9
<1>10. QED  BY <1>8, <1>9
-----------------------------------------------------------------------------
(* What is supplied to a step *)

\* A value that can be handed from one step to another: the argument it is for, where it is
\* taken and where it comes from.
ThreadOf(steps, p) ==
    [argument |-> ThreadBinding(steps[p[2]], steps[p[1]]), step |-> p[1], from |-> p[2]]

LEMMA ThreadsAre ==
    ASSUME NEW steps, AreSteps(steps), NEW t \in Threads(steps)
    PROVE  /\ t.step \in DOMAIN steps /\ t.from \in DOMAIN steps /\ t.from < t.step
           /\ t.step \in Nat /\ t.from \in Nat
           /\ t.argument = ThreadBinding(steps[t.from], steps[t.step])
<1>1. PICK p \in (DOMAIN steps) \X (DOMAIN steps) : p[2] < p[1] /\ t = ThreadOf(steps, p)
    BY DEF Threads, ThreadOf
<1>2. /\ t.step = p[1] /\ t.from = p[2]
      /\ t.argument = ThreadBinding(steps[p[2]], steps[p[1]])
    BY <1>1 DEF ThreadOf
<1>3. p[1] \in DOMAIN steps /\ p[2] \in DOMAIN steps
    BY <1>1
<1>4. \A i \in DOMAIN steps : i \in Nat
    BY DEF AreSteps
<1>5. QED  BY <1>1, <1>2, <1>3, <1>4

\* Every argument a composite does not ask for is supplied to a step by one before it, and
\* to the first step that takes an argument of that name from another.
THEOREM ThreadsForward ==
    ASSUME NEW steps, AreSteps(steps), NEW argument \in DOMAIN CompositeThreading(steps)
    PROVE  LET t == CompositeThreading(steps)[argument]
           IN /\ t.argument = argument
              /\ t.from \in DOMAIN steps /\ t.step \in DOMAIN steps /\ t.from < t.step
              /\ \A u \in Threads(steps) : u.argument = argument => t.step <= u.step
<1> DEFINE these == {t \in Threads(steps) : t.argument = argument}
           Fits(t) == /\ t.argument = argument
                      /\ \A u \in Threads(steps) :
                             u.argument = argument => \/ t.step < u.step
                                                      \/ t.step = u.step /\ t.from <= u.from
           chosen == CHOOSE t \in Threads(steps) : Fits(t)
<1>1. CompositeThreading(steps)[argument] = chosen /\ these # {}
    BY DEF CompositeThreading, Foremost
<1>2. \A t \in these : t.step \in Nat /\ t.from \in Nat
    BY ThreadsAre
<1>3. PICK first \in {t.step : t \in these} : \A k \in {t.step : t \in these} : first <= k
    <2>1. {t.step : t \in these} \in SUBSET Nat /\ {t.step : t \in these} # {}
        BY <1>1, <1>2
    <2> HIDE DEF these
    <2>2. QED  BY <2>1, LeastOf
<1> DEFINE froms == {t.from : t \in {u \in these : u.step = first}}
<1>4. PICK nearest \in froms : \A k \in froms : nearest <= k
    <2>1. froms \in SUBSET Nat /\ froms # {}
        BY <1>2, <1>3
    <2> HIDE DEF froms
    <2>2. QED  BY <2>1, LeastOf
<1>5. PICK t \in these : t.step = first /\ t.from = nearest
    BY <1>4
<1>6. Fits(t)
    <2> SUFFICES ASSUME NEW u \in these
                 PROVE  t.step < u.step \/ (t.step = u.step /\ t.from <= u.from)
        OBVIOUS
    <2>1. t.step <= u.step
        BY <1>3, <1>5
    <2>2. t.step = u.step => t.from <= u.from
        BY <1>4, <1>5
    <2>3. QED  BY <1>2, <2>1, <2>2
<1>7. chosen \in Threads(steps) /\ Fits(chosen)
    <2> HIDE DEF Fits
    <2>1. t \in Threads(steps)
        BY <1>5
    <2>2. QED  BY <1>6, <2>1
<1>8. \A u \in Threads(steps) : u.step \in Nat
    BY ThreadsAre
<1>9. \A u \in Threads(steps) : u.argument = argument => chosen.step <= u.step
    BY <1>7, <1>8
<1>10. QED  BY <1>1, <1>7, <1>9, ThreadsAre
=============================================================================
