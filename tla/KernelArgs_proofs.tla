------------------------- MODULE KernelArgs_proofs -------------------------
(***************************************************************************)
(* Facts about command lines of any length: what the loops that pick or    *)
(* drop arguments return, where new arguments go, and which value of a     *)
(* name wins afterwards.                                                   *)
(*                                                                         *)
(* They are proved by induction on the command line.  The induction        *)
(* principle is stated with sets instead of predicates: a set that has the *)
(* empty sequence and is closed under Append has every sequence.           *)
(***************************************************************************)
EXTENDS KernelArgs, SequenceTheorems, WellFoundedInduction, TLAPS

-----------------------------------------------------------------------------
(* Induction.                                                               *)

\* A nonempty set of naturals has a least element.
LEMMA LeastNat ==
    ASSUME NEW T, T \subseteq Nat, T # {}
    PROVE  \E m \in T : \A n \in T : m <= n
<1>1. \E m \in T : \A n \in T : ~(<<n, m>> \in OpToRel(<, Nat))
  BY WFMin, NatLessThanWellFounded, Zenon
<1>2. \A m, n \in Nat : n < m => <<n, m>> \in OpToRel(<, Nat)
  BY DEF OpToRel
<1>3. \E m \in T : \A n \in T : ~(n < m)
  BY <1>1, <1>2, Zenon
<1>4. QED
  BY <1>3

\* Induction on natural numbers, for a set.
LEMMA NatSet ==
    ASSUME NEW T, 0 \in T, \A n \in Nat : n \in T => n + 1 \in T
    PROVE  Nat \subseteq T
<1> DEFINE Bad == {n \in Nat : n \notin T}
<1>1. SUFFICES ASSUME Bad # {} PROVE FALSE
  OBVIOUS
<1>2. PICK n \in Bad : \A k \in Bad : n <= k
  BY <1>1, LeastNat
<1>3. n - 1 \in Nat /\ n - 1 \notin Bad
  BY <1>2
<1>4. QED
  BY <1>3, <1>2

StepByStep(f, S, start, step, n) ==
    f \in [0..n -> S] /\ f[0] = start /\ \A i \in 1..n : f[i] = step[i][f[i - 1]]

\* A function that is defined step by step from its value at 0 exists.
LEMMA RecursionExists ==
    ASSUME NEW S, NEW start \in S, NEW n \in Nat, NEW step, \A i \in 1..n, x \in S : step[i][x] \in S
    PROVE  \E f : StepByStep(f, S, start, step, n)
<1> DEFINE Solves(f, m) == StepByStep(f, S, start, step, m)
           T == {m \in Nat : m <= n => \E f : Solves(f, m)}
<1>1. 0 \in T
  <2>1. Solves([i \in 0..0 |-> start], 0)
    BY DEF StepByStep
  <2>2. QED
    BY <2>1
<1>2. ASSUME NEW m \in Nat, m \in T PROVE m + 1 \in T
  <2>1. SUFFICES ASSUME m + 1 <= n PROVE \E f : Solves(f, m + 1)
    OBVIOUS
  <2>2. PICK f : Solves(f, m)
    BY <1>2, <2>1
  <2> DEFINE last == step[m + 1][f[m]]
             g == [i \in 0..(m + 1) |-> IF i = m + 1 THEN last ELSE f[i]]
  <2>3. last \in S
    <3>1. f[m] \in S /\ m + 1 \in 1..n
      BY <2>1, <2>2 DEF StepByStep
    <3>2. QED
      BY <3>1
  <2>4. g \in [0..(m + 1) -> S] /\ g[0] = start
    BY <2>2, <2>3 DEF StepByStep
  <2>5. ASSUME NEW i \in 1..(m + 1) PROVE g[i] = step[i][g[i - 1]]
    <3>1. CASE i = m + 1
      <4>1. g[i] = last /\ g[i - 1] = f[m]
        BY <3>1
      <4>2. QED
        BY <3>1, <4>1
    <3>2. CASE i # m + 1
      <4>1. i \in 1..m
        BY <3>2
      <4>2. g[i] = f[i] /\ g[i - 1] = f[i - 1]
        BY <4>1
      <4>3. QED
        BY <2>2, <4>1, <4>2 DEF StepByStep
    <3>3. QED
      BY <3>1, <3>2
  <2> HIDE DEF g
  <2>6. QED
    BY <2>4, <2>5 DEF StepByStep
<1>3. Nat \subseteq T
  <2> HIDE DEF T
  <2>1. QED
    BY <1>1, <1>2, NatSet
<1>4. QED
  BY <1>3

\* Only equal intervals are equal sets.
LEMMA SameLength ==
    ASSUME NEW m \in Nat, NEW n \in Nat, 1..m = 1..n
    PROVE  m = n
<1>1. ~(m < n)
  <2>1. m < n => n \in 1..n /\ n \notin 1..m
    OBVIOUS
  <2>2. QED
    BY <2>1
<1>2. ~(n < m)
  <2>1. n < m => m \in 1..m /\ m \notin 1..n
    OBVIOUS
  <2>2. QED
    BY <2>1
<1>3. QED
  BY <1>1, <1>2

\* Induction on sequences, for a set.
LEMMA SeqSet ==
    ASSUME NEW S, NEW T, <<>> \in T, \A s \in Seq(S), a \in S : s \in T => Append(s, a) \in T
    PROVE  Seq(S) \subseteq T
<1> DEFINE Lengths == {n \in Nat : \A s \in Seq(S) : Len(s) = n => s \in T}
<1>1. 0 \in Lengths
  BY EmptySeq
<1>2. ASSUME NEW n \in Nat, n \in Lengths PROVE n + 1 \in Lengths
  <2>1. SUFFICES ASSUME NEW s \in Seq(S), Len(s) = n + 1 PROVE s \in T
    OBVIOUS
  <2>2. PICK t \in Seq(S), a \in S : s = Append(t, a)
    BY <2>1, SequenceEmptyOrAppend, EmptySeq
  <2>3. Len(t) = n
    BY <2>1, <2>2, AppendProperties
  <2>4. QED
    BY <2>2, <2>3, <1>2
<1>3. Nat \subseteq Lengths
  <2> HIDE DEF Lengths
  <2>1. QED
    BY <1>1, <1>2, NatSet
<1>4. QED
  BY <1>3, LenProperties

-----------------------------------------------------------------------------
(* The loop of findMatchingCommandLineArgs.                                 *)

\* The function findMatchingCommandLineArgs is defined by, for a prefix of the line.
Taken(line, names, f, n) ==
    f = [i \in 0..n |->
            IF i = 0 THEN <<>>
            ELSE IF line[i].name \in names THEN Append(f[i - 1], line[i]) ELSE f[i - 1]]

\* The recursion has a solution.
LEMMA TakenExists ==
    ASSUME NEW line, NEW names
    PROVE  \A n \in Nat : \E f : Taken(line, names, f, n)
<1> DEFINE T == {n \in Nat : \E f : Taken(line, names, f, n)}
<1>1. 0 \in T
  <2>1. Taken(line, names, [i \in 0..0 |-> <<>>], 0)
    BY DEF Taken
  <2>2. QED
    BY <2>1
<1>2. ASSUME NEW n \in Nat, n \in T PROVE n + 1 \in T
  <2>1. PICK f : Taken(line, names, f, n)
    BY <1>2
  <2> DEFINE last == IF line[n + 1].name \in names THEN Append(f[n], line[n + 1]) ELSE f[n]
             g == [i \in 0..(n + 1) |-> IF i = n + 1 THEN last ELSE f[i]]
  <2>2. ASSUME NEW i \in 0..(n + 1)
        PROVE  g[i] = IF i = 0 THEN <<>>
                      ELSE IF line[i].name \in names THEN Append(g[i - 1], line[i]) ELSE g[i - 1]
    <3>1. CASE i = n + 1
      <4>1. g[i] = last /\ g[i - 1] = f[n] /\ i # 0
        BY <3>1
      <4>2. QED
        BY <3>1, <4>1
    <3>2. CASE i # n + 1
      <4>1. i \in 0..n
        BY <3>2
      <4>2. g[i] = f[i] /\ (i # 0 => g[i - 1] = f[i - 1])
        BY <3>2
      <4>3. f[i] = IF i = 0 THEN <<>>
                   ELSE IF line[i].name \in names THEN Append(f[i - 1], line[i]) ELSE f[i - 1]
        BY <2>1, <4>1 DEF Taken
      <4>4. QED
        BY <4>2, <4>3
    <3>3. QED
      BY <3>1, <3>2
  <2>3. Taken(line, names, g, n + 1)
    <3> DEFINE h == [i \in 0..(n + 1) |-> IF i = 0 THEN <<>>
                      ELSE IF line[i].name \in names THEN Append(g[i - 1], line[i]) ELSE g[i - 1]]
    <3>1. DOMAIN g = 0..(n + 1) /\ g = [i \in 0..(n + 1) |-> g[i]]
      OBVIOUS
    <3>2. g = h
      <4> HIDE DEF g
      <4>1. QED
        BY <3>1, <2>2, Zenon
    <3> HIDE DEF g
    <3>3. QED
      BY <3>2, Zenon DEF Taken
  <2> HIDE DEF g
  <2>4. QED
    BY <2>3
<1>3. Nat \subseteq T
  <2> HIDE DEF T
  <2>1. QED
    BY <1>1, <1>2, NatSet
<1>4. QED
  BY <1>3

\* Two solutions agree where both are defined.
LEMMA TakenUnique ==
    ASSUME NEW line, NEW names, NEW m \in Nat, NEW n \in Nat, m <= n,
           NEW s, \A i \in 1..m : s[i] = line[i],
           NEW f, Taken(s, names, f, m), NEW g, Taken(line, names, g, n)
    PROVE  f[m] = g[m]
<1> DEFINE T == {i \in Nat : i <= m => f[i] = g[i]}
<1>1. 0 \in T
  BY DEF Taken
<1>2. ASSUME NEW i \in Nat, i \in T PROVE i + 1 \in T
  <2>1. SUFFICES ASSUME i + 1 <= m PROVE f[i + 1] = g[i + 1]
    OBVIOUS
  <2>2. f[i] = g[i] /\ s[i + 1] = line[i + 1] /\ i + 1 \in 0..m /\ i + 1 \in 0..n /\ i + 1 # 0 /\ (i + 1) - 1 = i
    BY <1>2, <2>1
  <2>3. /\ f[i + 1] = IF s[i + 1].name \in names THEN Append(f[i], s[i + 1]) ELSE f[i]
        /\ g[i + 1] = IF line[i + 1].name \in names THEN Append(g[i], line[i + 1]) ELSE g[i]
    BY <2>2 DEF Taken
  <2>4. QED
    BY <2>2, <2>3
<1>3. Nat \subseteq T
  <2> HIDE DEF T
  <2>1. QED
    BY <1>1, <1>2, NatSet
<1>4. QED
  BY <1>3

\* findMatchingCommandLineArgs of a line is the last value of a solution.
LEMMA MatchingTaken ==
    ASSUME NEW line, NEW names, Len(line) \in Nat
    PROVE  \E f : Taken(line, names, f, Len(line)) /\ findMatchingCommandLineArgs(line, names) = f[Len(line)]
<1>1. \E f : Taken(line, names, f, Len(line))
  BY TakenExists
<1>2. QED
  BY <1>1, Zenon DEF findMatchingCommandLineArgs, Taken

\* Nothing is taken of an empty line.
LEMMA MatchingEmpty ==
    ASSUME NEW names
    PROVE  findMatchingCommandLineArgs(<<>>, names) = <<>>
<1>1. PICK f : Taken(<<>>, names, f, 0) /\ findMatchingCommandLineArgs(<<>>, names) = f[0]
  BY MatchingTaken, SMTT(30)
<1>2. f[0] = <<>>
  BY <1>1 DEF Taken
<1>3. QED
  BY <1>1, <1>2

\* One more argument is taken or left.
LEMMA MatchingAppend ==
    ASSUME NEW S, NEW line \in Seq(S), NEW a \in S, NEW names
    PROVE  findMatchingCommandLineArgs(Append(line, a), names) =
               IF a.name \in names THEN Append(findMatchingCommandLineArgs(line, names), a)
               ELSE findMatchingCommandLineArgs(line, names)
<1> DEFINE longer == Append(line, a)
           n == Len(line)
<1>1. n \in Nat /\ Len(longer) = n + 1 /\ longer[n + 1] = a /\ \A i \in 1..n : line[i] = longer[i]
  BY AppendProperties, LenProperties
<1> HIDE DEF longer, n
<1>2. PICK f : Taken(line, names, f, n) /\ findMatchingCommandLineArgs(line, names) = f[n]
  BY <1>1, MatchingTaken DEF n
<1>3. PICK g : Taken(longer, names, g, n + 1) /\ findMatchingCommandLineArgs(longer, names) = g[n + 1]
  <2>1. Len(longer) \in Nat
    BY <1>1
  <2>2. PICK g : Taken(longer, names, g, Len(longer)) /\ findMatchingCommandLineArgs(longer, names) = g[Len(longer)]
    BY <2>1, MatchingTaken
  <2>3. QED
    BY <2>2, <1>1
<1>4. f[n] = g[n]
  BY <1>1, <1>2, <1>3, TakenUnique
<1>5. g[n + 1] = IF longer[n + 1].name \in names THEN Append(g[n], longer[n + 1]) ELSE g[n]
  <2>1. n + 1 \in 0..(n + 1) /\ n + 1 # 0 /\ (n + 1) - 1 = n
    BY <1>1
  <2>2. QED
    BY <1>3, <2>1 DEF Taken
<1>6. findMatchingCommandLineArgs(longer, names) =
          IF a.name \in names THEN Append(findMatchingCommandLineArgs(line, names), a)
          ELSE findMatchingCommandLineArgs(line, names)
  BY <1>1, <1>2, <1>3, <1>4, <1>5
<1>7. QED
  BY <1>6 DEF longer

\* The arguments found are arguments of the line, and have one of the names.
LEMMA MatchingType ==
    ASSUME NEW S, NEW line \in Seq(S), NEW names
    PROVE  findMatchingCommandLineArgs(line, names) \in Seq({a \in S : a.name \in names})
<1> DEFINE Named == {a \in S : a.name \in names}
           M(s) == findMatchingCommandLineArgs(s, names)
           T == {s \in Seq(S) : M(s) \in Seq(Named)}
<1>1. <<>> \in T
  BY MatchingEmpty, EmptySeq
<1>2. ASSUME NEW s \in Seq(S), NEW a \in S, s \in T PROVE Append(s, a) \in T
  <2>1. Append(s, a) \in Seq(S)
    BY AppendProperties
  <2>2. M(Append(s, a)) = IF a.name \in names THEN Append(M(s), a) ELSE M(s)
    BY MatchingAppend
  <2>3. M(s) \in Seq(Named)
    BY <1>2
  <2>4. CASE a.name \in names
    <3>1. a \in Named
      BY <2>4
    <3> HIDE DEF Named, M
    <3>2. Append(M(s), a) \in Seq(Named)
      BY <2>3, <3>1, AppendProperties
    <3>3. QED
      BY <2>1, <2>2, <2>4, <3>2
  <2>5. CASE a.name \notin names
    BY <2>1, <2>2, <2>3, <2>5
  <2>6. QED
    BY <2>4, <2>5
<1>3. Seq(S) \subseteq T
  <2> HIDE DEF T
  <2>1. QED
    BY <1>1, <1>2, SeqSet
<1>4. QED
  BY <1>3

\* What findMatchingCommandLineArgs returns: arguments of the line, all of the given names.
LEMMA MatchingSeq ==
    ASSUME NEW S, NEW line \in Seq(S), NEW names
    PROVE  /\ findMatchingCommandLineArgs(line, names) \in Seq(S)
           /\ \A i \in 1..Len(findMatchingCommandLineArgs(line, names)) :
                 findMatchingCommandLineArgs(line, names)[i].name \in names
<1> DEFINE Named == {a \in S : a.name \in names}
           s == findMatchingCommandLineArgs(line, names)
<1>1. s \in Seq(Named)
  BY MatchingType
<1>2. Named \subseteq S /\ \A a \in Named : a.name \in names
  OBVIOUS
<1> HIDE DEF Named, s
<1>3. s \in Seq(S)
  BY <1>1, <1>2, SeqMonotonic
<1>4. \A i \in 1..Len(s) : s[i] \in Named
  BY <1>1, ElementOfSeq
<1>5. QED
  BY <1>2, <1>3, <1>4 DEF s

\* Searching two lines one after the other is searching each.
LEMMA MatchingConcat ==
    ASSUME NEW S, NEW s \in Seq(S), NEW t \in Seq(S), NEW names
    PROVE  findMatchingCommandLineArgs(s \o t, names) =
               findMatchingCommandLineArgs(s, names) \o findMatchingCommandLineArgs(t, names)
<1> DEFINE M(x) == findMatchingCommandLineArgs(x, names)
           T == {x \in Seq(S) : M(s \o x) = M(s) \o M(x)}
<1>0. \A x \in Seq(S) : M(x) \in Seq(S)
  BY MatchingSeq
<1>1. <<>> \in T
  <2>1. s \o <<>> = s /\ M(<<>>) = <<>>
    BY MatchingEmpty, ConcatEmptySeq
  <2>2. M(s) \o <<>> = M(s)
    BY <1>0, ConcatEmptySeq
  <2>3. QED
    BY <2>1, <2>2, EmptySeq
<1>2. ASSUME NEW x \in Seq(S), NEW a \in S, x \in T PROVE Append(x, a) \in T
  <2>1. s \o x \in Seq(S) /\ Append(x, a) \in Seq(S) /\ Append(s \o x, a) \in Seq(S)
    BY ConcatProperties, AppendProperties
  <2>2. s \o Append(x, a) = Append(s \o x, a)
    BY <2>1
  <2>3. /\ M(Append(x, a)) = IF a.name \in names THEN Append(M(x), a) ELSE M(x)
        /\ M(Append(s \o x, a)) = IF a.name \in names THEN Append(M(s \o x), a) ELSE M(s \o x)
    <3> DEFINE line == s \o x
    <3>1. M(Append(x, a)) = IF a.name \in names THEN Append(M(x), a) ELSE M(x)
      BY MatchingAppend
    <3>2. line \in Seq(S)
      BY <2>1
    <3> HIDE DEF line
    <3>3. M(Append(line, a)) = IF a.name \in names THEN Append(M(line), a) ELSE M(line)
      BY <3>2, MatchingAppend
    <3>4. QED
      BY <3>1, <3>3, Zenon DEF line
  <2>4. M(s) \o Append(M(x), a) = Append(M(s) \o M(x), a)
    BY <1>0
  <2>5. M(s \o x) = M(s) \o M(x)
    BY <1>2
  <2> HIDE DEF M
  <2>6. QED
    BY <2>1, <2>2, <2>3, <2>4, <2>5
<1>3. Seq(S) \subseteq T
  <2> HIDE DEF T
  <2>1. QED
    BY <1>1, <1>2, SeqSet
<1>4. QED
  BY <1>3

\* Searching what was found for other names finds what has both.
LEMMA MatchingTwice ==
    ASSUME NEW S, NEW line \in Seq(S), NEW names, NEW others
    PROVE  findMatchingCommandLineArgs(findMatchingCommandLineArgs(line, others), names) =
               findMatchingCommandLineArgs(line, names \intersect others)
<1> DEFINE W(x) == findMatchingCommandLineArgs(x, others)
           M(x) == findMatchingCommandLineArgs(x, names)
           B(x) == findMatchingCommandLineArgs(x, names \intersect others)
           T == {x \in Seq(S) : M(W(x)) = B(x)}
<1>1. <<>> \in T
  BY MatchingEmpty, EmptySeq
<1>2. ASSUME NEW x \in Seq(S), NEW a \in S, x \in T PROVE Append(x, a) \in T
  <2>1. W(x) \in Seq(S) /\ Append(x, a) \in Seq(S)
    BY MatchingSeq, AppendProperties
  <2>2. B(Append(x, a)) = IF a.name \in names \intersect others THEN Append(B(x), a) ELSE B(x)
    BY MatchingAppend
  <2>3. W(Append(x, a)) = IF a.name \in others THEN Append(W(x), a) ELSE W(x)
    BY MatchingAppend
  <2>4. M(Append(W(x), a)) = IF a.name \in names THEN Append(M(W(x)), a) ELSE M(W(x))
    BY <2>1, MatchingAppend
  <2>5. M(W(x)) = B(x)
    BY <1>2
  <2> HIDE DEF M, W, B
  <2>6. QED
    BY <2>1, <2>2, <2>3, <2>4, <2>5
<1>3. Seq(S) \subseteq T
  <2> HIDE DEF T
  <2>1. QED
    BY <1>1, <1>2, SeqSet
<1>4. QED
  BY <1>3

\* Nothing is found where no argument has one of the names.
LEMMA MatchingNone ==
    ASSUME NEW S, NEW line \in Seq(S), NEW names, \A i \in 1..Len(line) : line[i].name \notin names
    PROVE  findMatchingCommandLineArgs(line, names) = <<>>
<1> DEFINE Other == {a \in S : a.name \notin names}
           T == {s \in Seq(Other) : findMatchingCommandLineArgs(s, names) = <<>>}
<1>1. line \in Seq(Other)
  <2>1. \A i \in 1..Len(line) : line[i] \in Other
    BY ElementOfSeq
  <2> HIDE DEF Other
  <2>2. QED
    BY <2>1
<1>2. <<>> \in T
  BY MatchingEmpty, EmptySeq
<1>3. ASSUME NEW s \in Seq(Other), NEW a \in Other, s \in T PROVE Append(s, a) \in T
  <2>1. findMatchingCommandLineArgs(Append(s, a), names) =
            IF a.name \in names THEN Append(findMatchingCommandLineArgs(s, names), a)
            ELSE findMatchingCommandLineArgs(s, names)
    <3> HIDE DEF Other
    <3>1. QED
      BY MatchingAppend
  <2>2. a.name \notin names
    OBVIOUS
  <2>3. Append(s, a) \in Seq(Other)
    <3> HIDE DEF Other
    <3>1. QED
      BY AppendProperties
  <2>4. QED
    BY <1>3, <2>1, <2>2, <2>3
<1>4. Seq(Other) \subseteq T
  <2> HIDE DEF T, Other
  <2>1. QED
    BY <1>2, <1>3, SeqSet
<1>5. QED
  BY <1>1, <1>4

\* Every argument of the line that has one of the names is found.
LEMMA MatchingAll ==
    ASSUME NEW S, NEW line \in Seq(S), NEW names
    PROVE  \A i \in 1..Len(line) : line[i].name \in names =>
               \E j \in 1..Len(findMatchingCommandLineArgs(line, names)) :
                   findMatchingCommandLineArgs(line, names)[j] = line[i]
<1> DEFINE M(x) == findMatchingCommandLineArgs(x, names)
           Found(x) == \A i \in 1..Len(x) : x[i].name \in names => \E j \in 1..Len(M(x)) : M(x)[j] = x[i]
           T == {x \in Seq(S) : Found(x)}
<1>1. <<>> \in T
  BY EmptySeq
<1>2. ASSUME NEW x \in Seq(S), NEW a \in S, x \in T PROVE Append(x, a) \in T
  <2>1. Append(x, a) \in Seq(S) /\ M(x) \in Seq(S)
    BY AppendProperties, MatchingSeq
  <2>2. M(Append(x, a)) = IF a.name \in names THEN Append(M(x), a) ELSE M(x)
    BY MatchingAppend
  <2>3. Found(x)
    BY <1>2
  <2> HIDE DEF M
  <2>4. /\ Len(Append(x, a)) = Len(x) + 1 /\ Append(x, a)[Len(x) + 1] = a
        /\ \A i \in 1..Len(x) : Append(x, a)[i] = x[i]
        /\ Len(Append(M(x), a)) = Len(M(x)) + 1 /\ Append(M(x), a)[Len(M(x)) + 1] = a
        /\ \A i \in 1..Len(M(x)) : Append(M(x), a)[i] = M(x)[i]
        /\ Len(x) \in Nat /\ Len(M(x)) \in Nat
    BY <2>1, AppendProperties, LenProperties
  <2>5. SUFFICES ASSUME NEW i \in 1..Len(Append(x, a)), Append(x, a)[i].name \in names
                 PROVE  \E j \in 1..Len(M(Append(x, a))) : M(Append(x, a))[j] = Append(x, a)[i]
    BY <2>1
  <2>6. CASE i = Len(x) + 1
    <3>1. M(Append(x, a)) = Append(M(x), a)
      BY <2>2, <2>4, <2>5, <2>6
    <3>2. QED
      BY <2>4, <2>6, <3>1
  <2>7. CASE i # Len(x) + 1
    <3>1. i \in 1..Len(x) /\ Append(x, a)[i] = x[i]
      BY <2>4, <2>7
    <3>2. PICK j \in 1..Len(M(x)) : M(x)[j] = x[i]
      BY <2>3, <2>5, <3>1
    <3>3. j \in 1..Len(M(Append(x, a))) /\ M(Append(x, a))[j] = M(x)[j]
      <4>1. CASE a.name \in names
        BY <2>2, <2>4, <4>1
      <4>2. CASE a.name \notin names
        BY <2>2, <4>2
      <4>3. QED
        BY <4>1, <4>2
    <3>4. QED
      BY <3>1, <3>2, <3>3
  <2>8. QED
    BY <2>6, <2>7
<1>3. Seq(S) \subseteq T
  <2> HIDE DEF T
  <2>1. QED
    BY <1>1, <1>2, SeqSet
<1>4. QED
  BY <1>3

-----------------------------------------------------------------------------
(* Dropping and inserting arguments.                                        *)

\* An argument is somewhere in a line.
HasArg(line, a) == \E i \in 1..Len(line) : line[i] = a

\* What is left of a line has none of the names that were dropped.
LEMMA WithoutSeq ==
    ASSUME NEW line \in Seq(Args), NEW names
    PROVE  /\ Without(line, names) \in Seq(Args)
           /\ \A i \in 1..Len(Without(line, names)) : Without(line, names)[i].name \notin names
BY MatchingSeq DEF Without

\* It has all arguments of the other names, in their order.
LEMMA MatchingWithout ==
    ASSUME NEW line \in Seq(Args), NEW names \in SUBSET STRING, NEW dropped, names \intersect dropped = {}
    PROVE  findMatchingCommandLineArgs(Without(line, dropped), names) = findMatchingCommandLineArgs(line, names)
<1>1. findMatchingCommandLineArgs(Without(line, dropped), names) =
          findMatchingCommandLineArgs(line, names \intersect (STRING \ dropped))
  BY MatchingTwice DEF Without
<1>2. names \intersect (STRING \ dropped) = names
  OBVIOUS
<1>3. QED
  BY <1>1, <1>2

\* No argument of a dropped name is left.
LEMMA MatchingDropped ==
    ASSUME NEW line \in Seq(Args), NEW names, NEW dropped, names \subseteq dropped
    PROVE  findMatchingCommandLineArgs(Without(line, dropped), names) = <<>>
<1>1. Without(line, dropped) \in Seq(Args)
      /\ \A i \in 1..Len(Without(line, dropped)) : Without(line, dropped)[i].name \notin names
  BY WithoutSeq
<1>2. QED
  BY <1>1, MatchingNone

\* Arguments of two lines put together are found in the one, then in the other.
LEMMA ConcatArgs ==
    ASSUME NEW s \in Seq(Args), NEW t \in Seq(Args), NEW names
    PROVE  findMatchingCommandLineArgs(s \o t, names) =
               findMatchingCommandLineArgs(s, names) \o findMatchingCommandLineArgs(t, names)
BY MatchingConcat

\* An argument whose name is not dropped stays.
LEMMA HasWithout ==
    ASSUME NEW line \in Seq(Args), NEW dropped, NEW a, a.name \notin dropped, HasArg(line, a)
    PROVE  HasArg(Without(line, dropped), a)
<1>1. PICK i \in 1..Len(line) : line[i] = a
  BY DEF HasArg
<1>2. a.name \in STRING
  <2>1. line[i] \in Args
    BY ElementOfSeq
  <2>2. QED
    BY <1>1, <2>1 DEF Args
<1>3. \E j \in 1..Len(findMatchingCommandLineArgs(line, STRING \ dropped)) :
          findMatchingCommandLineArgs(line, STRING \ dropped)[j] = line[i]
  BY <1>1, <1>2, MatchingAll
<1>4. QED
  BY <1>1, <1>3 DEF HasArg, Without

\* Two lines put together have the arguments of both.
LEMMA HasConcat ==
    ASSUME NEW s \in Seq(Args), NEW t \in Seq(Args), NEW a
    PROVE  HasArg(s \o t, a) <=> HasArg(s, a) \/ HasArg(t, a)
<1>1. /\ Len(s \o t) = Len(s) + Len(t) /\ Len(s) \in Nat /\ Len(t) \in Nat
      /\ \A i \in 1..(Len(s) + Len(t)) : (s \o t)[i] = IF i <= Len(s) THEN s[i] ELSE t[i - Len(s)]
  BY ConcatProperties, LenProperties
<1>2. ASSUME NEW i \in 1..Len(s) PROVE i \in 1..Len(s \o t) /\ (s \o t)[i] = s[i]
  BY <1>1
<1>3. ASSUME NEW i \in 1..Len(t) PROVE i + Len(s) \in 1..Len(s \o t) /\ (s \o t)[i + Len(s)] = t[i]
  <2>1. i + Len(s) \in 1..(Len(s) + Len(t)) /\ ~(i + Len(s) <= Len(s)) /\ (i + Len(s)) - Len(s) = i
    BY <1>1
  <2>2. QED
    BY <1>1, <2>1
<1>4. ASSUME NEW i \in 1..Len(s \o t), ~(i \in 1..Len(s)) PROVE i - Len(s) \in 1..Len(t) /\ (s \o t)[i] = t[i - Len(s)]
  BY <1>1, <1>4
<1>5. QED
  BY <1>2, <1>3, <1>4 DEF HasArg

\* A nonempty set of positions has a last one.
LEMMA LastOfSet ==
    ASSUME NEW n \in Nat, NEW T, T \subseteq 1..n, T # {}
    PROVE  LastOf(T) \in T /\ \A j \in T : j <= LastOf(T)
<1> DEFINE D == {n - j : j \in T}
<1>0. \A j \in T : j \in Nat /\ j <= n /\ n - j \in Nat
  OBVIOUS
<1>1. D \subseteq Nat /\ D # {}
  BY <1>0
<1>2. PICK d \in D : \A e \in D : d <= e
  BY <1>1, LeastNat
<1>3. PICK i \in T : d = n - i
  BY <1>2
<1>4. ASSUME NEW j \in T PROVE j <= i
  <2>1. n - j \in D
    OBVIOUS
  <2>2. n - i <= n - j
    BY <1>2, <1>3, <2>1
  <2>3. QED
    BY <1>0, <1>3, <2>2
<1>5. QED
  BY <1>3, <1>4 DEF LastOf

Inserted(line, extra, A, B) ==
    line = A \o B /\ appendKernelCommandLineArgs(line, extra) = (A \o extra) \o B

\* The extra arguments go between two parts of the line.
LEMMA InsertShape ==
    ASSUME NEW line \in Seq(Args), NEW extra \in Seq(Args)
    PROVE  \E A, B \in Seq(Args) : Inserted(line, extra, A, B)
<1> DEFINE at == findCommandLineInsertAt(line)
<1>1. Len(line) \in Nat /\ \A i \in 1..Len(line) : line[i] \in Args
  BY LenProperties, ElementOfSeq
<1>2. at \in 0..Len(line)
  <2> DEFINE opts == {i \in 1..Len(line) : line[i] = KernelOpts}
  <2>1. CASE opts = {}
    BY <2>1, <1>1 DEF findCommandLineInsertAt
  <2>2. CASE opts # {}
    <3>1. LastOf(opts) \in 1..Len(line)
      BY <2>2, <1>1, LastOfSet
    <3>2. QED
      BY <2>2, <3>1 DEF findCommandLineInsertAt
  <2>3. QED
    BY <2>1, <2>2
<1> HIDE DEF at
<1>3. SubSeq(line, 1, at) \in Seq(Args) /\ SubSeq(line, at + 1, Len(line)) \in Seq(Args)
  BY <1>1, <1>2, SubSeqProperties
<1>4. SubSeq(line, 1, at) \o SubSeq(line, at + 1, Len(line)) = line
  <2>0. 1 \in 1..(Len(line) + 1) /\ at \in (1 - 1)..Len(line) /\ Len(line) \in at..Len(line)
    BY <1>1, <1>2
  <2>1. SubSeq(line, 1, at) \o SubSeq(line, at + 1, Len(line)) = SubSeq(line, 1, Len(line))
    BY <2>0, ConcatAdjacentSubSeq
  <2>2. QED
    BY <2>1, SubSeqFull
<1>5. appendKernelCommandLineArgs(line, extra) =
          (SubSeq(line, 1, at) \o extra) \o SubSeq(line, at + 1, Len(line))
  BY DEF appendKernelCommandLineArgs, at
<1>6. QED
  BY <1>3, <1>4, <1>5 DEF Inserted

Updated(line, removed, new, P, A, B) ==
    /\ line = P \o B
    /\ \/ A = Without(P, removed)
       \/ A = P /\ \A i \in 1..Len(P) : P[i].name \notin removed
    /\ \A i \in 1..Len(B) : B[i].name \notin removed
    /\ updateKernelCommandLineArgsHelper(line, removed, new) = (A \o new) \o B

\* Where arguments of some names are replaced, what surrounds the new ones has none of
\* these names.
LEMMA UpdateShape ==
    ASSUME NEW line \in Seq(Args), NEW removed, NEW new \in Seq(Args)
    PROVE  \E P, A, B \in Seq(Args) : Updated(line, removed, new, P, A, B)
<1> DEFINE found == IndicesOf(line, removed)
           last == LastOf(found)
<1>1. Len(line) \in Nat /\ \A i \in 1..Len(line) : line[i] \in Args
  BY LenProperties, ElementOfSeq
<1>2. CASE found = {}
  <2>0. PICK A, B \in Seq(Args) : Inserted(line, new, A, B)
    BY InsertShape
  <2>1. line = A \o B /\ appendKernelCommandLineArgs(line, new) = (A \o new) \o B
    BY <2>0 DEF Inserted
  <2>2. \A i \in 1..Len(line) : line[i].name \notin removed
    BY <1>2 DEF IndicesOf
  <2>3. /\ Len(line) = Len(A) + Len(B) /\ Len(A) \in Nat /\ Len(B) \in Nat
        /\ \A i \in 1..(Len(A) + Len(B)) : line[i] = IF i <= Len(A) THEN A[i] ELSE B[i - Len(A)]
    BY <2>1, ConcatProperties, LenProperties
  <2>4. \A i \in 1..Len(A) : A[i].name \notin removed
    <3>1. ASSUME NEW i \in 1..Len(A) PROVE i \in 1..Len(line) /\ line[i] = A[i]
      BY <2>3
    <3>2. QED
      BY <3>1, <2>2
  <2>5. \A i \in 1..Len(B) : B[i].name \notin removed
    <3>1. ASSUME NEW i \in 1..Len(B) PROVE i + Len(A) \in 1..Len(line) /\ line[i + Len(A)] = B[i]
      <4>1. i + Len(A) \in 1..(Len(A) + Len(B)) /\ ~(i + Len(A) <= Len(A)) /\ (i + Len(A)) - Len(A) = i
        BY <2>3
      <4>2. QED
        BY <2>3, <4>1
    <3>2. QED
      BY <3>1, <2>2
  <2>6. updateKernelCommandLineArgsHelper(line, removed, new) = appendKernelCommandLineArgs(line, new)
    BY <1>2 DEF updateKernelCommandLineArgsHelper
  <2>7. QED
    BY <2>1, <2>4, <2>5, <2>6 DEF Updated
<1>3. CASE found # {}
  <2>1. last \in found /\ (\A j \in found : j <= last) /\ last \in 1..Len(line)
    BY <1>3, <1>1, LastOfSet DEF IndicesOf
  <2> DEFINE P == SubSeq(line, 1, last)
             B == SubSeq(line, last + 1, Len(line))
             A == Without(P, removed)
  <2>2. updateKernelCommandLineArgsHelper(line, removed, new) = (A \o new) \o B
    BY <1>3 DEF updateKernelCommandLineArgsHelper
  <2> HIDE DEF last, found
  <2>3. P \in Seq(Args) /\ B \in Seq(Args)
    BY <1>1, <2>1, SubSeqProperties
  <2>4. line = P \o B
    <3>1. P \o B = SubSeq(line, 1, Len(line))
      BY <1>1, <2>1, ConcatAdjacentSubSeq
    <3>2. QED
      BY <3>1, SubSeqFull
  <2>5. \A i \in 1..Len(B) : B[i].name \notin removed
    <3>1. SUFFICES ASSUME NEW i \in 1..Len(B) PROVE B[i].name \notin removed
      OBVIOUS
    <3>2. Len(B) = IF last + 1 <= Len(line) THEN Len(line) - (last + 1) + 1 ELSE 0
      BY <1>1, <2>1, SubSeqProperties
    <3>3. i \in 1..(Len(line) - (last + 1) + 1)
      BY <1>1, <2>1, <3>2
    <3>4. B[i] = line[(last + 1) + i - 1]
      BY <1>1, <2>1, <3>3, SubSeqProperties
    <3> DEFINE p == (last + 1) + i - 1
    <3>5. p \in 1..Len(line) /\ ~(p <= last)
      BY <1>1, <2>1, <3>3
    <3> HIDE DEF B, p
    <3>6. p \notin found
      BY <2>1, <3>5
    <3>7. line[p].name \notin removed
      BY <3>5, <3>6 DEF found, IndicesOf
    <3>8. QED
      BY <3>4, <3>7 DEF p
  <2>6. A \in Seq(Args)
    BY <2>3, WithoutSeq
  <2> HIDE DEF A, B, P
  <2>7. QED
    BY <2>2, <2>3, <2>4, <2>5, <2>6 DEF A, Updated
<1>4. QED
  BY <1>2, <1>3

\* appendKernelCommandLineArgs returns a command line.
LEMMA InsertSeq ==
    ASSUME NEW line \in Seq(Args), NEW extra \in Seq(Args)
    PROVE  appendKernelCommandLineArgs(line, extra) \in Seq(Args)
<1>0. PICK A, B \in Seq(Args) : Inserted(line, extra, A, B)
  BY InsertShape
<1>1. appendKernelCommandLineArgs(line, extra) = (A \o extra) \o B
  BY <1>0 DEF Inserted
<1>2. A \o extra \in Seq(Args)
  BY ConcatProperties
<1>3. QED
  BY <1>1, <1>2, ConcatProperties

\* updateKernelCommandLineArgsHelper returns a command line.
LEMMA UpdateSeq ==
    ASSUME NEW line \in Seq(Args), NEW removed, NEW new \in Seq(Args)
    PROVE  updateKernelCommandLineArgsHelper(line, removed, new) \in Seq(Args)
<1>0. PICK P, A, B \in Seq(Args) : Updated(line, removed, new, P, A, B)
  BY UpdateShape
<1>1. updateKernelCommandLineArgsHelper(line, removed, new) = (A \o new) \o B
  BY <1>0 DEF Updated
<1>2. A \o new \in Seq(Args)
  BY ConcatProperties
<1>3. QED
  BY <1>1, <1>2, ConcatProperties

\* The same for three lines; for all of them, in the form that later proofs instantiate.
LEMMA MatchingParts ==
    ASSUME NEW names
    PROVE  \A x, y, z \in Seq(Args) :
              /\ findMatchingCommandLineArgs(x \o y, names) =
                     findMatchingCommandLineArgs(x, names) \o findMatchingCommandLineArgs(y, names)
              /\ findMatchingCommandLineArgs((x \o y) \o z, names) =
                     (findMatchingCommandLineArgs(x, names) \o findMatchingCommandLineArgs(y, names))
                       \o findMatchingCommandLineArgs(z, names)
<1>1. TAKE x, y, z \in Seq(Args)
<1>2. findMatchingCommandLineArgs(x \o y, names) =
          findMatchingCommandLineArgs(x, names) \o findMatchingCommandLineArgs(y, names)
  BY ConcatArgs
<1>3. findMatchingCommandLineArgs((x \o y) \o z, names) =
          (findMatchingCommandLineArgs(x, names) \o findMatchingCommandLineArgs(y, names))
            \o findMatchingCommandLineArgs(z, names)
  <2> DEFINE D == x \o y
  <2>1. D \in Seq(Args)
    BY ConcatProperties
  <2> HIDE DEF D
  <2>2. findMatchingCommandLineArgs(D \o z, names) =
            findMatchingCommandLineArgs(D, names) \o findMatchingCommandLineArgs(z, names)
    BY <2>1, ConcatArgs
  <2>3. QED
    BY <1>2, <2>2, Zenon DEF D
<1>4. QED
  BY <1>2, <1>3, Zenon

\* Empty sequences on both sides disappear.
LEMMA EmptySides ==
    ASSUME NEW s \in Seq(Args), NEW t \in Seq(Args)
    PROVE  (<<>> \o s) \o <<>> = s /\ (s \o <<>>) \o t = s \o t
<1>1. <<>> \o s = s /\ s \o <<>> = s
  BY ConcatEmptySeq
<1>2. QED
  BY <1>1

\* Where the line has no argument of the names, the new ones are all there are of them;
\* new arguments of other names change nothing.
LEMMA MatchingInsert ==
    ASSUME NEW line \in Seq(Args), NEW extra \in Seq(Args), NEW names
    PROVE  /\ findMatchingCommandLineArgs(line, names) = <<>> =>
                  findMatchingCommandLineArgs(appendKernelCommandLineArgs(line, extra), names) =
                      findMatchingCommandLineArgs(extra, names)
           /\ findMatchingCommandLineArgs(extra, names) = <<>> =>
                  findMatchingCommandLineArgs(appendKernelCommandLineArgs(line, extra), names) =
                      findMatchingCommandLineArgs(line, names)
<1> DEFINE M(s) == findMatchingCommandLineArgs(s, names)
<1>0a. \A x, y, z \in Seq(Args) : /\ M(x \o y) = M(x) \o M(y)
                                 /\ M((x \o y) \o z) = (M(x) \o M(y)) \o M(z)
  BY MatchingParts
<1>0. PICK A, B \in Seq(Args) : Inserted(line, extra, A, B)
  BY InsertShape
<1>1. line = A \o B /\ appendKernelCommandLineArgs(line, extra) = (A \o extra) \o B
  BY <1>0 DEF Inserted
<1>2. M(line) = M(A) \o M(B) /\ M((A \o extra) \o B) = (M(A) \o M(extra)) \o M(B)
  <2>1. M(A \o B) = M(A) \o M(B)
    BY <1>0a
  <2>2. M((A \o extra) \o B) = (M(A) \o M(extra)) \o M(B)
    BY <1>0a
  <2>3. QED
    BY <1>1, <2>1, <2>2, Zenon
<1>3. M(A) \in Seq(Args) /\ M(B) \in Seq(Args) /\ M(extra) \in Seq(Args)
  BY MatchingSeq
<1> HIDE DEF M
<1>4. CASE M(line) = <<>>
  <2>1. M(A) = <<>> /\ M(B) = <<>>
    <3>1. Len(M(A) \o M(B)) = Len(M(A)) + Len(M(B)) /\ Len(M(A)) \in Nat /\ Len(M(B)) \in Nat
      BY <1>3, ConcatProperties, LenProperties
    <3>2. Len(M(A) \o M(B)) = 0
      BY <1>2, <1>4, EmptySeq
    <3>3. Len(M(A)) = 0 /\ Len(M(B)) = 0
      BY <3>1, <3>2
    <3>4. QED
      BY <1>3, <3>3, EmptySeq
  <2>2. M((A \o extra) \o B) = M(extra)
    BY <1>2, <1>3, <2>1, EmptySides
  <2>3. QED
    BY <1>1, <1>3, <1>4, <2>2, <1>2, EmptySides DEF M
<1>5. CASE M(extra) = <<>> /\ M(line) # <<>>
  <2>1. M((A \o extra) \o B) = M(A) \o M(B)
    BY <1>2, <1>3, <1>5, EmptySides
  <2>2. QED
    BY <1>1, <1>2, <1>5, <2>1 DEF M
<1>6. QED
  BY <1>4, <1>5 DEF M

\* An insertion loses no argument, and adds those that are inserted only.
LEMMA HasInsert ==
    ASSUME NEW line \in Seq(Args), NEW extra \in Seq(Args), NEW a
    PROVE  HasArg(appendKernelCommandLineArgs(line, extra), a) <=> HasArg(line, a) \/ HasArg(extra, a)
<1>0. PICK A, B \in Seq(Args) : Inserted(line, extra, A, B)
  BY InsertShape
<1>1. line = A \o B /\ appendKernelCommandLineArgs(line, extra) = (A \o extra) \o B
  BY <1>0 DEF Inserted
<1>2. A \o extra \in Seq(Args)
  BY ConcatProperties
<1>3. /\ HasArg(A \o B, a) <=> HasArg(A, a) \/ HasArg(B, a)
      /\ HasArg(A \o extra, a) <=> HasArg(A, a) \/ HasArg(extra, a)
      /\ HasArg((A \o extra) \o B, a) <=> HasArg(A \o extra, a) \/ HasArg(B, a)
  BY <1>2, HasConcat
<1>4. QED
  BY <1>1, <1>3

\* Of the names that are replaced only the new arguments remain.
LEMMA MatchingUpdated ==
    ASSUME NEW line \in Seq(Args), NEW removed, NEW new \in Seq(Args), NEW names, names \subseteq removed
    PROVE  findMatchingCommandLineArgs(updateKernelCommandLineArgsHelper(line, removed, new), names) =
               findMatchingCommandLineArgs(new, names)
<1> DEFINE M(s) == findMatchingCommandLineArgs(s, names)
<1>0a. \A x, y, z \in Seq(Args) : /\ M(x \o y) = M(x) \o M(y)
                                 /\ M((x \o y) \o z) = (M(x) \o M(y)) \o M(z)
  BY MatchingParts
<1>0. PICK P, A, B \in Seq(Args) : Updated(line, removed, new, P, A, B)
  BY UpdateShape
<1>1. /\ line = P \o B
      /\ \/ A = Without(P, removed)
         \/ A = P /\ \A i \in 1..Len(P) : P[i].name \notin removed
      /\ \A i \in 1..Len(B) : B[i].name \notin removed
      /\ updateKernelCommandLineArgsHelper(line, removed, new) = (A \o new) \o B
  BY <1>0 DEF Updated
<1>2. M(A) = <<>>
  <2>1. CASE A = Without(P, removed)
    BY <2>1, MatchingDropped
  <2>2. CASE A = P /\ \A i \in 1..Len(P) : P[i].name \notin removed
    <3>1. \A i \in 1..Len(A) : A[i].name \notin names
      BY <2>2
    <3>2. QED
      BY <3>1, MatchingNone
  <2>3. QED
    BY <1>1, <2>1, <2>2
<1>3. M(B) = <<>>
  <2>1. \A i \in 1..Len(B) : B[i].name \notin names
    BY <1>1
  <2>2. QED
    BY <2>1, MatchingNone
<1>4. M(new) \in Seq(Args)
  BY MatchingSeq
<1> HIDE DEF M
<1>5. A \o new \in Seq(Args)
  BY ConcatProperties
<1>6. M((A \o new) \o B) = (M(A) \o M(new)) \o M(B)
  <2>1. M(A \o new) = M(A) \o M(new)
    BY <1>0a
  <2>2. M((A \o new) \o B) = M(A \o new) \o M(B)
    BY <1>0a, <1>5
  <2>3. QED
    BY <2>1, <2>2, Zenon
<1>7. M((A \o new) \o B) = M(new)
  BY <1>2, <1>3, <1>6, <1>4, EmptySides
<1> DEFINE updated == updateKernelCommandLineArgsHelper(line, removed, new)
           joined == (A \o new) \o B
<1>8. updated = joined
  BY <1>1
<1>9. M(joined) = M(new)
  BY <1>7
<1> HIDE DEF updated, joined
<1>10. M(updated) = M(new)
  BY <1>8, <1>9
<1>11. QED
  BY <1>10 DEF M, updated

\* Names an edit neither drops nor adds.
Untouched(names, removed, new) ==
    /\ names \in SUBSET STRING
    /\ names \intersect removed = {}
    /\ findMatchingCommandLineArgs(new, names) = <<>>

\* Arguments of such names stay, in their order.
LEMMA MatchingUntouched ==
    ASSUME NEW line \in Seq(Args), NEW removed, NEW new \in Seq(Args), NEW names, Untouched(names, removed, new)
    PROVE  findMatchingCommandLineArgs(updateKernelCommandLineArgsHelper(line, removed, new), names) =
               findMatchingCommandLineArgs(line, names)
<1> DEFINE M(s) == findMatchingCommandLineArgs(s, names)
<1>1. names \in SUBSET STRING /\ names \intersect removed = {} /\ M(new) = <<>>
  BY Zenon DEF Untouched
<1>2. \A x, y \in Seq(Args) : M(x \o y) = M(x) \o M(y)
  BY MatchingParts
<1>3. PICK P, A, B \in Seq(Args) : Updated(line, removed, new, P, A, B)
  BY UpdateShape
<1>4. /\ line = P \o B
      /\ A = Without(P, removed) \/ A = P
      /\ updateKernelCommandLineArgsHelper(line, removed, new) = (A \o new) \o B
  BY <1>3 DEF Updated
<1>5. M(A) = M(P)
  <2>1. CASE A = Without(P, removed)
    BY <1>1, <2>1, MatchingWithout
  <2>2. QED
    BY <1>4, <2>1
<1>6. M(P) \in Seq(Args) /\ M(B) \in Seq(Args)
  BY <1>1, MatchingSeq
<1> HIDE DEF M
<1>7. A \o new \in Seq(Args)
  BY ConcatProperties
<1>8. M(P \o B) = M(P) \o M(B) /\ M(A \o new) = M(A) \o M(new)
  BY <1>2
<1>9. M((A \o new) \o B) = M(A \o new) \o M(B)
  BY <1>2, <1>7
<1>10. M((A \o new) \o B) = M(P \o B)
  BY <1>1, <1>5, <1>6, <1>8, <1>9, EmptySides
<1>11. QED
  BY <1>4, <1>10, Zenon DEF M

\* No argument that is not replaced gets lost, and the new ones are there.
LEMMA HasUpdate ==
    ASSUME NEW line \in Seq(Args), NEW removed, NEW new \in Seq(Args), NEW a
    PROVE  /\ HasArg(line, a) /\ a.name \notin removed => HasArg(updateKernelCommandLineArgsHelper(line, removed, new), a)
           /\ HasArg(new, a) => HasArg(updateKernelCommandLineArgsHelper(line, removed, new), a)
<1>0. PICK P, A, B \in Seq(Args) : Updated(line, removed, new, P, A, B)
  BY UpdateShape
<1>1. /\ line = P \o B
      /\ A = Without(P, removed) \/ A = P
      /\ updateKernelCommandLineArgsHelper(line, removed, new) = (A \o new) \o B
  BY <1>0 DEF Updated
<1>2. HasArg(P, a) /\ a.name \notin removed => HasArg(A, a)
  BY <1>1, HasWithout
<1>3. A \o new \in Seq(Args)
  BY ConcatProperties
<1>4. /\ HasArg(P \o B, a) <=> HasArg(P, a) \/ HasArg(B, a)
      /\ HasArg(A \o new, a) <=> HasArg(A, a) \/ HasArg(new, a)
      /\ HasArg((A \o new) \o B, a) <=> HasArg(A \o new, a) \/ HasArg(B, a)
  BY <1>3, HasConcat
<1>5. QED
  BY <1>1, <1>2, <1>4

\* The same for arguments that go to the end, as in a UKI or a BLS entry.
LEMMA MatchingReplaced ==
    ASSUME NEW line \in Seq(Args), NEW removed, NEW new \in Seq(Args), NEW names \in SUBSET STRING
    PROVE  /\ names \subseteq removed =>
                  findMatchingCommandLineArgs(Without(line, removed) \o new, names) =
                      findMatchingCommandLineArgs(new, names)
           /\ names \intersect removed = {} /\ findMatchingCommandLineArgs(new, names) = <<>> =>
                  findMatchingCommandLineArgs(Without(line, removed) \o new, names) =
                      findMatchingCommandLineArgs(line, names)
           /\ findMatchingCommandLineArgs(line, names) = <<>> =>
                  findMatchingCommandLineArgs(Without(line, removed) \o new, names) =
                      findMatchingCommandLineArgs(new, names)
           /\ Without(line, removed) \o new \in Seq(Args)
<1> DEFINE M(s) == findMatchingCommandLineArgs(s, names)
<1>1. Without(line, removed) \in Seq(Args)
  BY WithoutSeq
<1>2. M(Without(line, removed) \o new) = M(Without(line, removed)) \o M(new)
  BY <1>1, MatchingConcat
<1>3. M(new) \in Seq(Args) /\ M(line) \in Seq(Args)
  BY MatchingSeq
<1>4. names \subseteq removed => M(Without(line, removed)) = <<>>
  BY MatchingDropped
<1>5. names \intersect removed = {} => M(Without(line, removed)) = M(line)
  BY MatchingWithout
<1>6. M(line) = <<>> => M(Without(line, removed)) = <<>>
  <2>1. SUFFICES ASSUME M(line) = <<>> PROVE M(Without(line, removed)) = <<>>
    OBVIOUS
  <2>2. M(Without(line, removed)) = findMatchingCommandLineArgs(line, names \intersect (STRING \ removed))
    BY MatchingTwice DEF Without
  <2>3. \A i \in 1..Len(line) : line[i].name \notin names
    <3>1. SUFFICES ASSUME NEW i \in 1..Len(line), line[i].name \in names PROVE FALSE
      OBVIOUS
    <3>2. \E j \in 1..Len(M(line)) : M(line)[j] = line[i]
      BY <3>1, MatchingAll
    <3>3. 1..Len(M(line)) = {}
      BY <2>1, EmptySeq
    <3>4. QED
      BY <3>2, <3>3
  <2>4. findMatchingCommandLineArgs(line, names \intersect (STRING \ removed)) = <<>>
    BY <2>3, MatchingNone
  <2>5. QED
    BY <2>2, <2>4
<1>7. Without(line, removed) \o new \in Seq(Args)
  BY <1>1, ConcatProperties
<1> HIDE DEF M
<1>8. <<>> \o M(new) = M(new) /\ M(line) \o <<>> = M(line)
  BY <1>3, ConcatEmptySeq
<1>9. QED
  BY <1>2, <1>4, <1>5, <1>6, <1>7, <1>8 DEF M

\* A replacement loses the arguments of the dropped names only.
LEMMA HasReplaced ==
    ASSUME NEW line \in Seq(Args), NEW removed, NEW new \in Seq(Args), NEW a
    PROVE  /\ HasArg(line, a) /\ a.name \notin removed => HasArg(Without(line, removed) \o new, a)
           /\ HasArg(new, a) => HasArg(Without(line, removed) \o new, a)
<1>1. Without(line, removed) \in Seq(Args)
  BY WithoutSeq
<1>2. HasArg(Without(line, removed) \o new, a) <=> HasArg(Without(line, removed), a) \/ HasArg(new, a)
  BY <1>1, HasConcat
<1>3. QED
  BY <1>2, HasWithout

-----------------------------------------------------------------------------
(* What a name ends up with.                                                *)

\* A line of one argument.
LEMMA MatchingOne ==
    ASSUME NEW a \in Args, NEW names
    PROVE  findMatchingCommandLineArgs(<<a>>, names) = IF a.name \in names THEN <<a>> ELSE <<>>
<1> DEFINE none == <<>>
<1>1. none \in Seq(Args) /\ Append(none, a) = <<a>> /\ none = <<>>
  BY EmptySeq
<1>2. findMatchingCommandLineArgs(none, names) = none
  BY MatchingEmpty
<1> HIDE DEF none
<1>3. findMatchingCommandLineArgs(Append(none, a), names) =
          IF a.name \in names THEN Append(findMatchingCommandLineArgs(none, names), a)
          ELSE findMatchingCommandLineArgs(none, names)
  <2>1. \A line \in Seq(Args) :
           findMatchingCommandLineArgs(Append(line, a), names) =
               IF a.name \in names THEN Append(findMatchingCommandLineArgs(line, names), a)
               ELSE findMatchingCommandLineArgs(line, names)
    BY MatchingAppend
  <2> QED
    BY <1>1, <2>1
<1>4. QED
  BY <1>1, <1>2, <1>3

\* The only argument of a name is its value; without one it is "".
LEMMA FindOne ==
    ASSUME NEW line, NEW n, NEW v, findMatchingCommandLineArgs(line, {n}) = <<Arg(n, v)>>
    PROVE  findKernelCommandLineArgValue(line, n) = v
<1>1. <<Arg(n, v)>> # <<>> /\ Len(<<Arg(n, v)>>) = 1 /\ <<Arg(n, v)>>[1].value = v
  BY DEF Arg
<1>2. QED
  BY <1>1 DEF findKernelCommandLineArgValue

\* A name without an argument has the value "".
LEMMA FindNone ==
    ASSUME NEW line, NEW n, findMatchingCommandLineArgs(line, {n}) = <<>>
    PROVE  findKernelCommandLineArgValue(line, n) = ""
BY DEF findKernelCommandLineArgValue

\* Lines with the same arguments of a name give the same value for it.
LEMMA FindSame ==
    ASSUME NEW line, NEW other, NEW n, findMatchingCommandLineArgs(line, {n}) = findMatchingCommandLineArgs(other, {n})
    PROVE  findKernelCommandLineArgValue(line, n) = findKernelCommandLineArgValue(other, n)
BY DEF findKernelCommandLineArgValue

\* The arguments of some of the names are among the arguments of all of them.
LEMMA MatchingPart ==
    ASSUME NEW line \in Seq(Args), NEW other \in Seq(Args), NEW names, NEW some, some \subseteq names,
           findMatchingCommandLineArgs(line, names) = findMatchingCommandLineArgs(other, names)
    PROVE  findMatchingCommandLineArgs(line, some) = findMatchingCommandLineArgs(other, some)
<1>1. some \intersect names = some
  OBVIOUS
<1>2. /\ findMatchingCommandLineArgs(findMatchingCommandLineArgs(line, names), some) = findMatchingCommandLineArgs(line, some)
      /\ findMatchingCommandLineArgs(findMatchingCommandLineArgs(other, names), some) = findMatchingCommandLineArgs(other, some)
  BY <1>1, MatchingTwice
<1>3. QED
  BY <1>2

\* The mode a command line asks for depends on its SELinux arguments only.
LEMMA SameSELinuxMode ==
    ASSUME NEW line \in Seq(Args), NEW other \in Seq(Args),
           findMatchingCommandLineArgs(line, selinuxArgNames) = findMatchingCommandLineArgs(other, selinuxArgNames)
    PROVE  /\ getSELinuxModeFromLinuxArgs(line) = getSELinuxModeFromLinuxArgs(other)
           /\ getSELinuxModeFromLinuxArgsDeferIfMissing(line) = getSELinuxModeFromLinuxArgsDeferIfMissing(other)
<1>1. ASSUME NEW n \in selinuxArgNames
      PROVE  findKernelCommandLineArgValue(line, n) = findKernelCommandLineArgValue(other, n)
  <2>1. {n} \subseteq selinuxArgNames
    OBVIOUS
  <2>2. findMatchingCommandLineArgs(line, {n}) = findMatchingCommandLineArgs(other, {n})
    BY <2>1, MatchingPart, ZenonT(60)
  <2>3. QED
    BY <2>2, FindSame, Zenon
<1>2. /\ findKernelCommandLineArgValue(line, "security") = findKernelCommandLineArgValue(other, "security")
      /\ findKernelCommandLineArgValue(line, "selinux") = findKernelCommandLineArgValue(other, "selinux")
      /\ findKernelCommandLineArgValue(line, "enforcing") = findKernelCommandLineArgValue(other, "enforcing")
  BY <1>1 DEF selinuxArgNames
<1>3. getSELinuxModeFromLinuxArgs(line) = getSELinuxModeFromLinuxArgs(other)
  BY <1>2 DEF getSELinuxModeFromLinuxArgs
<1>4. QED
  BY <1>3 DEF getSELinuxModeFromLinuxArgsDeferIfMissing
=============================================================================
