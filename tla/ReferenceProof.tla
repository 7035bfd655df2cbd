---------------------------- MODULE ReferenceProof ----------------------------
(***************************************************************************)
(* Proofs that the parse loop and its declarative reading agree: whatever  *)
(* the tree of parsers, the lexing of the words and the command line, the  *)
(* first call gives every item the words the line holds for it, and        *)
(* accepts acceptable lines only.                                          *)
(* What is assumed of the option containers is proved at the end.          *)
(***************************************************************************)
EXTENDS ParserReference, OptionRules, ParserProof, FiniteSetTheorems

(***************************************************************************)
(* Induction over the natural numbers, for sets of them.                   *)
(***************************************************************************)

\* Every set of numbers has a least element: smaller numbers have smaller sets
\* of predecessors.
LEMMA NatMin ==
  ASSUME NEW T \in SUBSET Nat, T # {}
  PROVE  \E x \in T : \A y \in T : x <= y
<1> DEFINE F == {0 .. x - 1 : x \in T}
<1>1. F \subseteq FiniteSubsetsOf(Nat) /\ F # {}
  <2>1. \A x \in Nat : IsFiniteSet(0 .. x - 1)
    <3> SUFFICES ASSUME NEW x \in Nat PROVE IsFiniteSet(0 .. x - 1)
      OBVIOUS
    <3>1. 0 \in Int /\ x - 1 \in Int
      OBVIOUS
    <3> QED BY <3>1, FS_Interval
  <2>2. \A x \in Nat : 0 .. x - 1 \in SUBSET Nat
    OBVIOUS
  <2> QED BY <2>1, <2>2 DEF FiniteSubsetsOf
<1>2. \E U \in F : \A V \in F : <<V, U>> \notin StrictSubsetOrdering(Nat)
  <2> HIDE DEF F
  <2> QED BY <1>1, WFMin, FS_StrictSubsetOrderingWellFounded
<1>3. PICK x \in T : \A y \in T : <<0 .. y - 1, 0 .. x - 1>> \notin StrictSubsetOrdering(Nat)
  BY <1>2
<1>4. ASSUME NEW y \in T, y < x PROVE FALSE
  <2>1. 0 .. y - 1 \subseteq 0 .. x - 1 /\ 0 .. y - 1 # 0 .. x - 1
    <3>1. y \in 0 .. x - 1 /\ y \notin 0 .. y - 1
      BY <1>4
    <3>2. 0 .. y - 1 \subseteq 0 .. x - 1
      BY <1>4
    <3> QED BY <3>1, <3>2
  <2>2. 0 .. y - 1 \in SUBSET Nat /\ 0 .. x - 1 \in SUBSET Nat
    OBVIOUS
  <2>3. <<0 .. y - 1, 0 .. x - 1>> \in StrictSubsetOrdering(Nat)
    BY <2>1, <2>2 DEF StrictSubsetOrdering
  <2> QED BY <1>3, <2>3
<1> QED BY <1>4

\* A set that holds 0 and, with a number, the next one holds all numbers.
LEMMA SetInduction ==
  ASSUME NEW T, 0 \in T, \A n \in Nat : n \in T => n + 1 \in T
  PROVE  Nat \subseteq T
<1> SUFFICES ASSUME Nat \ T # {} PROVE FALSE
  OBVIOUS
<1>1. PICK x \in Nat \ T : \A y \in Nat \ T : x <= y
  BY NatMin
<1>2. x - 1 \in Nat /\ x - 1 \notin Nat \ T
  BY <1>1
<1> QED BY <1>1, <1>2

\* f begins with b, and F makes of every value the next one.
Iterates(f, m, b, F) == f[0] = b /\ \A i \in 1..m : f[i] = F[<<f[i - 1], i>>]

\* There is such a function.
LEMMA Recursion ==
  ASSUME NEW S, NEW m \in Nat, NEW b \in S, NEW F \in [S \X (1..m) -> S]
  PROVE  \E f \in [0..m -> S] : Iterates(f, m, b, F)
<1> DEFINE
  Upto(f, n) == f[0] = b /\ \A i \in 1..n : f[i] = F[<<f[i - 1], i>>]
  T == {n \in Nat : n <= m => \E f \in [0..m -> S] : Upto(f, n)}
<1>1. 0 \in T
  <2>1. [i \in 0..m |-> b] \in [0..m -> S] /\ Upto([i \in 0..m |-> b], 0)
    OBVIOUS
  <2> QED BY <2>1
<1>2. ASSUME NEW n \in Nat, n \in T
      PROVE  n + 1 \in T
  <2> SUFFICES ASSUME n + 1 <= m
               PROVE  \E f \in [0..m -> S] : Upto(f, n + 1)
    OBVIOUS
  <2>1. PICK f \in [0..m -> S] : Upto(f, n)
    BY <1>2
  <2> DEFINE g == [f EXCEPT ![n + 1] = F[<<f[n], n + 1>>]]
  <2>2. n \in 0..m /\ n + 1 \in 1..m
    OBVIOUS
  <2>3. g \in [0..m -> S]
    BY <2>2
  <2>4. Upto(g, n + 1)
    <3>1. g[0] = b
      BY <2>1, <2>2
    <3>2. ASSUME NEW i \in 1..(n + 1) PROVE g[i] = F[<<g[i - 1], i>>]
      <4>1. i - 1 # n + 1 /\ i - 1 \in 0..m /\ i \in 1..m
        BY <2>2
      <4>2. g[i - 1] = f[i - 1]
        BY <4>1
      <4>3. CASE i = n + 1
        BY <2>2, <4>2, <4>3
      <4>4. CASE i # n + 1
        BY <2>1, <4>1, <4>2, <4>4
      <4> QED BY <4>3, <4>4
    <3> QED BY <3>1, <3>2
  <2> HIDE DEF g
  <2> QED BY <2>3, <2>4
<1>3. m \in T
  <2> HIDE DEF T
  <2> QED BY <1>1, <1>2, SetInduction
<1> QED BY <1>3 DEF Iterates

-----------------------------------------------------------------------------

\* What Reading is made of
Place == [role : {"start", "option", "awaits", "param", "argument", "sub", "bad"},
          parser : Parser, nth : Nat]
Start == [role |-> "start", parser |-> Main, nth |-> 0]

LEMMA ReadWordType ==
  ASSUME NEW a \in Seq(Word), NEW i \in 1..Len(a), NEW b \in Place
  PROVE  ReadWord(a, i, b) \in Place
<1>1. a[i] \in DOMAIN Sub[b.parser] => Sub[b.parser][a[i]] \in Parser
  BY TreeAssumption DEF Place
<1> QED BY <1>1 DEF ReadWord, Place

\* The reading of a line is what its recursive definition says.
LEMMA ReadingIs ==
  ASSUME NEW a \in Seq(Word)
  PROVE  /\ Reading(a) = [i \in 0..Len(a) |->
              IF i = 0 THEN Start ELSE ReadWord(a, i, Reading(a)[i - 1])]
         /\ Reading(a) \in [0..Len(a) -> Place]
<1> DEFINE
  IsReading(f) == f = [i \in 0..Len(a) |->
                         IF i = 0 THEN Start ELSE ReadWord(a, i, f[i - 1])]
  F == [c \in Place \X (1..Len(a)) |-> ReadWord(a, c[2], c[1])]
<1>1. Start \in Place /\ Len(a) \in Nat
  BY TreeAssumption DEF Start, Place
<1>2. F \in [Place \X (1..Len(a)) -> Place]
  <2>1. \A c \in Place \X (1..Len(a)) : ReadWord(a, c[2], c[1]) \in Place
    BY ReadWordType
  <2> QED BY <2>1
<1>3. PICK g \in [0..Len(a) -> Place] : Iterates(g, Len(a), Start, F)
  <2> HIDE DEF F
  <2> QED BY <1>1, <1>2, Recursion
<1>4. IsReading(g)
  <2>1. \A i \in 1..Len(a) : i - 1 \in 0..Len(a) /\ g[i - 1] \in Place
    BY <1>1, <1>3
  <2>2. g[0] = Start /\ \A i \in 1..Len(a) : g[i] = ReadWord(a, i, g[i - 1])
    BY <1>3, <2>1 DEF Iterates
  <2> QED BY <1>1, <2>2
<1>5. Reading(a) = CHOOSE f : IsReading(f)
  BY DEF Reading, Start
<1>6. IsReading(Reading(a))
  <2> HIDE DEF IsReading
  <2> QED BY <1>4, <1>5
<1> DEFINE T == {n \in Nat : n <= Len(a) => Reading(a)[n] \in Place}
<1>7. 0 \in T
  BY <1>1, <1>6
<1>8. ASSUME NEW n \in Nat, n \in T PROVE n + 1 \in T
  BY <1>1, <1>6, <1>8, ReadWordType
<1>9. Nat \subseteq T
  <2> HIDE DEF T
  <2> QED BY <1>7, <1>8, SetInduction
<1>10. \A i \in 0..Len(a) : Reading(a)[i] \in Place
  BY <1>1, <1>9
<1> QED BY <1>6, <1>10

\* The same word by word
LEMMA ReadingStep ==
  ASSUME NEW a \in Seq(Word)
  PROVE  /\ Reading(a)[0] = Start
         /\ \A i \in 0..Len(a) : Reading(a)[i] \in Place
         /\ \A i \in 1..Len(a) : Reading(a)[i] = ReadWord(a, i, Reading(a)[i - 1])
<1>1. Len(a) \in Nat /\ 0 \in 0..Len(a) /\ \A i \in 1..Len(a) : i \in 0..Len(a) /\ i # 0
  OBVIOUS
<1> QED BY <1>1, ReadingIs

\* Behind a word that nobody can take, nobody takes a word.
LEMMA BadStays ==
  ASSUME NEW a \in Seq(Word), NEW i \in 0..Len(a), Reading(a)[i].role = "bad"
  PROVE  Reading(a)[Len(a)].role = "bad"
<1> DEFINE T == {n \in Nat : i <= n /\ n <= Len(a) => Reading(a)[n].role = "bad"}
<1>1. 0 \in T
  OBVIOUS
<1>2. ASSUME NEW n \in Nat, n \in T PROVE n + 1 \in T
  <2> SUFFICES ASSUME i <= n + 1, n + 1 <= Len(a) PROVE Reading(a)[n + 1].role = "bad"
    OBVIOUS
  <2>1. CASE i = n + 1
    BY <2>1
  <2>2. CASE i <= n
    <3>1. Reading(a)[n + 1] = ReadWord(a, n + 1, Reading(a)[n]) /\ Reading(a)[n].role = "bad"
      BY <1>2, <2>2, ReadingStep
    <3> QED BY <3>1 DEF ReadWord
  <2> QED BY <2>1, <2>2
<1>3. Nat \subseteq T
  <2> HIDE DEF T
  <2> QED BY <1>1, <1>2, SetInduction
<1> QED BY <1>3

-----------------------------------------------------------------------------

\* How often x is named among the first names of an option word
LEMMA HitsCount ==
  ASSUME NEW p, NEW w, NEW x, NEW k \in Nat
  PROVE  /\ Cardinality(Hits(p, w, x, k)) \in Nat
         /\ Cardinality(Hits(p, w, x, k)) = 0 <=> Hits(p, w, x, k) = {}
         /\ Opt[p][Lex[w].names[k + 1]] = x =>
              Cardinality(Hits(p, w, x, k + 1)) = Cardinality(Hits(p, w, x, k)) + 1
         /\ Opt[p][Lex[w].names[k + 1]] # x =>
              Cardinality(Hits(p, w, x, k + 1)) = Cardinality(Hits(p, w, x, k))
<1> DEFINE H == Hits(p, w, x, k)
<1>1. IsFiniteSet(H)
  <2>1. 1 \in Int /\ k \in Int
    OBVIOUS
  <2>2. IsFiniteSet(1..k) /\ H \in SUBSET (1..k)
    BY <2>1, FS_Interval DEF Hits
  <2> QED BY <2>2, FS_Subset
<1>2. k + 1 \notin H
  BY DEF Hits
<1>3. CASE Opt[p][Lex[w].names[k + 1]] = x
  <2>1. Hits(p, w, x, k + 1) = H \cup {k + 1}
    BY <1>3 DEF Hits
  <2> QED BY <1>1, <1>2, <1>3, <2>1, FS_AddElement, FS_CardinalityType, FS_EmptySet
<1>4. CASE Opt[p][Lex[w].names[k + 1]] # x
  <2>1. Hits(p, w, x, k + 1) = H
    BY <1>4 DEF Hits
  <2> QED BY <1>1, <1>4, <2>1, FS_CardinalityType, FS_EmptySet
<1> QED BY <1>3, <1>4

LEMMA NoHits ==
  ASSUME NEW p, NEW w, NEW x
  PROVE  Cardinality(Hits(p, w, x, 0)) = 0
<1>1. Hits(p, w, x, 0) = {}
  BY DEF Hits
<1> QED BY <1>1, FS_EmptySet

\* The word w, c times
Times(c, w) == [k \in 1..c |-> w]

LEMMA TimesFacts ==
  ASSUME NEW S, NEW w \in S, NEW c \in Nat
  PROVE  /\ Times(c, w) \in Seq(S)
         /\ Len(Times(c, w)) = c
         /\ Times(0, w) = <<>>
         /\ Times(c + 1, w) = Append(Times(c, w), w)
<1>1. \A n \in Nat : Times(n, w) \in Seq(S) /\ Len(Times(n, w)) = n
  BY DEF Times
<1>2. Times(0, w) = <<>>
  BY <1>1, EmptySeq
<1>3. Times(c + 1, w) = Append(Times(c, w), w)
  <2>1. /\ Append(Times(c, w), w) \in Seq(S) /\ Len(Append(Times(c, w), w)) = c + 1
        /\ Times(c + 1, w) \in Seq(S) /\ Len(Times(c + 1, w)) = c + 1
    BY <1>1, AppendProperties
  <2>2. \A k \in 1..c + 1 : Append(Times(c, w), w)[k] = w /\ Times(c + 1, w)[k] = w
    BY <1>1, AppendProperties DEF Times
  <2> QED BY <2>1, <2>2, SeqEqual
<1> QED BY <1>1, <1>2, <1>3

-----------------------------------------------------------------------------

\* The words that may be given, and what would be read behind the last of them
Words(a) == Word \cup {a[Len(a) + 1]}

LEMMA ParamType ==
  ASSUME NEW a \in Seq(Word), NEW i \in 1..Len(a), NEW x
  PROVE  Param(a, i, x) \in Words(a)
<1>1. a[i] \in Word /\ Lex[a[i]].param \in Word
  BY WordAssumption DEF Lexeme
<1>2. a[i + 1] \in Words(a)
  <2>1. CASE i = Len(a)
    BY <2>1 DEF Words
  <2>2. CASE i # Len(a)
    BY <2>2 DEF Words
  <2> QED BY <2>1, <2>2
<1> QED BY <1>1, <1>2 DEF Param, Words

LEMMA GivenAtType ==
  ASSUME NEW a \in Seq(Word), NEW i \in 1..Len(a), NEW x
  PROVE  GivenAt(a, Reading(a), i, x) \in Seq(Words(a))
<1>1. a[i] \in Word /\ Len(Lex[a[i]].names) \in Nat
  BY WordAssumption DEF Lexeme
<1>2. <<>> \in Seq(Words(a)) /\ <<a[i]>> \in Seq(Words(a))
  BY <1>1, EmptySeq DEF Words
<1>3. \A c \in Nat : Times(c, Param(a, i, x)) \in Seq(Words(a))
  BY ParamType, TimesFacts
<1> QED BY <1>1, <1>2, <1>3, HitsCount DEF GivenAt, Times

\* What has been given word by word
LEMMA GivenUpToStep ==
  ASSUME NEW a \in Seq(Word), NEW x
  PROVE  LET g == GivenUpTo(a, Reading(a), x) IN
         /\ g[0] = <<>>
         /\ \A i \in 0..Len(a) : g[i] \in Seq(Words(a))
         /\ \A i \in 1..Len(a) : g[i] = g[i - 1] \o GivenAt(a, Reading(a), i, x)
<1> DEFINE
  At(i) == GivenAt(a, Reading(a), i, x)
  Is(g) == g = [i \in 0..Len(a) |-> IF i = 0 THEN <<>> ELSE g[i - 1] \o At(i)]
  S == Seq(Words(a))
  F == [c \in S \X (1..Len(a)) |-> c[1] \o At(c[2])]
  G == GivenUpTo(a, Reading(a), x)
<1>1. Len(a) \in Nat /\ <<>> \in S
  BY EmptySeq
<1>2. \A s \in S, i \in 1..Len(a) : s \o At(i) \in S
  BY GivenAtType, ConcatProperties
<1>3. F \in [S \X (1..Len(a)) -> S]
  <2> HIDE DEF S, At
  <2> QED BY <1>2
<1>4. PICK h \in [0..Len(a) -> S] : Iterates(h, Len(a), <<>>, F)
  <2> HIDE DEF F, S
  <2> QED BY <1>1, <1>3, Recursion
<1>5. Is(h)
  <2>1. \A i \in 1..Len(a) : i - 1 \in 0..Len(a) /\ h[i - 1] \in S
    <3> HIDE DEF S
    <3> QED BY <1>1, <1>4
  <2>2. h[0] = <<>> /\ \A i \in 1..Len(a) : h[i] = h[i - 1] \o At(i)
    <3> HIDE DEF S, At
    <3> QED BY <1>4, <2>1 DEF Iterates
  <2> HIDE DEF S, At
  <2> QED BY <1>1, <2>2
<1>6. G = CHOOSE g : Is(g)
  BY DEF GivenUpTo
<1>7. Is(G)
  <2> HIDE DEF Is, G
  <2> QED BY <1>5, <1>6
<1>8. G[0] = <<>> /\ \A i \in 1..Len(a) : G[i] = G[i - 1] \o At(i)
  <2>1. 0 \in 0..Len(a) /\ \A i \in 1..Len(a) : i \in 0..Len(a) /\ i # 0
    BY <1>1
  <2> HIDE DEF G, At
  <2> QED BY <1>7, <2>1
<1> DEFINE T == {n \in Nat : n <= Len(a) => G[n] \in S}
<1> HIDE DEF G, At, S
<1>9. 0 \in T
  BY <1>1, <1>8
<1>10. ASSUME NEW n \in Nat, n \in T PROVE n + 1 \in T
  <2> SUFFICES ASSUME n + 1 <= Len(a) PROVE G[n + 1] \in S
    OBVIOUS
  <2>1. n + 1 \in 1..Len(a) /\ (n + 1) - 1 = n /\ G[n] \in S
    BY <1>1, <1>10
  <2> QED BY <1>2, <1>8, <2>1
<1>11. Nat \subseteq T
  <2> HIDE DEF T
  <2> QED BY <1>9, <1>10, SetInduction
<1>12. \A i \in 0..Len(a) : G[i] \in S
  BY <1>1, <1>11
<1> QED BY <1>8, <1>12 DEF G, S, At

\* The word w is among those of s.
Among(w, s) == \E k \in 1..Len(s) : s[k] = w

LEMMA AmongConcat ==
  ASSUME NEW S, NEW s \in Seq(S), NEW t \in Seq(S), NEW w
  PROVE  Among(w, s) \/ Among(w, t) => Among(w, s \o t)
<1>1. /\ Len(s) \in Nat /\ Len(t) \in Nat /\ Len(s \o t) = Len(s) + Len(t)
      /\ \A i \in 1..Len(s) + Len(t) :
           (s \o t)[i] = IF i <= Len(s) THEN s[i] ELSE t[i - Len(s)]
  BY ConcatProperties
<1>2. ASSUME NEW k \in 1..Len(s), s[k] = w PROVE Among(w, s \o t)
  BY <1>1, <1>2 DEF Among
<1>3. ASSUME NEW k \in 1..Len(t), t[k] = w PROVE Among(w, s \o t)
  <2>1. Len(s) + k \in 1..Len(s \o t) /\ (s \o t)[Len(s) + k] = w
    BY <1>1, <1>3
  <2> QED BY <2>1 DEF Among
<1> QED BY <1>2, <1>3 DEF Among

\* What a word gives is never taken back.
LEMMA GivenStays ==
  ASSUME NEW a \in Seq(Word), NEW x, NEW w, NEW i \in 1..Len(a),
         Among(w, GivenAt(a, Reading(a), i, x))
  PROVE  Among(w, Occurrences(a, Reading(a), x))
<1> DEFINE G == GivenUpTo(a, Reading(a), x)
           T == {n \in Nat : i <= n /\ n <= Len(a) => Among(w, G[n])}
<1>1. /\ \A j \in 0..Len(a) : G[j] \in Seq(Words(a))
      /\ \A j \in 1..Len(a) : G[j] = G[j - 1] \o GivenAt(a, Reading(a), j, x)
  BY GivenUpToStep
<1>2. \A j \in 1..Len(a) : /\ j - 1 \in 0..Len(a)
                           /\ GivenAt(a, Reading(a), j, x) \in Seq(Words(a))
  BY GivenAtType
<1> HIDE DEF G
<1>3. Among(w, G[i])
  BY <1>1, <1>2, AmongConcat
<1>4. 0 \in T
  OBVIOUS
<1>5. ASSUME NEW n \in Nat, n \in T PROVE n + 1 \in T
  <2> SUFFICES ASSUME i <= n + 1, n + 1 <= Len(a) PROVE Among(w, G[n + 1])
    OBVIOUS
  <2>1. CASE i = n + 1
    BY <1>3, <2>1
  <2>2. CASE i <= n
    <3>1. Among(w, G[n]) /\ n + 1 \in 1..Len(a) /\ n = (n + 1) - 1
      BY <1>5, <2>2
    <3> QED BY <1>1, <1>2, <3>1, AmongConcat
  <2> QED BY <2>1, <2>2
<1>6. Nat \subseteq T
  <2> HIDE DEF T
  <2> QED BY <1>4, <1>5, SetInduction
<1>7. Len(a) \in T
  BY <1>6
<1> QED BY <1>7 DEF Occurrences, G

-----------------------------------------------------------------------------

\* What has been given to x when n words of the line a are done, and d names of
\* the cluster after them
SoFar(a, n, d, x) ==
  GivenUpTo(a, Reading(a), x)[n]
    \o Times(Cardinality(Hits(Reading(a)[n].parser, a[n + 1], x, d)), a[n + 1])

LEMMA SoFarType ==
  ASSUME NEW a \in Seq(Word), NEW n \in 0..Len(a), NEW d \in Nat, NEW x
  PROVE  /\ SoFar(a, n, d, x) \in Seq(Words(a))
         /\ SoFar(a, n, 0, x) = GivenUpTo(a, Reading(a), x)[n]
<1>1. GivenUpTo(a, Reading(a), x)[n] \in Seq(Words(a))
  BY GivenUpToStep
<1>2. a[n + 1] \in Words(a)
  <2>1. CASE n = Len(a)
    BY <2>1 DEF Words
  <2>2. CASE n # Len(a)
    BY <2>2 DEF Words
  <2> QED BY <2>1, <2>2
<1>3. \A c \in Nat : Times(c, a[n + 1]) \in Seq(Words(a)) /\ Times(0, a[n + 1]) = <<>>
  BY <1>2, TimesFacts
<1>4. \A k \in Nat : Cardinality(Hits(Reading(a)[n].parser, a[n + 1], x, k)) \in Nat
  BY HitsCount
<1>5. SoFar(a, n, d, x) \in Seq(Words(a))
  BY <1>1, <1>3, <1>4, ConcatProperties DEF SoFar
<1>6. SoFar(a, n, 0, x) = GivenUpTo(a, Reading(a), x)[n]
  <2>1. SoFar(a, n, 0, x) = GivenUpTo(a, Reading(a), x)[n] \o <<>>
    BY <1>3, NoHits DEF SoFar
  <2> QED BY <1>1, <2>1, ConcatEmptySeq
<1> QED BY <1>5, <1>6

LEMMA ConcatAppend ==
  ASSUME NEW S, NEW s \in Seq(S), NEW t \in Seq(S), NEW w \in S
  PROVE  s \o Append(t, w) = Append(s \o t, w)
<1>1. <<w>> \in Seq(S) /\ s \o t \in Seq(S)
  BY ConcatProperties
<1>2. Append(t, w) = t \o <<w>> /\ Append(s \o t, w) = (s \o t) \o <<w>>
  BY <1>1, AppendIsConcat
<1> QED BY <1>1, <1>2, ConcatAssociative

\* One more name of a cluster gives its word to the item it names.
LEMMA SoFarName ==
  ASSUME NEW a \in Seq(Word), NEW n \in 0..Len(a) - 1, NEW d \in Nat, NEW x
  PROVE  SoFar(a, n, d + 1, x) =
           IF Opt[Reading(a)[n].parser][Lex[a[n + 1]].names[d + 1]] = x
           THEN Append(SoFar(a, n, d, x), a[n + 1]) ELSE SoFar(a, n, d, x)
<1> DEFINE p == Reading(a)[n].parser
           w == a[n + 1]
           c == Cardinality(Hits(p, w, x, d))
           G == GivenUpTo(a, Reading(a), x)[n]
<1>1. G \in Seq(Words(a)) /\ w \in Words(a)
  BY GivenUpToStep DEF Words
<1>2. c \in Nat
  BY HitsCount
<1>3. SoFar(a, n, d, x) = G \o Times(c, w)
  BY DEF SoFar
<1>4. CASE Opt[p][Lex[w].names[d + 1]] = x
  <2>1. Cardinality(Hits(p, w, x, d + 1)) = c + 1
    BY <1>4, HitsCount
  <2>2. SoFar(a, n, d + 1, x) = G \o Times(c + 1, w)
    BY <2>1 DEF SoFar
  <2> HIDE DEF c, G, w
  <2>3. Times(c, w) \in Seq(Words(a)) /\ Times(c + 1, w) = Append(Times(c, w), w)
    BY <1>1, <1>2, TimesFacts
  <2>4. G \o Append(Times(c, w), w) = Append(G \o Times(c, w), w)
    BY <1>1, <2>3, ConcatAppend
  <2>5. SoFar(a, n, d + 1, x) = Append(SoFar(a, n, d, x), w)
    BY <1>3, <2>2, <2>3, <2>4
  <2> QED BY <1>4, <2>5 DEF w
<1>5. CASE Opt[p][Lex[w].names[d + 1]] # x
  <2>1. Cardinality(Hits(p, w, x, d + 1)) = c
    BY <1>2, <1>5, HitsCount
  <2>2. SoFar(a, n, d + 1, x) = SoFar(a, n, d, x)
    BY <1>3, <2>1 DEF SoFar
  <2> QED BY <1>5, <2>2
<1> QED BY <1>4, <1>5

\* The m-th word of the line a has d names without a parameter before the last.
FlagsBefore(a, m, d, p) ==
  LET ns == Lex[a[m]].names IN
    d + 1 = Len(ns) /\ \A k \in 1..d : Opt[p][ns[k]] \notin TakesParam

\* From n words and d names to m words and e names, the line gives w to x, and
\* nothing else.
Gives(a, n, d, m, e, x, w) ==
  \A y \in Item \ Silent :
    SoFar(a, m, e, y) = IF y = x THEN Append(SoFar(a, n, d, y), w) ELSE SoFar(a, n, d, y)

\* The last name of an option word gives its parameter, or the word, to the item
\* it names.
LEMMA SoFarLast ==
  ASSUME NEW a \in Seq(Word), NEW n \in 0..Len(a) - 1, NEW m, m = n + 1, NEW d \in Nat,
         NEW p, p = Reading(a)[n].parser,
         Reading(a)[m].role \in {"option", "awaits"}, Reading(a)[m].parser = p,
         FlagsBefore(a, m, d, p),
         NEW x, x = Opt[p][Lex[a[m]].names[d + 1]]
  PROVE  Gives(a, n, d, m, 0, x, Param(a, m, x))
<1> SUFFICES ASSUME NEW y
             PROVE  SoFar(a, m, 0, y) = IF y = x THEN Append(SoFar(a, n, d, y), Param(a, m, y))
                                                 ELSE SoFar(a, n, d, y)
  BY DEF Gives
<1> DEFINE H(k) == Cardinality(Hits(p, a[m], y, k))
           G == GivenUpTo(a, Reading(a), y)
           w == Param(a, m, y)
<1>0. n \in 0..Len(a) /\ m \in 0..Len(a) /\ m \in 1..Len(a) /\ m - 1 = n
  OBVIOUS
<1>1. G[n] \in Seq(Words(a)) /\ w \in Words(a)
  BY <1>0, GivenUpToStep, ParamType
<1>2. GivenAt(a, Reading(a), m, y) = Times(H(d + 1), w)
  BY DEF GivenAt, Times, FlagsBefore
<1>3. SoFar(a, m, 0, y) = G[n] \o Times(H(d + 1), w)
  <2>1. SoFar(a, m, 0, y) = G[m]
    BY <1>0, SoFarType
  <2>2. G[m] = G[n] \o GivenAt(a, Reading(a), m, y)
    BY <1>0, GivenUpToStep
  <2> QED BY <1>2, <2>1, <2>2
<1>4. CASE y \notin TakesParam
  <2>1. w = a[m]
    BY <1>4 DEF Param
  <2>2. SoFar(a, m, 0, y) = SoFar(a, n, d + 1, y)
    BY <1>3, <2>1 DEF SoFar
  <2> QED BY <2>1, <2>2, SoFarName
<1>5. CASE y \in TakesParam
  <2>1. Hits(p, a[m], y, d) = {}
    BY <1>5 DEF Hits, FlagsBefore
  <2>2. H(d) = 0
    BY <2>1, FS_EmptySet
  <2>3. H(d + 1) = IF y = x THEN 1 ELSE 0
    BY <2>2, HitsCount
  <2>4. SoFar(a, n, d, y) = G[n]
    <3>1. SoFar(a, n, d, y) = G[n] \o Times(0, a[m])
      BY <2>2 DEF SoFar
    <3>2. Times(0, a[m]) = <<>>
      BY TimesFacts
    <3> QED BY <1>1, <3>1, <3>2, ConcatEmptySeq
  <2>5. /\ Times(0, w) = <<>> /\ Times(1, w) = Append(<<>>, w)
        /\ <<>> \in Seq(Words(a))
    <3>1. w \in Words(a) /\ 0 \in Nat
      BY <1>1
    <3> HIDE DEF w
    <3>2. \A k \in Nat : Times(0, w) = <<>> /\ Times(k + 1, w) = Append(Times(k, w), w)
      BY <3>1, TimesFacts
    <3>3. <<>> \in Seq(Words(a))
      BY EmptySeq
    <3>4. 0 + 1 = 1
      OBVIOUS
    <3> QED BY <3>2, <3>3, <3>4
  <2>6. CASE y = x
    <3>1. SoFar(a, m, 0, y) = G[n] \o Append(<<>>, w)
      BY <1>3, <2>3, <2>5, <2>6
    <3>2. G[n] \o <<>> = G[n]
      BY <1>1, ConcatEmptySeq
    <3> HIDE DEF G, w
    <3>3. G[n] \o Append(<<>>, w) = Append(G[n] \o <<>>, w)
      BY <1>1, <2>5, ConcatAppend
    <3>4. SoFar(a, m, 0, y) = Append(SoFar(a, n, d, y), w)
      BY <2>4, <3>1, <3>2, <3>3
    <3> QED BY <2>6, <3>4 DEF w
  <2>7. CASE y # x
    <3>1. SoFar(a, m, 0, y) = G[n] \o <<>>
      BY <1>3, <2>3, <2>5, <2>7
    <3>2. G[n] \o <<>> = G[n]
      BY <1>1, ConcatEmptySeq
    <3> QED BY <2>4, <2>7, <3>1, <3>2
  <2> QED BY <2>6, <2>7
<1> QED BY <1>4, <1>5

\* Any other word gives what GivenAt says.
LEMMA SoFarWord ==
  ASSUME NEW a \in Seq(Word), NEW n \in 0..Len(a) - 1, NEW x
  PROVE  SoFar(a, n + 1, 0, x) = SoFar(a, n, 0, x) \o GivenAt(a, Reading(a), n + 1, x)
<1>1. n \in 0..Len(a) /\ n + 1 \in 0..Len(a) /\ n + 1 \in 1..Len(a) /\ (n + 1) - 1 = n
  OBVIOUS
<1>2. \A i \in 0..Len(a) : SoFar(a, i, 0, x) = GivenUpTo(a, Reading(a), x)[i]
  BY SoFarType
<1> QED BY <1>1, <1>2, GivenUpToStep

-----------------------------------------------------------------------------

\* The first n words with the role of an argument of the parser p
Taken(f, n, p) == {i \in 1..n : f[i].role = "argument" /\ f[i].parser = p}

\* The parsers that the first n words lead through
Entered(f, n) == {f[i].parser : i \in 0..n}

\* The first n words lead to the parser p, with the counters proc and the active
\* sub-parsers act.
PlaceIs(f, n, p, proc, act) ==
  /\ f[n].parser = p
  /\ f[n].nth = proc[p]
  /\ act = Entered(f, n) \ {Main}
  /\ \A q \in Parser : proc[q] = Cardinality(Taken(f, n, q))

LEMMA TakenStep ==
  ASSUME NEW f, NEW n \in Nat, NEW q
  PROVE  /\ f[n + 1].role = "argument" /\ f[n + 1].parser = q =>
              Cardinality(Taken(f, n + 1, q)) = Cardinality(Taken(f, n, q)) + 1
         /\ ~(f[n + 1].role = "argument" /\ f[n + 1].parser = q) =>
              Taken(f, n + 1, q) = Taken(f, n, q)
<1>1. IsFiniteSet(Taken(f, n, q)) /\ n + 1 \notin Taken(f, n, q)
  <2>1. 1 \in Int /\ n \in Int
    OBVIOUS
  <2>2. IsFiniteSet(1..n) /\ Taken(f, n, q) \in SUBSET (1..n)
    BY <2>1, FS_Interval DEF Taken
  <2>3. n + 1 \notin 1..n
    OBVIOUS
  <2> QED BY <2>2, <2>3, FS_Subset
<1>2. CASE f[n + 1].role = "argument" /\ f[n + 1].parser = q
  <2>1. Taken(f, n + 1, q) = Taken(f, n, q) \cup {n + 1}
    BY <1>2 DEF Taken
  <2> QED BY <1>1, <1>2, <2>1, FS_AddElement
<1>3. CASE ~(f[n + 1].role = "argument" /\ f[n + 1].parser = q)
  BY <1>3 DEF Taken
<1> QED BY <1>2, <1>3

LEMMA EnteredStep ==
  ASSUME NEW f, NEW n \in Nat
  PROVE  /\ Entered(f, n + 1) = Entered(f, n) \cup {f[n + 1].parser}
         /\ f[n + 1].parser = f[n].parser => Entered(f, n + 1) = Entered(f, n)
<1>1. 0..n + 1 = (0..n) \cup {n + 1} /\ n \in 0..n
  OBVIOUS
<1>2. Entered(f, n + 1) = Entered(f, n) \cup {f[n + 1].parser}
  BY <1>1 DEF Entered
<1>3. f[n].parser \in Entered(f, n)
  BY <1>1 DEF Entered
<1> QED BY <1>2, <1>3

\* An option word, or the parameter of an option, leaves the place as it is.
LEMMA PlaceKept ==
  ASSUME NEW f, NEW n \in Nat, NEW p, NEW proc, NEW act, PlaceIs(f, n, p, proc, act),
         f[n + 1].role # "argument", f[n + 1].parser = f[n].parser,
         f[n + 1].nth = f[n].nth
  PROVE  PlaceIs(f, n + 1, p, proc, act)
<1>1. \A q : Taken(f, n + 1, q) = Taken(f, n, q)
  BY TakenStep
<1>2. Entered(f, n + 1) = Entered(f, n)
  BY EnteredStep
<1> QED BY <1>1, <1>2 DEF PlaceIs

\* An argument is counted with the parser it belongs to.
LEMMA PlaceCounted ==
  ASSUME NEW f, NEW n \in Nat, NEW p \in Parser, NEW proc \in [Parser -> Nat], NEW act,
         PlaceIs(f, n, p, proc, act),
         f[n + 1] = [role |-> "argument", parser |-> p, nth |-> f[n].nth + 1]
  PROVE  PlaceIs(f, n + 1, p, [proc EXCEPT ![p] = @ + 1], act)
<1>1. f[n + 1].role = "argument" /\ f[n + 1].parser = p /\ f[n + 1].nth = proc[p] + 1
  BY DEF PlaceIs
<1>2. Entered(f, n + 1) = Entered(f, n)
  <2>1. f[n + 1].parser = f[n].parser
    BY <1>1 DEF PlaceIs
  <2> QED BY <2>1, EnteredStep
<1>3. ASSUME NEW q \in Parser
      PROVE  [proc EXCEPT ![p] = @ + 1][q] = Cardinality(Taken(f, n + 1, q))
  <2>1. CASE q = p
    <3>1. Cardinality(Taken(f, n + 1, q)) = Cardinality(Taken(f, n, q)) + 1
      BY <1>1, <2>1, TakenStep
    <3> QED BY <2>1, <3>1 DEF PlaceIs
  <2>2. CASE q # p
    <3>1. Taken(f, n + 1, q) = Taken(f, n, q)
      BY <1>1, <2>2, TakenStep
    <3> QED BY <2>2, <3>1 DEF PlaceIs
  <2> QED BY <2>1, <2>2
<1>4. [proc EXCEPT ![p] = @ + 1][p] = proc[p] + 1
  OBVIOUS
<1> QED BY <1>1, <1>2, <1>3, <1>4 DEF PlaceIs

\* The name of a sub-parser leads into it.
LEMMA PlaceEntered ==
  ASSUME NEW f, NEW n \in Nat, NEW p, NEW proc, NEW act, NEW q \in Parser \ {Main},
         PlaceIs(f, n, p, proc, act), proc[q] = 0,
         f[n + 1] = [role |-> "sub", parser |-> q, nth |-> 0]
  PROVE  PlaceIs(f, n + 1, q, proc, act \cup {q})
<1>1. f[n + 1].role = "sub" /\ f[n + 1].parser = q /\ f[n + 1].nth = 0
  OBVIOUS
<1>2. \A r : Taken(f, n + 1, r) = Taken(f, n, r)
  BY <1>1, TakenStep
<1>3. Entered(f, n + 1) = Entered(f, n) \cup {q}
  <2>1. Entered(f, n + 1) = Entered(f, n) \cup {f[n + 1].parser}
    BY EnteredStep
  <2> QED BY <1>1, <2>1
<1> QED BY <1>1, <1>2, <1>3 DEF PlaceIs

-----------------------------------------------------------------------------

\* The flags g and the values v are what the first n words of a, and d names of
\* the next one, say.
StoreIs(a, n, d, g, v) ==
  \A x \in Item :
    IF x \in Silent THEN x \notin g /\ v[x] = Default[x]
    ELSE LET occ == SoFar(a, n, d, x) IN
           /\ v[x] = Outcome(x, occ)
           /\ x \in g <=> occ # <<>>
           /\ \A k \in 1..Len(occ) : <<x, occ[k]>> \notin Bad

\* A value that is stored continues the words given so far.
LEMMA OutcomeStep ==
  ASSUME NEW S, NEW occ \in Seq(S), NEW w \in S, NEW x \in Item,
         Default[x] \in Seq(S)
  PROVE  Outcome(x, Append(occ, w)) =
           IF x \in Repeats THEN Append(Outcome(x, occ), w) ELSE <<w>>
<1>1. /\ Append(occ, w) # <<>> /\ Len(Append(occ, w)) = Len(occ) + 1
      /\ Append(occ, w)[Len(occ) + 1] = w
  BY AppendProperties
<1>2. Default[x] \o Append(occ, w) = Append(Default[x] \o occ, w)
  <2>1. \A s \in Seq(S) : s \o Append(occ, w) = Append(s \o occ, w)
    BY ConcatAppend
  <2> QED BY <2>1
<1> DEFINE t == Append(occ, w)
<1>3. t # <<>> /\ t[Len(t)] = w
  BY <1>1
<1>4. Outcome(x, t) = IF x \in Repeats THEN Default[x] \o t ELSE <<w>>
  <2> HIDE DEF t
  <2> QED BY <1>3 DEF Outcome
<1> QED BY <1>2, <1>4 DEF Outcome

\* The conversion of w for the item x, when this is what the line gives
LEMMA StoreStep ==
  ASSUME NEW a \in Seq(Word), NEW n \in 0..Len(a), NEW d \in Nat,
         NEW m \in 0..Len(a), NEW e \in Nat, NEW g, NEW v \in [Item -> Seq(Word)],
         StoreIs(a, n, d, g, v),
         NEW x \in Item \ Silent, NEW w \in Word, <<x, w>> \notin Bad,
         Gives(a, n, d, m, e, x, w)
  PROVE  StoreIs(a, m, e, g \cup {x},
                 [v EXCEPT ![x] = IF x \in Repeats THEN Append(@, w) ELSE <<w>>])
<1> DEFINE u == [v EXCEPT ![x] = IF x \in Repeats THEN Append(@, w) ELSE <<w>>]
<1>1. ASSUME NEW y \in Item, y # x PROVE u[y] = v[y]
  BY <1>1
<1>2. u[x] = IF x \in Repeats THEN Append(v[x], w) ELSE <<w>>
  OBVIOUS
<1>3. ASSUME NEW y \in Item, y \in Silent
      PROVE  y \notin g \cup {x} /\ u[y] = Default[y]
  BY <1>1, <1>3 DEF StoreIs
<1>4. ASSUME NEW y \in Item \ Silent, y # x
      PROVE  LET occ == SoFar(a, m, e, y) IN
             /\ u[y] = Outcome(y, occ)
             /\ y \in g \cup {x} <=> occ # <<>>
             /\ \A k \in 1..Len(occ) : <<y, occ[k]>> \notin Bad
  <2>1. SoFar(a, m, e, y) = SoFar(a, n, d, y)
    BY <1>4 DEF Gives
  <2> HIDE DEF u
  <2> QED BY <1>1, <1>4, <2>1 DEF StoreIs
<1>5. LET occ == SoFar(a, m, e, x) IN
      /\ u[x] = Outcome(x, occ)
      /\ x \in g \cup {x} <=> occ # <<>>
      /\ \A k \in 1..Len(occ) : <<x, occ[k]>> \notin Bad
  <2> DEFINE old == SoFar(a, n, d, x)
  <2>1. SoFar(a, m, e, x) = Append(old, w)
    BY DEF Gives
  <2>2. old \in Seq(Words(a)) /\ w \in Words(a)
    BY SoFarType DEF Words
  <2>3. Default[x] \in Seq(Words(a))
    <3>1. Default[x] \in Seq(Word) /\ Word \subseteq Words(a)
      BY WordAssumption DEF Words
    <3> QED BY <3>1, SeqMonotonic
  <2>4. v[x] = Outcome(x, old) /\ \A k \in 1..Len(old) : <<x, old[k]>> \notin Bad
    BY DEF StoreIs
  <2> HIDE DEF old, u
  <2>5. u[x] = Outcome(x, Append(old, w))
    BY <1>2, <2>2, <2>3, <2>4, OutcomeStep
  <2>6. /\ Append(old, w) # <<>> /\ Len(Append(old, w)) = Len(old) + 1
        /\ \A k \in 1..Len(old) : Append(old, w)[k] = old[k]
        /\ Append(old, w)[Len(old) + 1] = w
        /\ Len(old) \in Nat
    BY <2>2, AppendProperties
  <2>7. ASSUME NEW k \in 1..Len(Append(old, w))
        PROVE  <<x, Append(old, w)[k]>> \notin Bad
    <3>1. CASE k = Len(old) + 1
      BY <2>6, <3>1
    <3>2. CASE k # Len(old) + 1
      <4>1. k \in 1..Len(old)
        BY <2>6, <3>2
      <4> QED BY <2>4, <2>6, <4>1
    <3> QED BY <3>1, <3>2
  <2> QED BY <2>1, <2>5, <2>6, <2>7
<1> HIDE DEF u
<1>6. StoreIs(a, m, e, g \cup {x}, u)
  BY <1>3, <1>4, <1>5 DEF StoreIs
<1> QED BY <1>6 DEF u

\* Nothing is converted, and the words done give nothing to anybody who is told.
LEMMA StoreKept ==
  ASSUME NEW a, NEW n, NEW d, NEW m, NEW e, NEW g, NEW v, StoreIs(a, n, d, g, v),
         \A y \in Item \ Silent : SoFar(a, m, e, y) = SoFar(a, n, d, y)
  PROVE  StoreIs(a, m, e, g, v)
BY DEF StoreIs

-----------------------------------------------------------------------------

(***************************************************************************)
(* The inductive invariant: while the first call runs, the parser is where *)
(* the words done so far lead, and has stored what they say.               *)
(***************************************************************************)
WordsDone == pos - 1
NamesDone == IF rest = <<>> THEN 0 ELSE Len(Lex[args[pos]].names) - Len(rest)

\* The first d names of the option word w are flags of the parser p, and r are
\* the others.
FlagsDone(w, d, r, p) ==
  LET ns == Lex[w].names IN
    /\ Lex[w].shape = "option"
    /\ d \in 1..Len(ns) - 1
    /\ r = SubSeq(ns, d + 1, Len(ns))
    /\ \A k \in 1..d : ns[k] \in DOMAIN Opt[p] /\ Opt[p][ns[k]] \notin TakesParam

InLine ==
  /\ Reading(args)[WordsDone].role \notin {"bad", "awaits"}
  /\ PlaceIs(Reading(args), WordsDone, cur, processed, active)
  /\ StoreIs(args, WordsDone, NamesDone, given, value)
  /\ rest # <<>> => FlagsDone(args[pos], NamesDone, rest, cur)
  /\ phase = "validate" => /\ checks
                           /\ pos = Len(args) + 1
                           /\ rest = <<>>
                           /\ todo \subseteq {Main} \cup active

Fresh ==
  /\ phase = "idle"
  /\ given = {} /\ value = Default /\ active = {}
  /\ processed = [p \in Parser |-> 0]

LineInv ==
  /\ calls = 0 => Fresh
  /\ (calls = 1 /\ phase # "idle") => InLine
  /\ ValuesOfCommandLine
  /\ VerdictOfCommandLine

-----------------------------------------------------------------------------

\* The iterator stands on a word.
LEMMA WordFacts ==
  ASSUME TypeOK, InLine, phase = "parse", pos <= Len(args)
  PROVE  /\ args \in Seq(Word) /\ args[pos] \in Word /\ Len(args) \in Nat
         /\ pos \in 1..Len(args)
         /\ WordsDone \in 0..Len(args) - 1
         /\ WordsDone \in 0..Len(args)
         /\ WordsDone + 1 = pos
         /\ Reading(args)[WordsDone] \in Place
         /\ Reading(args)[WordsDone].parser = cur
         /\ Reading(args)[WordsDone].nth = processed[cur]
         /\ Reading(args)[pos] \in Place
         /\ Reading(args)[pos] = ReadWord(args, pos, Reading(args)[WordsDone])
<1>1. /\ args \in Seq(Word) /\ args[pos] \in Word /\ Len(args) \in Nat
      /\ pos \in 1..Len(args) /\ WordsDone \in 0..Len(args) - 1 /\ WordsDone \in 0..Len(args)
      /\ WordsDone + 1 = pos /\ pos \in 0..Len(args)
  BY DEF TypeOK, WordsDone
<1>2. Reading(args)[WordsDone] \in Place /\ Reading(args)[pos] \in Place
  BY <1>1, ReadingStep
<1>3. Reading(args)[pos] = ReadWord(args, pos, Reading(args)[pos - 1])
  BY <1>1, ReadingStep
<1> QED BY <1>1, <1>2, <1>3 DEF InLine, PlaceIs, WordsDone

\* The names of an option word that are done and those that are left
LEMMA NamesFacts ==
  ASSUME TypeOK, InLine, AtWord("option")
  PROVE  LET ns == Lex[args[pos]].names
             d == NamesDone
         IN  /\ ns \in Seq(Name) /\ Len(ns) \in Nat
             /\ d \in 0..Len(ns) - 1 /\ d \in Nat
             /\ Head(Names) = ns[d + 1]
             /\ IsLast <=> d + 1 = Len(ns)
             /\ Len(Tail(Names)) = Len(ns) - (d + 1)
             /\ Tail(Names) = SubSeq(ns, d + 2, Len(ns))
             /\ \A k \in 1..d : ns[k] \in DOMAIN Opt[cur] /\ Opt[cur][ns[k]] \notin TakesParam
<1> DEFINE ns == Lex[args[pos]].names
           d == NamesDone
<1> SUFFICES /\ ns \in Seq(Name) /\ Len(ns) \in Nat
             /\ d \in 0..Len(ns) - 1 /\ d \in Nat
             /\ Head(Names) = ns[d + 1]
             /\ IsLast <=> d + 1 = Len(ns)
             /\ Len(Tail(Names)) = Len(ns) - (d + 1)
             /\ Tail(Names) = SubSeq(ns, d + 2, Len(ns))
             /\ \A k \in 1..d : ns[k] \in DOMAIN Opt[cur] /\ Opt[cur][ns[k]] \notin TakesParam
  OBVIOUS
<1>1. Lex[args[pos]] \in Lexeme /\ ns # <<>>
  BY WordAssumption DEF AtWord, TypeOK
<1>2. ns \in Seq(Name) /\ Len(ns) \in Nat \ {0}
  BY <1>1 DEF Lexeme
<1>3. CASE rest = <<>>
  <2>1. d = 0 /\ Names = ns
    BY <1>3 DEF NamesDone, Names
  <2>2. Head(ns) = ns[1] /\ Len(Tail(ns)) = Len(ns) - 1 /\ Tail(ns) = SubSeq(ns, 2, Len(ns))
    BY <1>1, <1>2
  <2> HIDE DEF ns, d
  <2> QED BY <1>2, <2>1, <2>2 DEF IsLast
<1>4. CASE rest # <<>>
  <2>1. /\ d \in 1..Len(ns) - 1
        /\ rest = SubSeq(ns, d + 1, Len(ns))
        /\ \A k \in 1..d : ns[k] \in DOMAIN Opt[cur] /\ Opt[cur][ns[k]] \notin TakesParam
    BY <1>4 DEF InLine, FlagsDone
  <2>2. Names = rest
    BY <1>4 DEF Names
  <2> HIDE DEF ns, d
  <2>3. /\ Len(rest) = Len(ns) - d
        /\ \A i \in 1..Len(ns) - d : rest[i] = ns[d + i]
        /\ rest \in Seq(Name)
    BY <1>2, <2>1
  <2>4. /\ Head(rest) = ns[d + 1] /\ Len(Tail(rest)) = Len(ns) - (d + 1)
        /\ \A i \in 1..Len(ns) - (d + 1) : Tail(rest)[i] = ns[d + 1 + i]
        /\ Tail(rest) \in Seq(Name)
    BY <1>2, <1>4, <2>1, <2>3
  <2>5. /\ SubSeq(ns, d + 2, Len(ns)) \in Seq(Name)
        /\ Len(SubSeq(ns, d + 2, Len(ns))) = Len(ns) - (d + 1)
        /\ \A i \in 1..Len(ns) - (d + 1) : SubSeq(ns, d + 2, Len(ns))[i] = ns[d + 1 + i]
    BY <1>2, <2>1
  <2>6. Tail(rest) = SubSeq(ns, d + 2, Len(ns))
    BY <2>4, <2>5, SeqEqual
  <2>7. d \in 0..Len(ns) - 1 /\ d \in Nat /\ (Len(rest) = 1 <=> d + 1 = Len(ns))
    <3>1. Len(ns) \in Nat /\ d \in 1..Len(ns) - 1 /\ Len(rest) = Len(ns) - d
      BY <1>2, <2>1, <2>3
    <3> QED BY ONLY <3>1
  <2> QED BY ONLY <1>2, <2>1, <2>2, <2>4, <2>6, <2>7 DEF IsLast
<1> QED BY <1>3, <1>4

\* The reading of an option word whose last name is about to be handled
LEMMA LastNameRead ==
  ASSUME TypeOK, InLine, AtWord("option"), Known, ~ParamMismatch, IsLast
  PROVE  LET b == Reading(args)[WordsDone]
             c == Reading(args)[pos]
         IN  /\ c.parser = cur /\ c.nth = b.nth
             /\ c.role = IF Current \in TakesParam /\ ~WithEquals THEN "awaits" ELSE "option"
             /\ Current \in TakesParam /\ ~WithEquals => pos < Len(args)
<1> DEFINE ns == Lex[args[pos]].names
           d == NamesDone
           b == Reading(args)[WordsDone]
<1>1. /\ Len(ns) \in Nat /\ d \in 0..Len(ns) - 1 /\ d + 1 = Len(ns)
      /\ Head(Names) = ns[Len(ns)]
      /\ \A k \in 1..d : ns[k] \in DOMAIN Opt[cur] /\ Opt[cur][ns[k]] \notin TakesParam
  BY NamesFacts
<1>2. /\ Reading(args)[pos] = ReadWord(args, pos, b)
      /\ b \in Place /\ b.parser = cur /\ b.role \notin {"bad", "awaits"}
      /\ pos \in 1..Len(args) /\ Len(args) \in Nat
  BY WordFacts DEF InLine, AtWord
<1>3. Current = Opt[cur][ns[Len(ns)]] /\ ns[Len(ns)] \in DOMAIN Opt[cur]
  BY <1>1 DEF Current, Known
<1>4. \A k \in 1..Len(ns) : ns[k] \in DOMAIN Opt[cur]
  BY <1>1, <1>3
<1>5. \A k \in 1..Len(ns) - 1 : Opt[cur][ns[k]] \notin TakesParam
  BY <1>1
<1>6. WithEquals <=> Lex[args[pos]].eq
  BY DEF WithEquals
<1> HIDE DEF ns, b
<1>7. ~Malformed(cur, args[pos])
  BY <1>3, <1>4, <1>5, <1>6 DEF Malformed, ParamMismatch, ns
<1>8. Awaits(cur, args[pos]) <=> Current \in TakesParam /\ ~WithEquals
  BY <1>3, <1>6 DEF Awaits, ns
<1>9. Awaits(cur, args[pos]) => pos < Len(args)
  BY <1>2, <1>8 DEF ParamMismatch
<1>10. Reading(args)[pos] =
         [b EXCEPT !.role = IF Awaits(cur, args[pos]) THEN "awaits" ELSE "option"]
  BY <1>2, <1>7, <1>9 DEF ReadWord, AtWord
<1> QED BY <1>2, <1>8, <1>9, <1>10 DEF Place, b

\* The next parts of a line that is read on
LEMMA NewLine ==
  ASSUME NEW n \in Nat, NEW d \in Nat,
         calls' = 1, phase' = "parse", args' = args,
         pos' = n + 1, NamesDone' = d,
         Reading(args)[n].role \notin {"bad", "awaits"},
         PlaceIs(Reading(args), n, cur', processed', active'),
         StoreIs(args, n, d, given', value'),
         rest' # <<>> => FlagsDone(args[n + 1], d, rest', cur')
  PROVE  LineInv'
<1>1. WordsDone' = n
  BY DEF WordsDone
<1>2. InLine'
  BY <1>1 DEF InLine, PlaceIs, StoreIs, FlagsDone
<1>3. ValuesOfCommandLine' /\ VerdictOfCommandLine'
  BY DEF ValuesOfCommandLine, VerdictOfCommandLine, FirstCallEnded
<1> QED BY <1>2, <1>3 DEF LineInv

-----------------------------------------------------------------------------

LEMMA OptionIsTold ==
  ASSUME TypeOK, InLine, AtWord("option"), Known
  PROVE  Current \in Item \ Silent
BY OptionFacts, ItemAssumption DEF Item, Silent

\* A letter of a cluster, or a long flag, has been handled.
LEMMA FlagConverted ==
  ASSUME TypeOK, InLine, calls' = 1, AtWord("option"), Known, Current \notin TakesParam,
         ~ParamMismatch, Convert(Current, args[pos]),
         Continue(IF IsLast THEN pos + 1 ELSE pos, Tail(Names)),
         UNCHANGED <<active, processed, cur>>
  PROVE  LineInv'
<1> DEFINE ns == Lex[args[pos]].names
           n == WordsDone
           d == NamesDone
           x == Current
           w == args[pos]
<1>1. /\ args \in Seq(Word) /\ w \in Word /\ Len(args) \in Nat
      /\ n \in 0..Len(args) - 1 /\ n \in 0..Len(args) /\ n + 1 = pos
      /\ Reading(args)[n].parser = cur
  BY WordFacts DEF AtWord
<1>2. /\ ns \in Seq(Name) /\ Len(ns) \in Nat
      /\ d \in 0..Len(ns) - 1 /\ d \in Nat
      /\ Head(Names) = ns[d + 1]
      /\ IsLast <=> d + 1 = Len(ns)
      /\ Len(Tail(Names)) = Len(ns) - (d + 1)
      /\ Tail(Names) = SubSeq(ns, d + 2, Len(ns))
      /\ \A k \in 1..d : ns[k] \in DOMAIN Opt[cur] /\ Opt[cur][ns[k]] \notin TakesParam
  BY NamesFacts
<1>3. x = Opt[cur][ns[d + 1]] /\ ns[d + 1] \in DOMAIN Opt[cur] /\ x \notin TakesParam
  BY <1>2 DEF Current, Known
<1>4. x \in Item \ Silent /\ <<x, w>> \notin Bad
  BY OptionIsTold DEF Convert
<1>5. /\ given' = given \cup {x}
      /\ value' = [value EXCEPT ![x] = IF x \in Repeats THEN Append(@, w) ELSE <<w>>]
      /\ value \in [Item -> Seq(Word)]
  BY DEF Convert, Stored, TypeOK
<1>6. /\ StoreIs(args, n, d, given, value)
      /\ PlaceIs(Reading(args), n, cur, processed, active)
      /\ Reading(args)[n].role \notin {"bad", "awaits"}
  BY DEF InLine
<1>7. /\ args' = args /\ phase' = "parse" /\ rest' = Tail(Names)
      /\ cur' = cur /\ processed' = processed /\ active' = active
      /\ pos' = IF IsLast THEN pos + 1 ELSE pos
  BY DEF Continue, AtWord
<1>8. Tail(Names) = <<>> <=> IsLast
  <2>1. Names \in Seq(Name) /\ Names # <<>>
    BY OptionFacts
  <2> QED BY <2>1, TailFacts DEF IsLast
<1> HIDE DEF n, d, x
<1>9. CASE ~IsLast
  <2>1. n + 1 \in Nat /\ d + 1 \in Nat /\ d + 1 \in 1..Len(ns) - 1 /\ n \in Nat
    BY <1>1, <1>2, <1>9
  <2>2. \A y \in Item \ Silent :
          SoFar(args, n, d + 1, y) = IF y = x THEN Append(SoFar(args, n, d, y), w)
                                              ELSE SoFar(args, n, d, y)
    <3>1. \A y : SoFar(args, n, d + 1, y) =
                   IF Opt[Reading(args)[n].parser][Lex[args[n + 1]].names[d + 1]] = y
                   THEN Append(SoFar(args, n, d, y), args[n + 1]) ELSE SoFar(args, n, d, y)
      BY <1>1, <1>2, SoFarName
    <3> QED BY <1>1, <1>3, <3>1
  <2>3. StoreIs(args, n, d + 1, given', value')
    <3>1. Gives(args, n, d, n, d + 1, x, w)
      BY <2>2 DEF Gives
    <3> HIDE DEF w
    <3> QED BY <1>1, <1>2, <1>4, <1>5, <1>6, <2>1, <3>1, StoreStep
  <2>4. NamesDone' = d + 1
    <3>1. args' = args /\ pos' = pos /\ rest' # <<>>
      BY <1>7, <1>8, <1>9
    <3>2. NamesDone' = Len(ns) - Len(rest')
      BY <3>1 DEF NamesDone
    <3>3. Len(rest') = Len(ns) - (d + 1)
      BY <1>2, <1>7
    <3>4. \A k \in Nat : k - (k - (d + 1)) = d + 1
      BY <1>2
    <3> QED BY <1>2, <3>2, <3>3, <3>4
  <2>5. FlagsDone(args[n + 1], d + 1, rest', cur')
    <3>1. \A k \in 1..d + 1 : ns[k] \in DOMAIN Opt[cur] /\ Opt[cur][ns[k]] \notin TakesParam
      BY <1>2, <1>3
    <3>2. (d + 1) + 1 = d + 2
      BY <1>2
    <3> QED BY <1>1, <1>2, <1>7, <2>1, <3>1, <3>2 DEF FlagsDone, AtWord
  <2> QED BY <1>1, <1>6, <1>7, <1>9, <2>1, <2>3, <2>4, <2>5, NewLine
<1>10. CASE IsLast
  <2>1. pos \in Nat /\ n \in Nat /\ pos \in 0..Len(args) /\ d + 1 = Len(ns)
    BY <1>1, <1>2, <1>10
  <2>2. /\ Reading(args)[pos].parser = cur
        /\ Reading(args)[pos].nth = Reading(args)[n].nth
        /\ Reading(args)[pos].role = "option"
    BY <1>3, <1>10, LastNameRead DEF n, x
  <2>3. Gives(args, n, d, pos, 0, x, w)
    <3>1. Reading(args)[pos].role \in {"option", "awaits"}
      BY <2>2
    <3>2. FlagsBefore(args, pos, d, cur)
      BY <1>2, <2>1 DEF FlagsBefore
    <3>3. Param(args, pos, x) = w
      BY <1>3 DEF Param
    <3> HIDE DEF w
    <3> QED BY <1>1, <1>2, <1>3, <2>1, <2>2, <3>1, <3>2, <3>3, SoFarLast
  <2>4. StoreIs(args, pos, 0, given', value')
    <3> HIDE DEF w
    <3>1. 0 \in Nat
      OBVIOUS
    <3> QED BY <1>1, <1>2, <1>4, <1>5, <1>6, <2>1, <2>3, <3>1, StoreStep
  <2>5. PlaceIs(Reading(args), pos, cur', processed', active')
    <3>1. PlaceIs(Reading(args), n + 1, cur, processed, active)
      BY <1>1, <1>6, <2>1, <2>2, PlaceKept
    <3> QED BY <1>1, <1>7, <3>1
  <2>6. rest' = <<>> /\ NamesDone' = 0 /\ pos' = pos + 1
    BY <1>7, <1>8, <1>10 DEF NamesDone
  <2>7. Reading(args)[pos].role \notin {"bad", "awaits"} /\ 0 \in Nat
    BY <2>2
  <2> QED BY <1>7, <2>1, <2>4, <2>5, <2>6, <2>7, NewLine
<1> QED BY <1>9, <1>10

\* An option with its parameter, in the same word or the next, has been handled.
LEMMA ParamConverted ==
  ASSUME TypeOK, InLine, calls' = 1, AtWord("option"), Known, Current \in TakesParam,
         ~ParamMismatch, NEW w \in Word, Convert(Current, w),
         w = IF WithEquals THEN Lex[args[pos]].param ELSE args[pos + 1],
         Continue(IF WithEquals THEN pos + 1 ELSE pos + 2, <<>>),
         UNCHANGED <<active, processed, cur>>
  PROVE  LineInv'
<1> DEFINE ns == Lex[args[pos]].names
           n == WordsDone
           d == NamesDone
           x == Current
<1>0. IsLast
  BY DEF ParamMismatch
<1>1. /\ args \in Seq(Word) /\ Len(args) \in Nat
      /\ n \in 0..Len(args) - 1 /\ n \in 0..Len(args) /\ n + 1 = pos
      /\ Reading(args)[n].parser = cur /\ pos \in 1..Len(args)
  BY WordFacts DEF AtWord
<1>2. /\ Len(ns) \in Nat /\ d \in 0..Len(ns) - 1 /\ d \in Nat
      /\ Head(Names) = ns[d + 1] /\ d + 1 = Len(ns)
      /\ \A k \in 1..d : Opt[cur][ns[k]] \notin TakesParam
  BY <1>0, NamesFacts
<1>3. x = Opt[cur][ns[d + 1]]
  BY <1>2 DEF Current
<1>4. x \in Item \ Silent /\ <<x, w>> \notin Bad
  BY OptionIsTold DEF Convert
<1>5. /\ given' = given \cup {x}
      /\ value' = [value EXCEPT ![x] = IF x \in Repeats THEN Append(@, w) ELSE <<w>>]
      /\ value \in [Item -> Seq(Word)]
  BY DEF Convert, Stored, TypeOK
<1>6. /\ StoreIs(args, n, d, given, value)
      /\ PlaceIs(Reading(args), n, cur, processed, active)
  BY DEF InLine
<1>7. /\ args' = args /\ phase' = "parse" /\ rest' = <<>> /\ NamesDone' = 0
      /\ cur' = cur /\ processed' = processed /\ active' = active
      /\ pos' = IF WithEquals THEN pos + 1 ELSE pos + 2
  BY DEF Continue, AtWord, NamesDone
<1>8. /\ Reading(args)[pos].parser = cur
      /\ Reading(args)[pos].nth = Reading(args)[n].nth
      /\ Reading(args)[pos].role = IF WithEquals THEN "option" ELSE "awaits"
      /\ ~WithEquals => pos < Len(args)
  BY <1>0, LastNameRead DEF n, x
<1>9. pos \in Nat /\ n \in Nat /\ pos \in 0..Len(args) /\ 0 \in Nat
  BY <1>1
<1> HIDE DEF n, d, x
<1>10. Gives(args, n, d, pos, 0, x, w)
  <2>1. Param(args, pos, x) = w
    BY <1>0 DEF Param, WithEquals, x
  <2>2. Reading(args)[pos].role \in {"option", "awaits"}
    BY <1>8
  <2>3. FlagsBefore(args, pos, d, cur)
    BY <1>2 DEF FlagsBefore
  <2> QED BY <1>1, <1>2, <1>3, <1>8, <2>1, <2>2, <2>3, SoFarLast
<1>11. StoreIs(args, pos, 0, given', value')
  BY <1>1, <1>2, <1>4, <1>5, <1>6, <1>9, <1>10, StoreStep
<1>12. PlaceIs(Reading(args), pos, cur, processed, active)
  <2>1. PlaceIs(Reading(args), n + 1, cur, processed, active)
    BY <1>1, <1>6, <1>8, <1>9, PlaceKept
  <2> QED BY <1>1, <2>1
<1>13. CASE WithEquals
  <2>1. pos' = pos + 1 /\ Reading(args)[pos].role \notin {"bad", "awaits"}
    BY <1>7, <1>8, <1>13
  <2> QED BY <1>7, <1>9, <1>11, <1>12, <2>1, NewLine
<1>14. CASE ~WithEquals
  <2> DEFINE m == pos + 1
  <2>1. /\ m \in 1..Len(args) /\ m \in 0..Len(args) /\ m \in Nat /\ m - 1 = pos
        /\ pos \in 0..Len(args) - 1
    BY <1>1, <1>8, <1>14
  <2>2. Reading(args)[m] = ReadWord(args, m, Reading(args)[pos])
        /\ Reading(args)[pos] \in Place
    <3> HIDE DEF m
    <3> QED BY <1>1, <1>9, <2>1, ReadingStep
  <2>3. Reading(args)[m] = [Reading(args)[pos] EXCEPT !.role = "param"]
    BY <1>8, <1>14, <2>2 DEF ReadWord
  <2>4. /\ Reading(args)[m].role = "param" /\ Reading(args)[m].parser = cur
        /\ Reading(args)[m].nth = Reading(args)[pos].nth
    BY <1>8, <2>2, <2>3 DEF Place
  <2>5. \A y \in Item \ Silent : SoFar(args, m, 0, y) = SoFar(args, pos, 0, y)
    <3>1. \A y : GivenAt(args, Reading(args), m, y) = <<>>
      BY <2>4 DEF GivenAt
    <3>2. \A y : SoFar(args, m, 0, y) = SoFar(args, pos, 0, y) \o <<>>
      BY <1>1, <2>1, <3>1, SoFarWord
    <3>3. \A y : SoFar(args, pos, 0, y) \in Seq(Words(args))
      BY <1>1, <1>9, SoFarType
    <3>4. \A y : SoFar(args, pos, 0, y) \o <<>> = SoFar(args, pos, 0, y)
      BY <3>3, ConcatEmptySeq
    <3> QED BY <3>2, <3>4
  <2>6. StoreIs(args, m, 0, given', value')
    BY <1>11, <2>5, StoreKept
  <2>7. PlaceIs(Reading(args), m, cur, processed, active)
    BY <1>8, <1>9, <1>12, <2>4, PlaceKept
  <2>8. pos' = m + 1 /\ Reading(args)[m].role \notin {"bad", "awaits"}
    BY <1>1, <1>7, <1>14, <2>4
  <2> HIDE DEF m
  <2> QED BY <1>7, <1>9, <2>1, <2>6, <2>7, <2>8, NewLine
<1> QED BY <1>13, <1>14
-----------------------------------------------------------------------------

\* A word that is not an option is never within a cluster.
LEMMA AtArgument ==
  ASSUME TypeOK, InLine, AtWord("argument")
  PROVE  NamesDone = 0
BY DEF InLine, FlagsDone, AtWord, NamesDone

\* The reading of a word that an argument takes
LEMMA ArgumentRead ==
  ASSUME TypeOK, InLine, AtWord("argument"), HasSlot(cur)
  PROVE  /\ Reading(args)[pos] =
              [role |-> "argument", parser |-> cur, nth |-> Reading(args)[WordsDone].nth + 1]
         /\ \A y : GivenAt(args, Reading(args), pos, y) =
                     IF Arg[cur][Slot(cur)] = y THEN <<args[pos]>> ELSE <<>>
<1> DEFINE b == Reading(args)[WordsDone]
<1>1. /\ Reading(args)[pos] = ReadWord(args, pos, b)
      /\ b \in Place /\ b.parser = cur /\ b.role \notin {"bad", "awaits"}
      /\ b.nth = processed[cur]
  BY WordFacts DEF InLine, AtWord
<1>2. Lex[args[pos]].shape = "argument"
  BY DEF AtWord
<1>3. b.nth < NumArgs(cur) \/ IsVariadic(cur)
  BY <1>1 DEF HasSlot
<1> HIDE DEF b
<1>4. Reading(args)[pos] = [role |-> "argument", parser |-> cur, nth |-> b.nth + 1]
  BY <1>1, <1>2, <1>3 DEF ReadWord
<1>5. Slot(cur) = IF b.nth + 1 < NumArgs(cur) THEN b.nth + 1 ELSE NumArgs(cur)
  <2>1. NumArgs(cur) \in Nat /\ processed[cur] \in Nat
    BY ItemAssumption DEF NumArgs, TypeOK
  <2> QED BY <1>1, <2>1 DEF Slot
<1>6. ASSUME NEW y
      PROVE  GivenAt(args, Reading(args), pos, y) =
               IF Arg[cur][Slot(cur)] = y THEN <<args[pos]>> ELSE <<>>
  BY <1>4, <1>5 DEF GivenAt
<1> QED BY <1>4, <1>6 DEF b

\* What the argument takes
LEMMA ArgumentGives ==
  ASSUME TypeOK, InLine, AtWord("argument"), HasSlot(cur)
  PROVE  Gives(args, WordsDone, 0, pos, 0, Arg[cur][Slot(cur)], args[pos])
<1> DEFINE n == WordsDone
           w == args[pos]
           x == Arg[cur][Slot(cur)]
<1>1. /\ args \in Seq(Word) /\ w \in Word /\ n \in 0..Len(args) - 1 /\ n \in 0..Len(args)
      /\ n + 1 = pos
  BY WordFacts DEF AtWord
<1>2. \A y : GivenAt(args, Reading(args), pos, y) = IF x = y THEN <<w>> ELSE <<>>
  BY ArgumentRead
<1> HIDE DEF n, w, x
<1> SUFFICES ASSUME NEW y
             PROVE  SoFar(args, pos, 0, y) =
                      IF y = x THEN Append(SoFar(args, n, 0, y), w) ELSE SoFar(args, n, 0, y)
  BY DEF Gives, n, w, x
<1>3. SoFar(args, n + 1, 0, y) = SoFar(args, n, 0, y) \o GivenAt(args, Reading(args), n + 1, y)
  BY <1>1, SoFarWord
<1>4. SoFar(args, pos, 0, y) = SoFar(args, n, 0, y) \o GivenAt(args, Reading(args), pos, y)
  BY <1>1, <1>3
<1>5. SoFar(args, n, 0, y) \in Seq(Words(args)) /\ w \in Words(args)
  <2>1. \A d \in Nat : SoFar(args, n, d, y) \in Seq(Words(args))
    BY <1>1, SoFarType
  <2> QED BY <1>1, <2>1 DEF Words
<1>6. /\ SoFar(args, n, 0, y) \o <<>> = SoFar(args, n, 0, y)
      /\ SoFar(args, n, 0, y) \o <<w>> = Append(SoFar(args, n, 0, y), w)
  BY <1>5, ConcatEmptySeq, AppendIsConcat
<1> QED BY <1>2, <1>4, <1>6

\* An argument has been processed.
LEMMA ArgumentTaken ==
  ASSUME TypeOK, InLine, calls' = 1, AtWord("argument"), HasSlot(cur),
         IF Arg[cur][Slot(cur)] \in Hooked THEN UNCHANGED store
         ELSE Convert(Arg[cur][Slot(cur)], args[pos]),
         processed' = [processed EXCEPT ![cur] = @ + 1],
         Continue(pos + 1, <<>>),
         UNCHANGED <<active, cur>>
  PROVE  LineInv'
<1> DEFINE n == WordsDone
           w == args[pos]
           x == Arg[cur][Slot(cur)]
           f == Reading(args)
<1>1. /\ args \in Seq(Word) /\ w \in Word /\ n \in 0..Len(args) /\ n \in Nat
      /\ pos \in 0..Len(args) /\ pos \in Nat /\ n + 1 = pos /\ 0 \in Nat
  BY WordFacts DEF AtWord
<1>2. cur \in Parser /\ processed \in [Parser -> Nat] /\ value \in [Item -> Seq(Word)]
  BY DEF TypeOK
<1>3. Gives(args, n, 0, pos, 0, x, w)
  BY ArgumentGives
<1>4. f[pos] = [role |-> "argument", parser |-> cur, nth |-> f[n].nth + 1]
  BY ArgumentRead
<1>5. StoreIs(args, n, 0, given, value) /\ PlaceIs(f, n, cur, processed, active)
  BY AtArgument DEF InLine
<1>6. x \in Argument /\ x \in Item
  BY <1>2, SlotFacts DEF Item
<1> HIDE DEF n, w, x, f
<1>7. StoreIs(args, pos, 0, given', value')
  <2>1. CASE x \in Hooked
    <3>1. \A y \in Item \ Silent : SoFar(args, pos, 0, y) = SoFar(args, n, 0, y)
      BY <1>3, <1>6, <2>1 DEF Gives, Silent
    <3>2. given' = given /\ value' = value
      BY <2>1 DEF store, x
    <3> QED BY <1>5, <3>1, <3>2, StoreKept
  <2>2. CASE x \notin Hooked
    <3>1. /\ <<x, w>> \notin Bad /\ given' = given \cup {x}
          /\ value' = [value EXCEPT ![x] = IF x \in Repeats THEN Append(@, w) ELSE <<w>>]
      BY <2>2 DEF Convert, Stored, x, w
    <3>2. x \in Item \ Silent
      BY <1>6, <2>2 DEF Silent
    <3> QED BY <1>1, <1>2, <1>3, <1>5, <3>1, <3>2, StoreStep
  <2> QED BY <2>1, <2>2
<1>8. PlaceIs(f, pos, cur', processed', active')
  <2>1. PlaceIs(f, n + 1, cur, [processed EXCEPT ![cur] = @ + 1], active)
    BY <1>1, <1>2, <1>4, <1>5, PlaceCounted
  <2> QED BY <1>1, <2>1
<1>9. f[pos].role \notin {"bad", "awaits"}
  BY <1>4
<1>10. /\ phase' = "parse" /\ args' = args /\ pos' = pos + 1 /\ rest' = <<>>
       /\ NamesDone' = 0
  BY DEF Continue, AtWord, NamesDone
<1> QED BY <1>1, <1>7, <1>8, <1>9, <1>10, NewLine DEF f

\* A sub-parser has been entered.
LEMMA SubParserEntered ==
  ASSUME IInv, BranchInv, InLine, calls = 1, SelectSubParser
  PROVE  LineInv'
<1> DEFINE n == WordsDone
           f == Reading(args)
           b == f[n]
           q == Sub[cur][args[pos]]
<1>0. TypeOK /\ AtWord("argument") /\ ~HasSlot(cur) /\ args[pos] \in DOMAIN Sub[cur]
  BY DEF IInv, SelectSubParser
<1>1. /\ args \in Seq(Word) /\ n \in 0..Len(args) - 1 /\ n \in 0..Len(args) /\ n \in Nat
      /\ pos \in 0..Len(args) /\ pos \in Nat /\ n + 1 = pos /\ 0 \in Nat
      /\ b \in Place /\ b.parser = cur /\ b.nth = processed[cur]
      /\ f[pos] = ReadWord(args, pos, b)
  BY <1>0, WordFacts DEF AtWord
<1>2. cur \in Parser /\ q \in Parser \ {Main} /\ q \in Children(cur)
  BY <1>0, TreeAssumption DEF TypeOK, Children
<1>3. /\ phase' = "parse" /\ args' = args /\ pos' = pos + 1 /\ rest' = <<>>
      /\ calls' = 1 /\ NamesDone' = 0
      /\ cur' = q /\ active' = active \cup {q}
      /\ given' = given /\ value' = value /\ processed' = processed
  BY DEF SelectSubParser, Enter, Continue, AtWord, NamesDone
<1>4. processed[q] = 0
  \* only one branch is active, so q is not, and nothing has touched it
  <2>1. Children(cur) \cap active = {}
    BY DEF BranchInv, OneActiveBranch
  <2> QED BY <1>2, <2>1 DEF IInv, UntouchedUnlessActive
<1>5. f[pos] = [role |-> "sub", parser |-> q, nth |-> 0]
  <2>1. b.role \notin {"bad", "awaits"} /\ Lex[args[pos]].shape = "argument"
    BY <1>0 DEF InLine, AtWord
  <2>2. ~(b.nth < NumArgs(cur) \/ IsVariadic(cur))
    BY <1>0, <1>1 DEF HasSlot
  <2> HIDE DEF b
  <2> QED BY <1>0, <1>1, <2>1, <2>2 DEF ReadWord
<1>6. StoreIs(args, n, 0, given, value) /\ PlaceIs(f, n, cur, processed, active)
  BY <1>0, AtArgument DEF InLine
<1> HIDE DEF n, f, b, q
<1>7. StoreIs(args, pos, 0, given', value')
  <2>1. ASSUME NEW y PROVE SoFar(args, pos, 0, y) = SoFar(args, n, 0, y)
    <3>1. GivenAt(args, f, pos, y) = <<>>
      BY <1>5 DEF GivenAt
    <3>2. SoFar(args, n + 1, 0, y) = SoFar(args, n, 0, y) \o GivenAt(args, f, n + 1, y)
      BY <1>1, SoFarWord DEF f
    <3>3. \A d \in Nat : SoFar(args, n, d, y) \in Seq(Words(args))
      BY <1>1, SoFarType
    <3>4. SoFar(args, n, 0, y) \o <<>> = SoFar(args, n, 0, y)
      BY <1>1, <3>3, ConcatEmptySeq
    <3> QED BY <1>1, <3>1, <3>2, <3>4
  <2> QED BY <1>3, <1>6, <2>1, StoreKept
<1>8. PlaceIs(f, pos, cur', processed', active')
  <2>1. PlaceIs(f, n + 1, q, processed, active \cup {q})
    BY <1>1, <1>2, <1>4, <1>5, <1>6, PlaceEntered
  <2> QED BY <1>1, <1>3, <2>1
<1>9. f[pos].role \notin {"bad", "awaits"}
  BY <1>5
<1> QED BY <1>1, <1>3, <1>7, <1>8, <1>9, NewLine DEF f

-----------------------------------------------------------------------------

\* A line that is refused is one that nobody can read to its end.
LEMMA RefusedLine ==
  ASSUME TypeOK, InLine, UnknownOption \/ RefuseParam \/ UnknownArgument
  PROVE  Reading(args)[Len(args)].role = "bad"
<1> DEFINE n == WordsDone
           b == Reading(args)[n]
           w == args[pos]
           ns == Lex[w].names
           d == NamesDone
<1>1. phase = "parse" /\ pos <= Len(args)
  BY DEF UnknownOption, RefuseParam, UnknownArgument, AtWord
<1>2. /\ args \in Seq(Word) /\ pos \in 0..Len(args) /\ Len(args) \in Nat
      /\ b \in Place /\ b.parser = cur /\ b.nth = processed[cur]
      /\ b.role \notin {"bad", "awaits"}
      /\ Reading(args)[pos] = ReadWord(args, pos, b)
  BY <1>1, WordFacts DEF InLine
<1> HIDE DEF b
<1>3. CASE UnknownOption \/ RefuseParam
  <2>1. AtWord("option") /\ Lex[w].shape = "option"
    BY <1>3 DEF UnknownOption, RefuseParam, AtWord
  <2>2. /\ Len(ns) \in Nat /\ d \in 0..Len(ns) - 1 /\ d + 1 \in 1..Len(ns)
        /\ Head(Names) = ns[d + 1] /\ (IsLast <=> d + 1 = Len(ns))
    BY <2>1, NamesFacts
  <2> HIDE DEF d, ns
  <2>3. Malformed(cur, w) \/ (Awaits(cur, w) /\ pos = Len(args))
    <3>1. CASE UnknownOption
      <4>1. ns[d + 1] \notin DOMAIN Opt[cur]
        BY <2>2, <3>1 DEF UnknownOption, Known
      <4> QED BY <2>2, <4>1 DEF Malformed, ns
    <3>2. CASE RefuseParam /\ Current \in TakesParam /\ ~IsLast
      <4>1. Opt[cur][ns[d + 1]] \in TakesParam /\ d + 1 \in 1..Len(ns) - 1
        BY <2>2, <3>2 DEF Current
      <4> QED BY <4>1 DEF Malformed, ns
    <3>3. CASE RefuseParam /\ Current \in TakesParam /\ IsLast
      <4>1. Opt[cur][ns[Len(ns)]] \in TakesParam /\ ~Lex[w].eq /\ pos = Len(args)
        BY <2>2, <3>3 DEF RefuseParam, ParamMismatch, Current, WithEquals
      <4> QED BY <4>1 DEF Awaits, ns
    <3>4. CASE RefuseParam /\ Current \notin TakesParam
      <4>1. Opt[cur][ns[Len(ns)]] \notin TakesParam /\ Lex[w].eq
        BY <2>2, <3>4 DEF RefuseParam, ParamMismatch, Current, WithEquals
      <4> QED BY <4>1 DEF Malformed, ns
    <3> QED BY <1>3, <3>1, <3>2, <3>3, <3>4
  <2>4. Reading(args)[pos] = [b EXCEPT !.role = "bad"]
    BY <1>2, <2>1, <2>3 DEF ReadWord
  <2>5. Reading(args)[pos].role = "bad"
    BY <1>2, <2>4 DEF Place
  <2> QED BY <1>2, <2>5, BadStays
<1>4. CASE UnknownArgument
  <2>1. Lex[w].shape = "argument" /\ w \notin DOMAIN Sub[cur]
        /\ ~(b.nth < NumArgs(cur) \/ IsVariadic(cur))
    BY <1>2, <1>4 DEF UnknownArgument, AtWord, HasSlot
  <2>2. Reading(args)[pos] = [b EXCEPT !.role = "bad"]
    BY <1>2, <2>1 DEF ReadWord
  <2>3. Reading(args)[pos].role = "bad"
    BY <1>2, <2>2 DEF Place
  <2> QED BY <1>2, <2>3, BadStays
<1> QED BY <1>3, <1>4

\* What is handed to an option is among the words the line holds for it.
LEMMA OptionHeard ==
  ASSUME TypeOK, InLine, AtWord("option"), Known, ~ParamMismatch,
         Reading(args)[Len(args)].role # "bad",
         NEW w, w = IF Current \notin TakesParam THEN args[pos]
                    ELSE IF WithEquals THEN Lex[args[pos]].param ELSE args[pos + 1]
  PROVE  Among(w, Occurrences(args, Reading(args), Current))
<1> DEFINE b == Reading(args)[WordsDone]
           f == Reading(args)
           ns == Lex[args[pos]].names
           d == NamesDone
           x == Current
           c == Cardinality(Hits(cur, args[pos], x, Len(ns)))
<1>1. /\ args \in Seq(Word) /\ pos \in 1..Len(args) /\ pos \in 0..Len(args)
      /\ Len(args) \in Nat
      /\ b \in Place /\ b.parser = cur /\ b.role \notin {"bad", "awaits"}
      /\ f[pos] = ReadWord(args, pos, b)
  BY WordFacts DEF InLine, AtWord
<1>2. f[pos].role # "bad"
  BY <1>1, BadStays
<1> HIDE DEF b
<1>3. f[pos].role \in {"option", "awaits"} /\ f[pos].parser = cur
  <2>1. \E r \in {"bad", "option", "awaits"} : f[pos] = [b EXCEPT !.role = r]
    BY <1>1 DEF ReadWord, AtWord
  <2> QED BY <1>1, <1>2, <2>1 DEF Place
<1>4. /\ Len(ns) \in Nat /\ d + 1 \in 1..Len(ns) /\ Head(Names) = ns[d + 1]
  BY NamesFacts
<1>5. d + 1 \in Hits(cur, args[pos], x, Len(ns))
  BY <1>4 DEF Hits, Current
<1>6. c \in Nat /\ c # 0
  BY <1>4, <1>5, HitsCount
<1>7. Param(args, pos, x) = w
  BY DEF Param, ParamMismatch, WithEquals
<1>8. GivenAt(args, f, pos, x) = [k \in 1..c |-> w]
  <2> HIDE DEF x, f
  <2> QED BY <1>3, <1>7 DEF GivenAt
<1>9. Among(w, GivenAt(args, f, pos, x))
  <2> HIDE DEF c, x, f
  <2>1. 1 \in 1..c /\ Len([k \in 1..c |-> w]) = c
    BY <1>6
  <2> QED BY <1>8, <2>1 DEF Among
<1> QED BY <1>1, <1>9, GivenStays

\* The same for an argument
LEMMA ArgumentHeard ==
  ASSUME TypeOK, InLine, AtWord("argument"), HasSlot(cur)
  PROVE  Among(args[pos], Occurrences(args, Reading(args), Arg[cur][Slot(cur)]))
<1> DEFINE x == Arg[cur][Slot(cur)]
<1>1. args \in Seq(Word) /\ pos \in 1..Len(args)
  BY WordFacts DEF AtWord
<1>2. GivenAt(args, Reading(args), pos, x) = <<args[pos]>>
  BY ArgumentRead
<1>3. Among(args[pos], <<args[pos]>>)
  BY DEF Among
<1> HIDE DEF x
<1> QED BY <1>1, <1>2, <1>3, GivenStays DEF x

LEMMA AmongNotEmpty ==
  ASSUME NEW w, NEW s, Among(w, s)
  PROVE  s # <<>>
BY DEF Among

\* A call that does not end well
LEMMA NotAccepted ==
  ASSUME calls' = 1, phase' = "idle", args' = args, checks' = checks,
         result' \in {"exit", "error"},
         (result' = "error" /\ Acceptable(args, Reading(args), checks)) =>
           \E x \in Hooked : Occurrences(args, Reading(args), x) # <<>>
  PROVE  LineInv'
BY DEF LineInv, ValuesOfCommandLine, VerdictOfCommandLine, FirstCallEnded

\* A found callback, or a conversion that throws, ends the call.
LEMMA OptionEnds ==
  ASSUME TypeOK, InLine, calls = 1, FlagOption \/ ParamOption, phase' # "parse"
  PROVE  LineInv'
<1> DEFINE w == IF Current \notin TakesParam THEN args[pos]
                ELSE IF WithEquals THEN Lex[args[pos]].param ELSE args[pos + 1]
<1>1. AtWord("option") /\ Known /\ ~ParamMismatch
  BY DEF FlagOption, ParamOption
<1>2. Stop(Current) \/ FailConversion(Current, w)
  BY DEF FlagOption, ParamOption, FoundOption, Continue, AtWord
<1>3. /\ calls' = 1 /\ phase' = "idle" /\ args' = args /\ checks' = checks
      /\ result' \in {"exit", "error"}
  BY <1>2 DEF Stop, FailConversion, Return
<1>4. ASSUME Acceptable(args, Reading(args), checks)
      PROVE  \E x \in Hooked : Occurrences(args, Reading(args), x) # <<>>
  <2>1. Among(w, Occurrences(args, Reading(args), Current))
    BY <1>1, <1>4, OptionHeard DEF Acceptable
  <2>2. Current \in Item \ Silent
    BY <1>1, OptionIsTold
  <2> HIDE DEF w
  <2>3. CASE Stop(Current)
    BY <2>1, <2>3, AmongNotEmpty DEF Stop
  <2>4. CASE FailConversion(Current, w)
    \* then the line holds a word that cannot be converted
    <3>1. <<Current, w>> \in Bad
      BY <2>4 DEF FailConversion
    <3> QED BY <1>4, <2>1, <2>2, <3>1 DEF Acceptable, Heard, Among
  <2> QED BY <1>2, <2>3, <2>4 DEF w
<1> QED BY <1>3, <1>4, NotAccepted

LEMMA ArgumentEnds ==
  ASSUME TypeOK, InLine, calls = 1, TakeArgument, phase' # "parse"
  PROVE  LineInv'
<1> DEFINE x == Arg[cur][Slot(cur)]
           w == args[pos]
<1>1. AtWord("argument") /\ HasSlot(cur) /\ cur \in Parser
  BY DEF TakeArgument, TypeOK
<1>2. Stop(x) \/ (x \notin Hooked /\ FailConversion(x, w))
  BY DEF TakeArgument, Continue, AtWord
<1>3. /\ calls' = 1 /\ phase' = "idle" /\ args' = args /\ checks' = checks
      /\ result' \in {"exit", "error"}
  BY <1>2 DEF Stop, FailConversion, Return
<1>4. Among(w, Occurrences(args, Reading(args), x))
  BY <1>1, ArgumentHeard
<1>5. x \in Item
  BY <1>1, SlotFacts DEF Item
<1> HIDE DEF x, w
<1>6. ASSUME Acceptable(args, Reading(args), checks)
      PROVE  \E y \in Hooked : Occurrences(args, Reading(args), y) # <<>>
  <2>1. CASE Stop(x)
    BY <1>4, <2>1, AmongNotEmpty DEF Stop
  <2>2. CASE x \notin Hooked /\ FailConversion(x, w)
    <3>1. <<x, w>> \in Bad
      BY <2>2 DEF FailConversion
    <3> QED BY <1>4, <1>5, <1>6, <2>2, <3>1 DEF Acceptable, Heard, Among, Silent
  <2> QED BY <1>2, <2>1, <2>2
<1> QED BY <1>3, <1>6, NotAccepted

-----------------------------------------------------------------------------

\* The end of the words: the parser knows what the line says.
LineKnown ==
  LET f == Reading(args) IN
    /\ \A x \in Item :
         /\ value[x] = Expected(args, f, x)
         /\ x \in given <=> Heard(args, f, x) # <<>>
         /\ \A k \in 1..Len(Heard(args, f, x)) : <<x, Heard(args, f, x)[k]>> \notin Bad
    /\ f[Len(args)].role # "bad"
    /\ active = Selected(f) \ {Main}
    /\ {Main} \cup active = Selected(f)
    /\ \A p \in Parser : processed[p] =
         Cardinality({i \in 1..Len(args) : f[i].role = "argument" /\ f[i].parser = p})

LEMMA EndOfLine ==
  ASSUME TypeOK, InLine, pos = Len(args) + 1
  PROVE  LineKnown
<1> DEFINE f == Reading(args)
           n == Len(args)
<1>1. /\ args \in Seq(Word) /\ n \in Nat /\ n \in 0..n /\ 0 \in 0..n
      /\ WordsDone = n /\ NamesDone = 0
  BY DEF TypeOK, WordsDone, NamesDone
<1>2. /\ f[n].role # "bad"
      /\ PlaceIs(f, n, cur, processed, active)
      /\ StoreIs(args, n, 0, given, value)
  BY <1>1 DEF InLine
<1>3. DOMAIN f = 0..n /\ f[0] = Start
  BY <1>1, ReadingIs, ReadingStep
<1>4. Entered(f, n) = Selected(f) /\ Main \in Selected(f)
  BY <1>1, <1>3 DEF Entered, Selected, Start
<1>5. ASSUME NEW x \in Item
      PROVE  /\ value[x] = Expected(args, f, x)
             /\ x \in given <=> Heard(args, f, x) # <<>>
             /\ \A k \in 1..Len(Heard(args, f, x)) : <<x, Heard(args, f, x)[k]>> \notin Bad
  <2>1. CASE x \in Silent
    <3>1. Heard(args, f, x) = <<>> /\ value[x] = Default[x] /\ x \notin given
      BY <1>2, <2>1 DEF Heard, StoreIs
    <3>2. Default[x] \o <<>> = Default[x]
      <4>1. Default[x] \in Seq(Word)
        BY WordAssumption
      <4> QED BY <4>1, ConcatEmptySeq
    <3>3. Outcome(x, <<>>) = Default[x]
      BY <3>2 DEF Outcome
    <3>4. Len(<<>>) = 0
      BY EmptySeq
    <3> QED BY <3>1, <3>3, <3>4 DEF Expected
  <2>2. CASE x \notin Silent
    <3>1. \A d \in Nat : SoFar(args, n, 0, x) = GivenUpTo(args, f, x)[n]
      BY <1>1, SoFarType
    <3>2. SoFar(args, n, 0, x) = Heard(args, f, x)
      BY <2>2, <3>1 DEF Heard, Occurrences
    <3> HIDE DEF f, n
    <3> QED BY <1>2, <2>2, <3>2 DEF StoreIs, Expected
  <2> QED BY <2>1, <2>2
<1>6. active = Selected(f) \ {Main} /\ {Main} \cup active = Selected(f)
  BY <1>2, <1>4 DEF PlaceIs
<1>7. \A p \in Parser : processed[p] =
        Cardinality({i \in 1..n : f[i].role = "argument" /\ f[i].parser = p})
  BY <1>2 DEF PlaceIs, Taken
<1> QED BY <1>2, <1>5, <1>6, <1>7 DEF LineKnown

\* What Acceptable asks of a parser of the line a with reading f
Meets(a, f, p) ==
  /\ Formula(p, {x \in OptionsOf(p) : Heard(a, f, x) # <<>>},
                {x \in OptionsOf(p) : ~Valid(a, f, x)})
  /\ \A x \in ArgumentsOf(p) : /\ x \in Mandatory => Heard(a, f, x) # <<>>
                               /\ Valid(a, f, x)

\* At the end of the words this is what validate() asks.
LEMMA SatisfiedIs ==
  ASSUME LineKnown, NEW p \in Parser
  PROVE  Satisfied(p) <=> Meets(args, Reading(args), p)
<1> DEFINE f == Reading(args)
           G == {x \in OptionsOf(p) : Heard(args, f, x) # <<>>}
           R == {x \in OptionsOf(p) : ~Valid(args, f, x)}
<1>1. OptionsOf(p) \subseteq Item /\ ArgumentsOf(p) \subseteq Item
  BY ItemAssumption DEF Item, ArgumentsOf
<1>2. \A x \in Item : /\ value[x] = Expected(args, f, x)
                      /\ x \in given <=> Heard(args, f, x) # <<>>
  BY DEF LineKnown
<1> HIDE DEF f
<1>3. \A x \in Item : ValueValid(x) <=> Valid(args, f, x)
  BY <1>2 DEF ValueValid, Valid
<1>4. OptionsOf(p) \cap given = G
  BY <1>1, <1>2
<1>5. {o \in OptionsOf(p) : ~ValueValid(o)} = R
  BY <1>1, <1>3
<1>6. ArgumentsMeet(p) <=> \A x \in ArgumentsOf(p) :
                             /\ x \in Mandatory => Heard(args, f, x) # <<>>
                             /\ Valid(args, f, x)
  BY <1>1, <1>2, <1>3 DEF ArgumentsMeet
<1>7. OptionsMeet(p, G, R) <=> Formula(p, G, R)
  BY OptionsAssumption
<1>8. Satisfied(p) <=> OptionsMeet(p, G, R) /\ ArgumentsMeet(p)
  BY <1>4, <1>5 DEF Satisfied
<1> QED BY <1>6, <1>7, <1>8 DEF Meets, f

\* A call that ends well
LEMMA Accepted ==
  ASSUME TypeOK, LineKnown, result' = "ok",
         UNCHANGED <<given, value, active, processed, args, checks>>,
         checks => \A p \in {Main} \cup active : Satisfied(p)
  PROVE  ValuesOfCommandLine' /\ VerdictOfCommandLine'
<1> DEFINE f == Reading(args)
<1>1. Acceptable(args, f, checks)
  <2>1. f[Len(args)].role # "bad"
    BY DEF LineKnown
  <2>2. \A x \in Item : LET occ == Heard(args, f, x)
                        IN \A k \in 1..Len(occ) : <<x, occ[k]>> \notin Bad
    BY DEF LineKnown
  <2>3. checks => \A p \in Selected(f) : Meets(args, f, p)
    <3>1. Selected(f) = {Main} \cup active /\ {Main} \cup active \subseteq Parser
      BY TreeAssumption DEF LineKnown, TypeOK
    <3> QED BY <3>1, SatisfiedIs
  <2> HIDE DEF f
  <2> QED BY <2>1, <2>2, <2>3 DEF Acceptable, Meets
<1>2. ValuesOfCommandLine'
  BY DEF ValuesOfCommandLine, LineKnown
<1>3. VerdictOfCommandLine'
  BY <1>1 DEF VerdictOfCommandLine, LineKnown
<1> QED BY <1>2, <1>3

\* The steps at the end of the words
LEMMA EndStep ==
  ASSUME IInv, InLine, calls = 1, EndOfWords
  PROVE  LineInv'
<1>1. TypeOK /\ pos = Len(args) + 1 /\ phase = "parse" /\ rest = <<>>
  BY DEF IInv, TypeOK, EndOfWords
<1>2. LineKnown
  BY <1>1, EndOfLine
<1>3. CASE checks
  <2>1. /\ UNCHANGED <<given, value, active, processed, args, pos, cur, rest, checks, calls>>
        /\ phase' = "validate" /\ todo' = {Main}
    BY <1>3 DEF EndOfWords, store
  <2>2. WordsDone' = WordsDone /\ NamesDone' = NamesDone
    BY <2>1 DEF WordsDone, NamesDone
  <2>3. InLine'
    BY <1>1, <1>3, <2>1, <2>2 DEF InLine, PlaceIs, StoreIs
  <2> QED BY <1>1, <2>1, <2>3
          DEF LineInv, ValuesOfCommandLine, VerdictOfCommandLine, FirstCallEnded
<1>4. CASE ~checks
  <2>1. /\ UNCHANGED <<given, value, active, processed, args, checks, calls>>
        /\ phase' = "idle" /\ result' = "ok"
    BY <1>4 DEF EndOfWords, store, Return
  <2>2. ValuesOfCommandLine' /\ VerdictOfCommandLine'
    BY <1>1, <1>2, <1>4, <2>1, Accepted
  <2> QED BY <2>1, <2>2 DEF LineInv
<1> QED BY <1>3, <1>4

LEMMA ValidateStep ==
  ASSUME IInv, InLine, calls = 1, NEW p \in Parser, Validate(p)
  PROVE  LineInv'
<1>1. /\ TypeOK /\ pos = Len(args) + 1 /\ phase = "validate" /\ rest = <<>> /\ checks
      /\ todo \subseteq {Main} \cup active /\ p \in todo
  BY DEF IInv, Validate, InLine
<1>2. LineKnown
  BY <1>1, EndOfLine
<1>3. CASE Satisfied(p)
  <2>1. /\ UNCHANGED <<given, value, active, processed, args, pos, cur, rest, phase, checks, calls>>
        /\ todo' \subseteq {Main} \cup active
    BY <1>1, <1>3 DEF Validate, VisitNext, store
  <2>2. WordsDone' = WordsDone /\ NamesDone' = NamesDone
    BY <2>1 DEF WordsDone, NamesDone
  <2>3. InLine'
    BY <1>1, <2>1, <2>2 DEF InLine, PlaceIs, StoreIs
  <2> QED BY <1>1, <2>1, <2>3
          DEF LineInv, ValuesOfCommandLine, VerdictOfCommandLine, FirstCallEnded
<1>4. CASE ~Satisfied(p)
  \* the line names the parser p, which does not accept it
  <2>1. /\ UNCHANGED <<args, checks, calls>> /\ phase' = "idle" /\ result' = "error"
    BY <1>4 DEF Validate, Return
  <2>2. p \in Selected(Reading(args)) /\ ~Meets(args, Reading(args), p)
    BY <1>1, <1>2, <1>4, SatisfiedIs DEF LineKnown
  <2>3. ~Acceptable(args, Reading(args), checks)
    BY <1>1, <2>2 DEF Acceptable, Meets
  <2> QED BY <2>1, <2>3, NotAccepted
<1> QED BY <1>3, <1>4

LEMMA AcceptStep ==
  ASSUME IInv, InLine, calls = 1, Accept
  PROVE  LineInv'
<1>1. TypeOK /\ pos = Len(args) + 1 /\ checks
  BY DEF IInv, InLine, Accept
<1>2. LineKnown
  BY <1>1, EndOfLine
<1>3. /\ UNCHANGED <<given, value, active, processed, args, checks, calls>>
      /\ phase' = "idle" /\ result' = "ok"
  BY DEF Accept, Return, store
<1>4. \A p \in {Main} \cup active : Satisfied(p)
  <2>1. IInv'
    BY InvariantStep DEF Next, Step
  <2>2. \A p \in {Main} \cup active : Satisfied(p)'
    BY <1>1, <1>3, <2>1 DEF IInv, AcceptedMeansSatisfied
  <2>3. {Main} \cup active \subseteq Parser
    BY <1>1, TreeAssumption DEF TypeOK
  <2>4. UNCHANGED store
    BY DEF Accept
  <2> QED BY <2>2, <2>3, <2>4, SatisfiedStable
<1>5. ValuesOfCommandLine' /\ VerdictOfCommandLine'
  BY <1>1, <1>2, <1>3, <1>4, Accepted
<1> QED BY <1>3, <1>5 DEF LineInv

LEMMA RefuseStep ==
  ASSUME TypeOK, InLine, calls = 1, UnknownOption \/ RefuseParam \/ UnknownArgument
  PROVE  LineInv'
<1>1. Reading(args)[Len(args)].role = "bad"
  BY RefusedLine
<1>2. ~Acceptable(args, Reading(args), checks)
  BY <1>1 DEF Acceptable
<1>3. UNCHANGED <<args, checks, calls>> /\ phase' = "idle" /\ result' = "error"
  BY DEF UnknownOption, RefuseParam, UnknownArgument, Return
<1> QED BY <1>2, <1>3, NotAccepted

LEMMA OptionWordStep ==
  ASSUME TypeOK, InLine, calls = 1, FlagOption \/ ParamOption
  PROVE  LineInv'
<1>1. CASE phase' # "parse"
  BY <1>1, OptionEnds
<1>2. CASE phase' = "parse"
  <2>1. AtWord("option") /\ Known /\ ~ParamMismatch /\ args \in Seq(Word)
        /\ pos \in 1..Len(args)
    BY DEF FlagOption, ParamOption, TypeOK, AtWord
  <2>2. CASE FlagOption
    <3>1. /\ Current \notin TakesParam /\ Convert(Current, args[pos])
          /\ Continue(IF IsLast THEN pos + 1 ELSE pos, Tail(Names))
          /\ UNCHANGED <<active, processed, cur>>
      BY <1>2, <2>2 DEF FlagOption, FoundOption, Stop, FailConversion, Return
    <3>2. calls' = 1
      BY <3>1 DEF Continue
    <3> QED BY <2>1, <3>1, <3>2, FlagConverted
  <2>3. CASE ParamOption /\ WithEquals
    <3>1. /\ Current \in TakesParam /\ Convert(Current, Lex[args[pos]].param)
          /\ Continue(pos + 1, <<>>)
          /\ UNCHANGED <<active, processed, cur>>
      BY <1>2, <2>3 DEF ParamOption, FoundOption, Stop, FailConversion, Return
    <3>2. calls' = 1
      BY <3>1 DEF Continue
    <3>3. Lex[args[pos]].param \in Word
      BY <2>1, WordAssumption DEF Lexeme
    <3>4. Continue(IF WithEquals THEN pos + 1 ELSE pos + 2, <<>>)
      BY <2>3, <3>1
    <3> QED BY <2>1, <2>3, <3>1, <3>2, <3>3, <3>4, ParamConverted
  <2>4. CASE ParamOption /\ ~WithEquals
    <3>1. /\ Current \in TakesParam /\ Convert(Current, args[pos + 1])
          /\ Continue(pos + 2, <<>>)
          /\ UNCHANGED <<active, processed, cur>>
      BY <1>2, <2>4 DEF ParamOption, FoundOption, Stop, FailConversion, Return
    <3>2. calls' = 1
      BY <3>1 DEF Continue
    <3>3. args[pos + 1] \in Word
      <4>1. pos + 1 \in 1..Len(args)
        BY <2>1, <2>4, <3>1 DEF ParamMismatch
      <4> QED BY <2>1, <4>1
    <3>4. Continue(IF WithEquals THEN pos + 1 ELSE pos + 2, <<>>)
      BY <2>4, <3>1
    <3> QED BY <2>1, <2>4, <3>1, <3>2, <3>3, <3>4, ParamConverted
  <2> QED BY <2>2, <2>3, <2>4
<1> QED BY <1>1, <1>2

LEMMA ArgumentWordStep ==
  ASSUME TypeOK, InLine, calls = 1, TakeArgument
  PROVE  LineInv'
<1>1. CASE phase' # "parse"
  BY <1>1, ArgumentEnds
<1>2. CASE phase' = "parse"
  <2>1. /\ AtWord("argument") /\ HasSlot(cur)
        /\ IF Arg[cur][Slot(cur)] \in Hooked THEN UNCHANGED store
           ELSE Convert(Arg[cur][Slot(cur)], args[pos])
        /\ processed' = [processed EXCEPT ![cur] = @ + 1]
        /\ Continue(pos + 1, <<>>)
        /\ UNCHANGED <<active, cur>>
    BY <1>2 DEF TakeArgument, Stop, FailConversion, Return
  <2>2. calls' = 1
    BY <2>1 DEF Continue
  <2> QED BY <2>1, <2>2, ArgumentTaken
<1> QED BY <1>1, <1>2

\* The first call begins with nothing read and nothing stored.
LEMMA FirstCall ==
  ASSUME TypeOK, LineInv, calls = 0, Call
  PROVE  LineInv'
<1>1. /\ args' \in Seq(Word) /\ calls' = 1 /\ phase' = "parse" /\ pos' = 1
      /\ cur' = Main /\ rest' = <<>>
      /\ given' = {} /\ value' = Default /\ active' = {}
      /\ processed' = [p \in Parser |-> 0]
  BY WordAssumption DEF Call, LineInv, Fresh
<1> DEFINE a == args'
           f == Reading(a)
<1>2. f[0] = Start
  BY <1>1, ReadingStep
<1>3. PlaceIs(f, 0, Main, [p \in Parser |-> 0], {})
  <2>1. Entered(f, 0) = {Main}
    <3>1. 0..0 = {0}
      OBVIOUS
    <3> QED BY <1>2, <3>1 DEF Entered, Start
  <2>2. \A p : Taken(f, 0, p) = {}
    BY DEF Taken
  <2>3. \A p : Cardinality(Taken(f, 0, p)) = 0
    BY <2>2, FS_EmptySet
  <2> QED BY <1>2, <2>1, <2>3, TreeAssumption DEF PlaceIs, Start
<1>4. StoreIs(a, 0, 0, {}, Default)
  <2> SUFFICES ASSUME NEW x \in Item
               PROVE  LET occ == SoFar(a, 0, 0, x) IN
                      /\ Default[x] = Outcome(x, occ)
                      /\ occ = <<>>
                      /\ \A k \in 1..Len(occ) : <<x, occ[k]>> \notin Bad
    BY DEF StoreIs
  <2>1. SoFar(a, 0, 0, x) = <<>>
    <3>1. 0 \in 0..Len(a)
      BY <1>1
    <3>2. \A n \in 0..Len(a) : SoFar(a, n, 0, x) = GivenUpTo(a, f, x)[n]
      BY <1>1, SoFarType
    <3>3. GivenUpTo(a, f, x)[0] = <<>>
      BY <1>1, GivenUpToStep
    <3> QED BY <3>1, <3>2, <3>3
  <2>2. Default[x] \o <<>> = Default[x]
    <3>1. Default[x] \in Seq(Word)
      BY WordAssumption
    <3> QED BY <3>1, ConcatEmptySeq
  <2>3. Outcome(x, <<>>) = Default[x] /\ Len(<<>>) = 0
    BY <2>2, EmptySeq DEF Outcome
  <2> QED BY <2>1, <2>3
<1>5. WordsDone' = 0 /\ NamesDone' = 0
  BY <1>1 DEF WordsDone, NamesDone
<1>6. InLine'
  BY <1>1, <1>2, <1>3, <1>4, <1>5 DEF InLine, PlaceIs, StoreIs, Start
<1> QED BY <1>1, <1>6 DEF LineInv, ValuesOfCommandLine, VerdictOfCommandLine, FirstCallEnded

LEMMA LineInit == Init => LineInv
BY DEF Init, LineInv, Fresh, ValuesOfCommandLine, VerdictOfCommandLine, FirstCallEnded

LEMMA LineStep ==
  ASSUME IInv, BranchInv, LineInv, [Next]_vars
  PROVE  LineInv'
<1>0. TypeOK /\ calls \in Nat
  BY DEF IInv, TypeOK
<1>1. CASE UNCHANGED vars
  <2>1. LineInv' <=> LineInv
    BY <1>1 DEF vars, LineInv, Fresh, InLine, PlaceIs, StoreIs, FlagsDone, WordsDone,
       NamesDone, ValuesOfCommandLine, VerdictOfCommandLine, FirstCallEnded
  <2> QED BY <2>1
<1>2. CASE calls' > 1
  BY <1>2 DEF LineInv, ValuesOfCommandLine, VerdictOfCommandLine, FirstCallEnded
<1>3. CASE Call
  <2>1. calls' = calls + 1
    BY <1>3 DEF Call
  <2> QED BY <1>0, <1>2, <1>3, <2>1, FirstCall
<1>4. CASE Step
  <2>1. phase # "idle" /\ calls' = calls
    BY <1>0, <1>4, StepOutcome
  <2>2. CASE calls = 1
    <3>1. InLine
      BY <2>1, <2>2 DEF LineInv
    <3> QED BY <1>0, <1>4, <2>2, <3>1, RefuseStep, OptionWordStep, ArgumentWordStep,
               SubParserEntered, EndStep, ValidateStep, AcceptStep DEF Step
  <2>3. CASE calls # 1
    <3>1. calls # 0
      BY <2>1 DEF LineInv, Fresh
    <3> QED BY <1>0, <1>2, <2>1, <2>3, <3>1
  <2> QED BY <2>2, <2>3
<1> QED BY <1>1, <1>3, <1>4 DEF Next

LEMMA LineHolds == Spec => []LineInv
<1>1. Init => BranchInv
  BY DEF Init, BranchInv, OneActiveBranch
<1>2. IInv /\ BranchInv /\ [Next]_vars => BranchInv'
  BY BranchStep DEF IInv
<1>3. IInv /\ BranchInv /\ LineInv /\ [Next]_vars => LineInv'
  BY LineStep
<1> QED BY <1>1, <1>2, <1>3, LineInit, InvariantHolds, PTL DEF Spec

(***************************************************************************)
(* When the first parse returns, every option and argument has the words   *)
(* the command line holds for it, in their order, and is given iff there   *)
(* is one: no word is lost, doubled or handed to somebody else, whatever   *)
(* the tree of parsers, the clusters and the line.                         *)
(***************************************************************************)
THEOREM ValuesOfCommandLineHolds == Spec => []ValuesOfCommandLine
BY LineHolds, PTL DEF LineInv

(***************************************************************************)
(* The first parse accepts acceptable lines only, with the sub-parsers and *)
(* the counts of arguments that the line means, and it throws on           *)
(* unacceptable ones only, found callbacks apart.                          *)
(***************************************************************************)
THEOREM VerdictOfCommandLineHolds == Spec => []VerdictOfCommandLine
BY LineHolds, PTL DEF LineInv

-----------------------------------------------------------------------------

(***************************************************************************)
(* OptionsAssumption, which the theorems above rest on, is met by the      *)
(* option containers: for whatever options are found and whatever values   *)
(* are refused, the walks of module OptionValidation decide the formula.   *)
(***************************************************************************)
CONSTANTS
  FoundOptions,  \* any options that are given
  FaultyOptions  \* any options whose values are refused

Walked ==
  INSTANCE OptionValidationProof WITH
    Shape <- Parser, Tree <- Containers, OptionName <- Option,
    Refused <- SUBSET Option, shape <- Main, given <- FoundOptions,
    refused <- FaultyOptions, verdict <- "none"

LEMMA WalkedTrees == Walked!Trees /\ SUBSET Option \subseteq SUBSET Option
BY ContainersAssumption
   DEF Rules!Trees, Rules!Container, Walked!Trees, Walked!Container

\* Both instances of the module OptionValidation are the same.
LEMMA SameWalk ==
  ASSUME NEW c
  PROVE  Rules(FoundOptions, FaultyOptions)!Verdict(Rules(FoundOptions, FaultyOptions)!Top(c))
           = Walked!Verdict(Walked!Top(c))
BY DEF Rules!Verdict, Walked!Verdict, Rules!Top, Walked!Top, Rules!Through, Walked!Through,
       Rules!Final, Walked!Final, Rules!InXor, Walked!InXor, Rules!InAnd, Walked!InAnd,
       Rules!XorOption, Walked!XorOption, Rules!AndOption, Walked!AndOption,
       Rules!Value, Walked!Value, Rules!Walk, Walked!Walk, Rules!Leave, Walked!Leave,
       Rules!Start, Walked!Start, Rules!State, Walked!State, Rules!NumMandatory,
       Walked!NumMandatory, Rules!Total, Walked!Total, Rules!Container, Walked!Container

LEMMA SameFormula ==
  ASSUME NEW c
  PROVE  /\ Rules(FoundOptions, FaultyOptions)!Meets[c] = Walked!Meets[c]
         /\ Rules(FoundOptions, FaultyOptions)!Looked(c) = Walked!Looked(c)
<1>1. Rules(FoundOptions, FaultyOptions)!Meets = Walked!Meets
  BY DEF Rules!Meets, Walked!Meets, Rules!Chosen, Walked!Chosen, Rules!Untouched,
         Walked!Untouched, Rules!Wanted, Walked!Wanted, Rules!Below, Walked!Below,
         Rules!Container, Walked!Container
<1>2. Rules(FoundOptions, FaultyOptions)!Looked(c) = Walked!Looked(c)
  BY DEF Rules!Looked, Walked!Looked, Rules!Below, Walked!Below, Rules!Container,
         Walked!Container
<1> QED BY <1>1, <1>2

THEOREM OptionsAssumptionHolds ==
  \A p \in Parser :
    WalkAccepts(p, FoundOptions, FaultyOptions)
      <=> FormulaAccepts(p, FoundOptions, FaultyOptions)
<1> SUFFICES ASSUME NEW p \in Parser
             PROVE  WalkAccepts(p, FoundOptions, FaultyOptions)
                      <=> FormulaAccepts(p, FoundOptions, FaultyOptions)
  OBVIOUS
<1>1. Containers(p) \in Walked!Container
  BY WalkedTrees, Walked!TreeType
<1>2. Walked!Verdict(Walked!Top(Containers(p))) = "accept"
        <=> /\ Walked!Meets[Containers(p)]
            /\ Walked!Looked(Containers(p)) \cap FaultyOptions = {}
  BY <1>1, WalkedTrees, Walked!VerdictIs
<1> QED BY <1>2, SameWalk, SameFormula DEF WalkAccepts, FormulaAccepts
=============================================================================
