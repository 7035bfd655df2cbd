------------------------- MODULE OptionValidationProof -------------------------
(***************************************************************************)
(* Proof that the walk of validate_options() through a tree of option      *)
(* containers of any depth and width decides what the tree says.           *)
(***************************************************************************)
EXTENDS OptionValidation, FiniteSetTheorems, TLAPS

(***************************************************************************)
(* Induction over the natural numbers, for sets of them.                   *)
(***************************************************************************)

\* Every set of numbers has a least element: smaller numbers have smaller sets
\* of predecessors.
LEMMA NatMin ==
  ASSUME NEW T \in SUBSET Nat, T # {}
  PROVE  \E x \in T : \A y \in T : x <= y
<1> DEFINE F == {0 .. x - 1 : x \in T}
<1>1. F \subseteq FiniteSubsetsOf(Nat) /\ F # {}
  <2>1. \A x \in Nat : IsFiniteSet(0 .. x - 1)
    <3> SUFFICES ASSUME NEW x \in Nat PROVE IsFiniteSet(0 .. x - 1)
      OBVIOUS
    <3>1. 0 \in Int /\ x - 1 \in Int
      OBVIOUS
    <3> QED BY <3>1, FS_Interval
  <2>2. \A x \in Nat : 0 .. x - 1 \in SUBSET Nat
    OBVIOUS
  <2> QED BY <2>1, <2>2 DEF FiniteSubsetsOf
<1>2. \E U \in F : \A V \in F : <<V, U>> \notin StrictSubsetOrdering(Nat)
  <2> HIDE DEF F
  <2> QED BY <1>1, WFMin, FS_StrictSubsetOrderingWellFounded
<1>3. PICK x \in T : \A y \in T : <<0 .. y - 1, 0 .. x - 1>> \notin StrictSubsetOrdering(Nat)
  BY <1>2
<1>4. ASSUME NEW y \in T, y < x PROVE FALSE
  <2>1. 0 .. y - 1 \subseteq 0 .. x - 1 /\ 0 .. y - 1 # 0 .. x - 1
    <3>1. y \in 0 .. x - 1 /\ y \notin 0 .. y - 1
      BY <1>4
    <3>2. 0 .. y - 1 \subseteq 0 .. x - 1
      BY <1>4
    <3> QED BY <3>1, <3>2
  <2>2. 0 .. y - 1 \in SUBSET Nat /\ 0 .. x - 1 \in SUBSET Nat
    OBVIOUS
  <2>3. <<0 .. y - 1, 0 .. x - 1>> \in StrictSubsetOrdering(Nat)
    BY <2>1, <2>2 DEF StrictSubsetOrdering
  <2> QED BY <1>3, <2>3
<1> QED BY <1>4

\* A set that holds 0 and, with a number, the next one holds all numbers.
LEMMA SetInduction ==
  ASSUME NEW T, 0 \in T, \A n \in Nat : n \in T => n + 1 \in T
  PROVE  Nat \subseteq T
<1> SUFFICES ASSUME Nat \ T # {} PROVE FALSE
  OBVIOUS
<1>1. PICK x \in Nat \ T : \A y \in Nat \ T : x <= y
  BY NatMin
<1>2. x - 1 \in Nat /\ x - 1 \notin Nat \ T
  BY <1>1
<1> QED BY <1>1, <1>2

(***************************************************************************)
(* Induction and recursion over a set whose elements have ranks.           *)
(***************************************************************************)

\* An element is in T if all elements of lower rank are.
Inherited(D, rank, T) ==
  \A c \in D : (\A d \in D : rank[d] < rank[c] => d \in T) => c \in T

LEMMA RankInduction ==
  ASSUME NEW D, NEW rank \in [D -> Nat], NEW T, Inherited(D, rank, T)
  PROVE  D \subseteq T
<1> DEFINE R == {rank[c] : c \in D \ T}
<1> SUFFICES ASSUME D \ T # {} PROVE FALSE
  OBVIOUS
<1>1. R \in SUBSET Nat /\ R # {}
  OBVIOUS
<1>2. PICK x \in R : \A y \in R : x <= y
  <2> HIDE DEF R
  <2> QED BY <1>1, NatMin
<1>3. PICK c \in D \ T : rank[c] = x
  BY <1>2
<1>4. ASSUME NEW d \in D, rank[d] < rank[c] PROVE d \in T
  <2>1. d \notin T => rank[d] \in R
    OBVIOUS
  <2>2. rank[d] \in Nat /\ rank[c] \in Nat
    OBVIOUS
  <2> HIDE DEF R
  <2> QED BY <1>2, <1>3, <1>4, <2>1, <2>2
<1> QED BY <1>3, <1>4 DEF Inherited

\* F[<<f, c>>] depends on what f is for elements of lower rank only.
LooksDown(D, rank, X, F) ==
  \A f, g \in [D -> X], c \in D :
    (\A d \in D : rank[d] < rank[c] => f[d] = g[d]) => F[<<f, c>>] = F[<<g, c>>]

Solves(f, D, F) == \A c \in D : f[c] = F[<<f, c>>]

\* A recursive definition that looks down has a solution.
LEMMA Solution ==
  ASSUME NEW D, NEW rank \in [D -> Nat], NEW X, X # {},
         NEW F \in [[D -> X] \X D -> X], LooksDown(D, rank, X, F)
  PROVE  \E f \in [D -> X] : Solves(f, D, F)
<1> DEFINE
  Upto(f, k) == \A c \in D : rank[c] < k => f[c] = F[<<f, c>>]
  K == {k \in Nat : \E f \in [D -> X] : Upto(f, k)}
<1>1. 0 \in K
  <2>1. PICK x \in X : TRUE
    OBVIOUS
  <2>2. [c \in D |-> x] \in [D -> X] /\ Upto([c \in D |-> x], 0)
    OBVIOUS
  <2> QED BY <2>2
<1>2. ASSUME NEW k \in Nat, k \in K PROVE k + 1 \in K
  <2>1. PICK f \in [D -> X] : Upto(f, k)
    BY <1>2
  <2> DEFINE g == [c \in D |-> IF rank[c] = k THEN F[<<f, c>>] ELSE f[c]]
  <2>2. g \in [D -> X]
    OBVIOUS
  <2>3. ASSUME NEW c \in D, rank[c] < k + 1 PROVE g[c] = F[<<g, c>>]
    <3>1. \A d \in D : rank[d] < rank[c] => f[d] = g[d]
      BY <2>3
    <3>2. g[c] = F[<<f, c>>]
      BY <2>1, <2>3
    <3>3. F[<<f, c>>] = F[<<g, c>>]
      <4> HIDE DEF g
      <4> QED BY <2>2, <3>1 DEF LooksDown
    <3> QED BY <3>2, <3>3
  <2>4. Upto(g, k + 1)
    BY <2>3
  <2> HIDE DEF g
  <2> QED BY <2>2, <2>4
<1>3. \A k \in Nat : \E f \in [D -> X] : Upto(f, k)
  <2>1. Nat \subseteq K
    <3> HIDE DEF K
    <3> QED BY <1>1, <1>2, SetInduction
  <2> QED BY <2>1
<1>4. ASSUME NEW f \in [D -> X], NEW g \in [D -> X], NEW k \in Nat, Upto(f, k), Upto(g, k)
      PROVE  \A c \in D : rank[c] < k => f[c] = g[c]
  <2> DEFINE T == {c \in D : rank[c] < k => f[c] = g[c]}
  <2>1. ASSUME NEW c \in D, \A d \in D : rank[d] < rank[c] => d \in T PROVE c \in T
    <3> SUFFICES ASSUME rank[c] < k PROVE f[c] = g[c]
      OBVIOUS
    <3>1. \A d \in D : rank[d] < rank[c] => f[d] = g[d]
      BY <2>1
    <3>2. F[<<f, c>>] = F[<<g, c>>]
      BY <3>1 DEF LooksDown
    <3> QED BY <1>4, <3>2
  <2>2. Inherited(D, rank, T)
    BY <2>1 DEF Inherited
  <2>3. D \subseteq T
    <3> HIDE DEF T
    <3> QED BY <2>2, RankInduction
  <2> QED BY <2>3
<1> DEFINE
  part == [c \in D |-> CHOOSE f : f \in [D -> X] /\ Upto(f, rank[c] + 1)]
  h == [c \in D |-> part[c][c]]
<1>5. \A c \in D : part[c] \in [D -> X] /\ Upto(part[c], rank[c] + 1)
  <2> SUFFICES ASSUME NEW c \in D
               PROVE  part[c] \in [D -> X] /\ Upto(part[c], rank[c] + 1)
    OBVIOUS
  <2>1. \E f : f \in [D -> X] /\ Upto(f, rank[c] + 1)
    <3>1. rank[c] + 1 \in Nat
      OBVIOUS
    <3> HIDE DEF Upto
    <3> QED BY <1>3, <3>1
  <2> HIDE DEF Upto
  <2> QED BY <2>1
<1> HIDE DEF part
<1>6. h \in [D -> X]
  BY <1>5
<1>7. ASSUME NEW c \in D PROVE h[c] = F[<<h, c>>]
  <2>1. ASSUME NEW d \in D, rank[d] < rank[c] PROVE part[c][d] = h[d]
    <3>1. rank[d] + 1 \in Nat /\ Upto(part[c], rank[d] + 1)
      <4>1. rank[d] \in Nat /\ rank[c] \in Nat
        OBVIOUS
      <4>2. \A e \in D : rank[e] < rank[d] + 1 => rank[e] < rank[c] + 1
        BY <2>1, <4>1
      <4>3. Upto(part[c], rank[c] + 1)
        <5> HIDE DEF Upto
        <5> QED BY <1>5
      <4>4. ASSUME NEW e \in D, rank[e] < rank[d] + 1
            PROVE  part[c][e] = F[<<part[c], e>>]
        <5>1. rank[e] < rank[c] + 1
          BY <4>2, <4>4
        <5> QED BY <4>3, <5>1
      <4>5. rank[d] + 1 \in Nat
        BY <4>1
      <4> QED BY <4>4, <4>5
    <3>2. \A e \in D : rank[e] < rank[d] + 1 => part[c][e] = part[d][e]
      <4> HIDE DEF Upto
      <4> QED BY <1>4, <1>5, <3>1
    <3> QED BY <3>2
  <2>2. part[c][c] = F[<<part[c], c>>]
    <3>1. rank[c] < rank[c] + 1
      <4>1. rank[c] \in Nat
        OBVIOUS
      <4> QED BY <4>1
    <3>2. Upto(part[c], rank[c] + 1)
      <4> HIDE DEF Upto
      <4> QED BY <1>5
    <3> QED BY <3>1, <3>2
  <2>3. F[<<part[c], c>>] = F[<<h, c>>]
    <3> HIDE DEF h
    <3> QED BY <1>5, <1>6, <2>1 DEF LooksDown
  <2> QED BY <2>2, <2>3
<1>8. Solves(h, D, F)
  <2> HIDE DEF h
  <2> QED BY <1>7 DEF Solves
<1> HIDE DEF h
<1> QED BY <1>6, <1>8

\* f begins with b, and F makes of every value the next one.
Iterates(f, m, b, F) == f[0] = b /\ \A i \in 1..m : f[i] = F[<<f[i - 1], i>>]

LEMMA Recursion ==
  ASSUME NEW S, NEW m \in Nat, NEW b \in S, NEW F \in [S \X (1..m) -> S]
  PROVE  \E f \in [0..m -> S] : Iterates(f, m, b, F)
<1> DEFINE
  D == 0..m
  rank == [i \in D |-> i]
  G == [e \in [D -> S] \X D |->
          IF e[2] = 0 THEN b ELSE F[<<e[1][e[2] - 1], e[2]>>]]
<1>1. rank \in [D -> Nat]
  OBVIOUS
<1>2. G \in [[D -> S] \X D -> S]
  OBVIOUS
<1>3. LooksDown(D, rank, S, G)
  <2> SUFFICES ASSUME NEW f \in [D -> S], NEW g \in [D -> S], NEW c \in D,
                      \A d \in D : rank[d] < rank[c] => f[d] = g[d]
               PROVE  G[<<f, c>>] = G[<<g, c>>]
    <3> HIDE DEF D, rank, G
    <3> QED BY DEF LooksDown
  <2>1. c # 0 => f[c - 1] = g[c - 1]
    <3>1. c # 0 => c - 1 \in D /\ rank[c - 1] < rank[c]
      OBVIOUS
    <3> QED BY <3>1
  <2> QED BY <2>1
<1>4. PICK f \in [D -> S] : Solves(f, D, G)
  <2> HIDE DEF D, rank, G
  <2> QED BY <1>1, <1>2, <1>3, Solution
<1>5. f[0] = b
  <2>1. 0 \in D
    OBVIOUS
  <2>2. f[0] = G[<<f, 0>>]
    <3> HIDE DEF D, G
    <3> QED BY <1>4, <2>1 DEF Solves
  <2>3. <<f, 0>> \in [D -> S] \X D
    <3> HIDE DEF D
    <3> QED BY <2>1
  <2> QED BY <2>2, <2>3
<1>6. \A i \in 1..m : f[i] = F[<<f[i - 1], i>>]
  <2> SUFFICES ASSUME NEW i \in 1..m PROVE f[i] = F[<<f[i - 1], i>>]
    OBVIOUS
  <2>1. i \in D /\ i # 0
    OBVIOUS
  <2>2. f[i] = G[<<f, i>>]
    <3> HIDE DEF D, G
    <3> QED BY <1>4, <2>1 DEF Solves
  <2>3. <<f, i>> \in [D -> S] \X D
    <3> HIDE DEF D
    <3> QED BY <2>1
  <2> QED BY <2>1, <2>2, <2>3
<1> QED BY <1>5, <1>6 DEF Iterates

(***************************************************************************)
(* Walks and sums over the options, or the containers, of a container.     *)
(***************************************************************************)

\* T holds 0 and with a number the next one, up to m.
Climbs(m, T) == 0 \in T /\ \A i \in 1..m : i - 1 \in T => i \in T

LEMMA Upwards ==
  ASSUME NEW m \in Nat, NEW T, Climbs(m, T)
  PROVE  0..m \subseteq T
<1> DEFINE U == T \cup {n \in Nat : n > m}
<1>1. 0 \in U
  BY DEF Climbs
<1>2. ASSUME NEW n \in Nat, n \in U PROVE n + 1 \in U
  <2>1. CASE n < m
    <3>1. n + 1 \in 1..m /\ (n + 1) - 1 = n /\ n \in T
      BY <1>2, <2>1
    <3> QED BY <3>1 DEF Climbs
  <2>2. CASE n >= m
    BY <2>2
  <2> QED BY <2>1, <2>2
<1>3. Nat \subseteq U
  <2> HIDE DEF U
  <2> QED BY <1>1, <1>2, SetInduction
<1> QED BY <1>3

\* at[i]: what is handed on after the first i elements
Steps(at, V, s, m) ==
  /\ at[0] = s
  /\ \A i \in 1..m : at[i] = IF at[i - 1].out = "go" THEN V[<<at[i - 1], i>>] ELSE at[i - 1]

LEMMA WalkIs ==
  ASSUME NEW m \in Nat, NEW V \in [State \X (1..m) -> State], NEW s \in State
  PROVE  \E at \in [0..m -> State] : Walk(V, s, m) = at[m] /\ Steps(at, V, s, m)
<1> DEFINE
  F == [e \in State \X (1..m) |-> IF e[1].out = "go" THEN V[e] ELSE e[1]]
  B(f) == [i \in 0..m |->
             IF i = 0 THEN s
             ELSE LET r == f[i - 1] IN IF r.out = "go" THEN V[<<r, i>>] ELSE r]
  at == CHOOSE f : f = B(f)
<1>1. F \in [State \X (1..m) -> State]
  OBVIOUS
<1>2. PICK f \in [0..m -> State] : Iterates(f, m, s, F)
  <2> HIDE DEF F
  <2> QED BY <1>1, Recursion
<1>3. f = B(f)
  <2>1. \A i \in 0..m : f[i] = B(f)[i]
    <3> SUFFICES ASSUME NEW i \in 0..m PROVE f[i] = B(f)[i]
      OBVIOUS
    <3>1. CASE i = 0
      BY <1>2, <3>1 DEF Iterates
    <3>2. CASE i # 0
      <4>1. i \in 1..m /\ i - 1 \in 0..m
        BY <3>2
      <4>2. f[i] = F[<<f[i - 1], i>>] /\ f[i - 1] \in State
        <5> HIDE DEF F
        <5> QED BY <1>2, <4>1 DEF Iterates
      <4> QED BY <3>2, <4>1, <4>2
    <3> QED BY <3>1, <3>2
  <2> QED BY <2>1
<1>4. at = B(at)
  <2> HIDE DEF B
  <2> QED BY <1>3
<1>5. Walk(V, s, m) = at[m]
  BY DEF Walk
<1> HIDE DEF at
<1>6. at[0] = s
  BY <1>4
<1>7. ASSUME NEW i \in 1..m
      PROVE  at[i] = IF at[i - 1].out = "go" THEN V[<<at[i - 1], i>>] ELSE at[i - 1]
  <2>1. i \in 0..m /\ i # 0
    OBVIOUS
  <2>2. at[i] = B(at)[i]
    <3> HIDE DEF B
    <3> QED BY <1>4
  <2> QED BY <2>1, <2>2
<1>8. Climbs(m, {i \in 0..m : at[i] \in State})
  <2>1. at[0] \in State
    BY <1>6
  <2>2. ASSUME NEW i \in 1..m, i - 1 \in 0..m, at[i - 1] \in State PROVE at[i] \in State
    <3>1. <<at[i - 1], i>> \in State \X (1..m)
      BY <2>2
    <3>2. V[<<at[i - 1], i>>] \in State
      BY <3>1
    <3> QED BY <1>7, <2>2, <3>2
  <2>3. \A i \in 1..m : i \in 0..m
    OBVIOUS
  <2> QED BY <2>1, <2>2, <2>3 DEF Climbs
<1>9. \A i \in 0..m : at[i] \in State
  <2> DEFINE T == {i \in 0..m : at[i] \in State}
  <2>1. 0..m \subseteq T
    <3>1. Climbs(m, T)
      BY <1>8
    <3> HIDE DEF T
    <3> QED BY <3>1, Upwards
  <2> QED BY <2>1
<1>10. at \in [0..m -> State]
  <2>1. at = [i \in 0..m |-> at[i]]
    BY <1>4
  <2> QED BY <1>9, <2>1
<1>11. Steps(at, V, s, m)
  BY <1>6, <1>7 DEF Steps
<1> QED BY <1>5, <1>10, <1>11

\* A walk that has been left stays where it is.
LEMMA LeftWalk ==
  ASSUME NEW m \in Nat, NEW V \in [State \X (1..m) -> State], NEW s \in State, s.out # "go"
  PROVE  Walk(V, s, m) = s
<1>1. PICK at \in [0..m -> State] : Walk(V, s, m) = at[m] /\ Steps(at, V, s, m)
  BY WalkIs
<1> DEFINE T == {i \in 0..m : at[i] = s}
<1>2. Climbs(m, T)
  <2>1. at[0] = s
    BY <1>1 DEF Steps
  <2>2. \A i \in 1..m : at[i - 1] = s => at[i] = s
    BY <1>1 DEF Steps
  <2>3. 0 \in 0..m /\ \A i \in 1..m : i \in 0..m
    OBVIOUS
  <2> QED BY <2>1, <2>2, <2>3 DEF Climbs
<1>3. 0..m \subseteq T
  <2> HIDE DEF T
  <2> QED BY <1>2, Upwards
<1> QED BY <1>1, <1>3

\* sum[i]: the sum of the first i numbers
Sums(sum, q, m) == sum[0] = 0 /\ \A i \in 1..m : sum[i] = sum[i - 1] + q[i]

LEMMA TotalIs ==
  ASSUME NEW m \in Nat, NEW q \in [1..m -> Nat]
  PROVE  \E sum \in [0..m -> Nat] : Total(q, m) = sum[m] /\ Sums(sum, q, m)
<1> DEFINE
  F == [e \in Nat \X (1..m) |-> e[1] + q[e[2]]]
  B(f) == [i \in 0..m |-> IF i = 0 THEN 0 ELSE f[i - 1] + q[i]]
  sum == CHOOSE f : f = B(f)
<1>1. F \in [Nat \X (1..m) -> Nat]
  OBVIOUS
<1>2. PICK f \in [0..m -> Nat] : Iterates(f, m, 0, F)
  <2> HIDE DEF F
  <2>1. \A b \in Nat : \E f \in [0..m -> Nat] : Iterates(f, m, b, F)
    BY <1>1, Recursion
  <2> QED BY <2>1
<1>3. f = B(f)
  <2>1. \A i \in 0..m : f[i] = B(f)[i]
    <3> SUFFICES ASSUME NEW i \in 0..m PROVE f[i] = B(f)[i]
      OBVIOUS
    <3>1. CASE i = 0
      BY <1>2, <3>1 DEF Iterates
    <3>2. CASE i # 0
      <4>1. i \in 1..m /\ i - 1 \in 0..m
        BY <3>2
      <4>2. f[i] = F[<<f[i - 1], i>>] /\ f[i - 1] \in Nat
        <5> HIDE DEF F
        <5> QED BY <1>2, <4>1 DEF Iterates
      <4> QED BY <3>2, <4>1, <4>2
    <3> QED BY <3>1, <3>2
  <2> QED BY <2>1
<1>4. sum = B(sum)
  <2> HIDE DEF B
  <2> QED BY <1>3
<1>5. Total(q, m) = sum[m]
  BY DEF Total
<1> HIDE DEF sum
<1>6. sum[0] = 0
  BY <1>4
<1>7. ASSUME NEW i \in 1..m PROVE sum[i] = sum[i - 1] + q[i]
  <2>1. i \in 0..m /\ i # 0
    OBVIOUS
  <2>2. sum[i] = B(sum)[i]
    <3> HIDE DEF B
    <3> QED BY <1>4
  <2> QED BY <2>1, <2>2
<1> DEFINE T == {i \in 0..m : sum[i] \in Nat}
<1>8. Climbs(m, T)
  <2>1. \A i \in 1..m : sum[i - 1] \in Nat => sum[i] \in Nat
    BY <1>7
  <2>2. 0 \in 0..m /\ \A i \in 1..m : i \in 0..m
    OBVIOUS
  <2> QED BY <1>6, <2>1, <2>2 DEF Climbs
<1>9. 0..m \subseteq T
  <2> HIDE DEF T
  <2> QED BY <1>8, Upwards
<1>10. sum \in [0..m -> Nat]
  <2>1. sum = [i \in 0..m |-> sum[i]]
    BY <1>4
  <2> QED BY <1>9, <2>1
<1> QED BY <1>5, <1>6, <1>7, <1>10 DEF Sums

(***************************************************************************)
(* The containers, and what is defined by recursion over them.             *)
(***************************************************************************)

Rank == [c \in Container |-> Height(c)]

LEMMA Elements ==
  ASSUME NEW S, NEW q \in Seq(S)
  PROVE  Len(q) \in Nat /\ \A i \in 1..Len(q) : q[i] \in S
OBVIOUS

LEMMA ContainerParts ==
  ASSUME NEW c \in Container
  PROVE  /\ c.kind \in {"and", "xor"}
         /\ Len(c.options) \in Nat /\ Len(c.subs) \in Nat
         /\ \A i \in 1..Len(c.options) :
              c.options[i] \in [name : OptionName, mandatory : BOOLEAN]
         /\ c.kind = "xor" => \A i \in 1..Len(c.options) : c.options[i].mandatory
         /\ \A i \in 1..Len(c.subs) :
              c.subs[i] \in Container /\ Rank[c.subs[i]] < Rank[c]
<1> USE ContainerAssumption DEF Trees
<1>1. c.options \in Seq([name : OptionName, mandatory : BOOLEAN])
  OBVIOUS
<1>2. c.subs \in Seq(Container)
  OBVIOUS
<1>3. \A i \in 1..Len(c.subs) : c.subs[i] \in Container
  BY ONLY <1>2, Elements
<1>4. \A i \in 1..Len(c.subs) : Rank[c.subs[i]] < Rank[c]
  BY <1>3 DEF Rank
<1>5. \A i \in 1..Len(c.options) : c.options[i] \in [name : OptionName, mandatory : BOOLEAN]
  <2> DEFINE S == [name : OptionName, mandatory : BOOLEAN]
  <2>1. c.options \in Seq(S)
    BY <1>1
  <2> HIDE DEF S
  <2>2. \A i \in 1..Len(c.options) : c.options[i] \in S
    BY ONLY <2>1, Elements
  <2> QED BY <2>2 DEF S
<1>6. Len(c.options) \in Nat /\ Len(c.subs) \in Nat
  BY <1>1, <1>2
<1>7. c.kind \in {"and", "xor"} /\ (c.kind = "xor" => \A i \in 1..Len(c.options) : c.options[i].mandatory)
  OBVIOUS
<1> QED BY ONLY <1>3, <1>4, <1>5, <1>6, <1>7

LEMMA RankType == Rank \in [Container -> Nat]
BY ContainerAssumption DEF Trees, Rank

\* f and g are the same for the containers in c.
Agree(f, g, c) == \A i \in 1..Len(c.subs) : f[c.subs[i]] = g[c.subs[i]]

LEMMA AgreeBelow ==
  ASSUME NEW f, NEW g, NEW c \in Container,
         \A d \in Container : Rank[d] < Rank[c] => f[d] = g[d]
  PROVE  Agree(f, g, c)
BY ContainerParts DEF Agree

(***************************************************************************)
(* The numbers of mandatory options                                        *)
(***************************************************************************)
OwnNums(c) == [i \in 1..Len(c.options) |-> IF c.options[i].mandatory THEN 1 ELSE 0]

SubNums(f, c) ==
  [i \in 1..Len(c.subs) |-> IF c.subs[i].kind = "and" THEN f[c.subs[i]] ELSE 1]

Num(f, c) == Total(OwnNums(c), Len(c.options)) + Total(SubNums(f, c), Len(c.subs))

LEMMA TotalType ==
  ASSUME NEW m \in Nat, NEW q \in [1..m -> Nat]
  PROVE  Total(q, m) \in Nat
<1>1. PICK sum \in [0..m -> Nat] : Total(q, m) = sum[m] /\ Sums(sum, q, m)
  BY TotalIs
<1> QED BY <1>1

LEMMA NumType ==
  ASSUME NEW f, NEW c \in Container, \A i \in 1..Len(c.subs) : f[c.subs[i]] \in Nat
  PROVE  /\ OwnNums(c) \in [1..Len(c.options) -> Nat]
         /\ SubNums(f, c) \in [1..Len(c.subs) -> Nat]
         /\ Num(f, c) \in Nat
<1>1. OwnNums(c) \in [1..Len(c.options) -> Nat]
  BY DEF OwnNums
<1>2. SubNums(f, c) \in [1..Len(c.subs) -> Nat]
  BY DEF SubNums
<1>3. Len(c.options) \in Nat /\ Len(c.subs) \in Nat
  BY ContainerParts
<1>4. Total(OwnNums(c), Len(c.options)) \in Nat
  BY <1>1, <1>3, TotalType
<1>5. Total(SubNums(f, c), Len(c.subs)) \in Nat
  BY <1>2, <1>3, TotalType
<1> QED BY <1>1, <1>2, <1>4, <1>5 DEF Num

LEMMA NumAgrees ==
  ASSUME NEW f, NEW g, NEW c, Agree(f, g, c)
  PROVE  Num(f, c) = Num(g, c)
<1>1. SubNums(f, c) = SubNums(g, c)
  BY DEF SubNums, Agree
<1> QED BY <1>1 DEF Num

\* append_mandatory_and_options() does what its recursive definition says.
LEMMA NumMandatoryIs ==
  /\ NumMandatory \in [Container -> Nat]
  /\ \A c \in Container : NumMandatory[c] = Num(NumMandatory, c)
<1> DEFINE
  F == [e \in [Container -> Nat] \X Container |-> Num(e[1], e[2])]
  B(f) == [c \in Container |-> Num(f, c)]
<1>1. F \in [[Container -> Nat] \X Container -> Nat]
  <2>1. \A f \in [Container -> Nat], c \in Container : Num(f, c) \in Nat
    BY NumType, ContainerParts
  <2> QED BY <2>1
<1>2. LooksDown(Container, Rank, Nat, F)
  <2> SUFFICES ASSUME NEW f \in [Container -> Nat], NEW g \in [Container -> Nat],
                      NEW c \in Container,
                      \A d \in Container : Rank[d] < Rank[c] => f[d] = g[d]
               PROVE  F[<<f, c>>] = F[<<g, c>>]
    <3> HIDE DEF F
    <3> QED BY DEF LooksDown
  <2>1. Num(f, c) = Num(g, c)
    BY AgreeBelow, NumAgrees
  <2> QED BY <2>1
<1>3. PICK f \in [Container -> Nat] : Solves(f, Container, F)
  <2> HIDE DEF F
  <2> QED BY <1>1, <1>2, RankType, Solution
<1>4. f = B(f)
  <2>1. \A c \in Container : f[c] = Num(f, c)
    BY <1>3 DEF Solves
  <2> QED BY <2>1
<1>5. NumMandatory = B(NumMandatory)
  <2>1. NumMandatory = CHOOSE g : g = B(g)
    BY DEF NumMandatory, Num, OwnNums, SubNums
  <2> HIDE DEF B
  <2> QED BY <1>4, <2>1
<1> DEFINE T == {c \in Container : NumMandatory[c] = f[c]}
<1>6. Inherited(Container, Rank, T)
  <2> SUFFICES ASSUME NEW c \in Container,
                      \A d \in Container : Rank[d] < Rank[c] => d \in T
               PROVE  c \in T
    BY DEF Inherited
  <2>1. Agree(NumMandatory, f, c)
    BY AgreeBelow
  <2>2. Num(NumMandatory, c) = Num(f, c)
    BY <2>1, NumAgrees
  <2>3. NumMandatory[c] = Num(NumMandatory, c)
    BY <1>5
  <2>4. f[c] = Num(f, c)
    BY <1>4
  <2> QED BY <2>2, <2>3, <2>4
<1>7. Container \subseteq T
  <2> HIDE DEF T
  <2> QED BY <1>6, RankType, RankInduction
<1>8. NumMandatory = f
  <2>1. NumMandatory = [c \in Container |-> NumMandatory[c]]
    BY <1>5
  <2> QED BY <1>7, <2>1
<1> QED BY <1>4, <1>8

(***************************************************************************)
(* The containers below a container                                        *)
(***************************************************************************)
BelowOf(f, c) == {c} \cup UNION {f[c.subs[i]] : i \in 1..Len(c.subs)}

LEMMA BelowAgrees ==
  ASSUME NEW f, NEW g, NEW c, Agree(f, g, c)
  PROVE  BelowOf(f, c) = BelowOf(g, c)
BY DEF BelowOf, Agree

\* All that is below a container is the container itself and what is below
\* the containers in it.
LEMMA BelowIs ==
  /\ Below \in [Container -> SUBSET Container]
  /\ \A c \in Container : Below[c] = BelowOf(Below, c)
<1> DEFINE
  X == SUBSET Container
  F == [e \in [Container -> X] \X Container |-> BelowOf(e[1], e[2])]
  B(f) == [c \in Container |-> BelowOf(f, c)]
<1>1. F \in [[Container -> X] \X Container -> X]
  <2>1. \A f \in [Container -> X], c \in Container : BelowOf(f, c) \in X
    <3> SUFFICES ASSUME NEW f \in [Container -> X], NEW c \in Container
                 PROVE  BelowOf(f, c) \subseteq Container
      OBVIOUS
    <3>1. \A i \in 1..Len(c.subs) : f[c.subs[i]] \subseteq Container
      BY ContainerParts
    <3> QED BY <3>1 DEF BelowOf
  <2> QED BY <2>1
<1>2. LooksDown(Container, Rank, X, F)
  <2> SUFFICES ASSUME NEW f \in [Container -> X], NEW g \in [Container -> X],
                      NEW c \in Container,
                      \A d \in Container : Rank[d] < Rank[c] => f[d] = g[d]
               PROVE  F[<<f, c>>] = F[<<g, c>>]
    <3> HIDE DEF F, X
    <3> QED BY DEF LooksDown
  <2>1. BelowOf(f, c) = BelowOf(g, c)
    BY AgreeBelow, BelowAgrees
  <2> HIDE DEF X
  <2> QED BY <2>1
<1>3. PICK f \in [Container -> X] : Solves(f, Container, F)
  <2>1. X # {}
    OBVIOUS
  <2> HIDE DEF F, X
  <2> QED BY <1>1, <1>2, <2>1, RankType, Solution
<1>4. f = B(f)
  <2>1. \A c \in Container : f[c] = BelowOf(f, c)
    <3> HIDE DEF X
    <3> QED BY <1>3 DEF Solves
  <2> QED BY <2>1
<1>5. Below = B(Below)
  <2>1. Below = CHOOSE g : g = B(g)
    BY DEF Below, BelowOf
  <2> HIDE DEF B
  <2> QED BY <1>4, <2>1
<1> DEFINE T == {c \in Container : Below[c] = f[c]}
<1>6. Inherited(Container, Rank, T)
  <2> SUFFICES ASSUME NEW c \in Container,
                      \A d \in Container : Rank[d] < Rank[c] => d \in T
               PROVE  c \in T
    BY DEF Inherited
  <2>1. Agree(Below, f, c)
    BY AgreeBelow
  <2>2. BelowOf(Below, c) = BelowOf(f, c)
    BY <2>1, BelowAgrees
  <2>3. Below[c] = BelowOf(Below, c)
    BY <1>5
  <2>4. f[c] = BelowOf(f, c)
    BY <1>4
  <2> QED BY <2>2, <2>3, <2>4
<1>7. Container \subseteq T
  <2> HIDE DEF T
  <2> QED BY <1>6, RankType, RankInduction
<1>8. Below = f
  <2>1. Below = [c \in Container |-> Below[c]]
    BY <1>5
  <2> QED BY <1>7, <2>1
<1> QED BY <1>4, <1>8

(***************************************************************************)
(* The formula                                                             *)
(***************************************************************************)
MeetsOf(f, c) ==
  IF c.kind = "and"
  THEN /\ \A i \in 1..Len(c.options) : c.options[i].mandatory => c.options[i].name \in given
       /\ \A i \in 1..Len(c.subs) : f[c.subs[i]]
  ELSE \E x \in Chosen(c) :
         /\ Chosen(c) = {x}
         /\ x[1] = "sub" => f[c.subs[x[2]]]

LEMMA MeetsAgrees ==
  ASSUME NEW f, NEW g, NEW c, Agree(f, g, c)
  PROVE  MeetsOf(f, c) = MeetsOf(g, c)
<1>1. ASSUME NEW x \in Chosen(c), x[1] = "sub" PROVE f[c.subs[x[2]]] = g[c.subs[x[2]]]
  <2>1. x[2] \in 1..Len(c.subs)
    BY <1>1 DEF Chosen
  <2> QED BY <2>1 DEF Agree
<1>2. (\A i \in 1..Len(c.subs) : f[c.subs[i]]) <=> \A i \in 1..Len(c.subs) : g[c.subs[i]]
  BY DEF Agree
<1>3. (\E x \in Chosen(c) : Chosen(c) = {x} /\ (x[1] = "sub" => f[c.subs[x[2]]]))
      <=> \E x \in Chosen(c) : Chosen(c) = {x} /\ (x[1] = "sub" => g[c.subs[x[2]]])
  BY <1>1
<1> QED BY <1>2, <1>3 DEF MeetsOf

\* The formula of a container follows from those of the containers in it.
LEMMA MeetsIs ==
  /\ Meets \in [Container -> BOOLEAN]
  /\ \A c \in Container : Meets[c] = MeetsOf(Meets, c)
<1> DEFINE
  F == [e \in [Container -> BOOLEAN] \X Container |-> MeetsOf(e[1], e[2])]
  B(f) == [c \in Container |-> MeetsOf(f, c)]
<1>1. F \in [[Container -> BOOLEAN] \X Container -> BOOLEAN]
  <2>1. \A f \in [Container -> BOOLEAN], c \in Container : MeetsOf(f, c) \in BOOLEAN
    BY DEF MeetsOf
  <2> QED BY <2>1
<1>2. LooksDown(Container, Rank, BOOLEAN, F)
  <2> SUFFICES ASSUME NEW f \in [Container -> BOOLEAN], NEW g \in [Container -> BOOLEAN],
                      NEW c \in Container,
                      \A d \in Container : Rank[d] < Rank[c] => f[d] = g[d]
               PROVE  F[<<f, c>>] = F[<<g, c>>]
    <3> HIDE DEF F
    <3> QED BY DEF LooksDown
  <2>1. MeetsOf(f, c) = MeetsOf(g, c)
    BY AgreeBelow, MeetsAgrees
  <2> QED BY <2>1
<1>3. PICK f \in [Container -> BOOLEAN] : Solves(f, Container, F)
  <2> HIDE DEF F
  <2> QED BY <1>1, <1>2, RankType, Solution
<1>4. f = B(f)
  <2>1. \A c \in Container : f[c] = MeetsOf(f, c)
    BY <1>3 DEF Solves
  <2> QED BY <2>1
<1>5. Meets = B(Meets)
  <2>1. Meets = CHOOSE g : g = B(g)
    BY DEF Meets, MeetsOf
  <2> HIDE DEF B
  <2> QED BY <1>4, <2>1
<1> DEFINE T == {c \in Container : Meets[c] = f[c]}
<1>6. Inherited(Container, Rank, T)
  <2> SUFFICES ASSUME NEW c \in Container,
                      \A d \in Container : Rank[d] < Rank[c] => d \in T
               PROVE  c \in T
    BY DEF Inherited
  <2>1. Agree(Meets, f, c)
    BY AgreeBelow
  <2>2. MeetsOf(Meets, c) = MeetsOf(f, c)
    BY <2>1, MeetsAgrees
  <2>3. Meets[c] = MeetsOf(Meets, c)
    BY <1>5
  <2>4. f[c] = MeetsOf(f, c)
    BY <1>4
  <2> QED BY <2>2, <2>3, <2>4
<1>7. Container \subseteq T
  <2> HIDE DEF T
  <2> QED BY <1>6, RankType, RankInduction
<1>8. Meets = f
  <2>1. Meets = [c \in Container |-> Meets[c]]
    BY <1>5
  <2> QED BY <1>7, <2>1
<1> QED BY <1>4, <1>8

(***************************************************************************)
(* The walk through a container                                            *)
(***************************************************************************)
AnOption(c) ==
  [e \in State \X (1..Len(c.options)) |->
     IF c.kind = "xor" THEN XorOption(e[1], c.options[e[2]])
                       ELSE AndOption(e[1], c.options[e[2]])]

ASub(f, c) ==
  [e \in State \X (1..Len(c.subs)) |->
     IF c.kind = "xor" THEN InXor(e[1], c.subs[e[2]], f[c.subs[e[2]]])
                       ELSE InAnd(e[1], c.subs[e[2]], f[c.subs[e[2]]])]

WalkOf(f, c) ==
  [s \in State |-> Walk(ASub(f, c), Walk(AnOption(c), s, Len(c.options)), Len(c.subs))]

LEMMA StateFields ==
  ASSUME NEW s \in State
  PROVE  /\ s.out \in {"go", "throw", "abort"} /\ s.xor \in BOOLEAN /\ s.ands \in Nat
         /\ s = [out |-> s.out, xor |-> s.xor, ands |-> s.ands]
BY DEF State

LEMMA OptionTypes ==
  ASSUME NEW s \in State, NEW o
  PROVE  XorOption(s, o) \in State /\ AndOption(s, o) \in State
<1>1. \A r \in State : Value(o, r) \in State
  BY DEF Value, Leave, State
<1>2. [s EXCEPT !.xor = TRUE] \in State /\ [s EXCEPT !.ands = @ + 1] \in State
  <2>1. s.ands + 1 \in Nat
    BY DEF State
  <2>2. \A n \in Nat : [s EXCEPT !.ands = n] \in State
    BY DEF State
  <2>3. [s EXCEPT !.xor = TRUE] \in State
    BY DEF State
  <2> QED BY <2>1, <2>2, <2>3
<1>3. Leave(s, "throw") \in State
  BY DEF State, Leave
<1> QED BY <1>1, <1>2, <1>3 DEF XorOption, AndOption

LEMMA FinalType ==
  ASSUME NEW c, NEW s \in State, NEW b
  PROVE  Final(c, s, b) \in State
<1>1. Leave(s, "throw") \in State
  BY DEF State, Leave
<1> QED BY <1>1 DEF Final

LEMMA StartType == Start \in State
BY DEF Start, State

LEMMA SubTypes ==
  ASSUME NEW s \in State, NEW d, NEW walk \in [State -> State]
  PROVE  InXor(s, d, walk) \in State /\ InAnd(s, d, walk) \in State
<1>1. InXor(s, d, walk) \in State
  <2> DEFINE q == Final(d, walk[[s EXCEPT !.ands = 0]], TRUE)
  <2>1. [s EXCEPT !.ands = 0] \in State
    BY DEF State
  <2>2. q \in State
    BY <2>1, FinalType
  <2>3. InXor(s, d, walk) = IF d.kind = "xor" THEN walk[s]
          ELSE [ands |-> s.ands, xor |-> q.xor \/ q.ands > 0,
                out |-> IF q.out = "go" /\ q.ands > 0 /\ q.xor THEN "abort" ELSE q.out]
    BY DEF InXor
  <2> HIDE DEF q
  <2>4. walk[s] \in State
    OBVIOUS
  <2> QED BY <2>2, <2>3, <2>4 DEF State
<1>2. InAnd(s, d, walk) \in State
  <2>1. walk[Start] \in State /\ walk[s] \in State
    BY StartType
  <2>2. \A r \in State :
          [s EXCEPT !.out = r.out, !.ands = IF r.xor THEN @ + 1 ELSE @] \in State
    <3>1. s.ands \in Nat /\ s.ands + 1 \in Nat
      BY DEF State
    <3>2. \A r \in State, n \in Nat : [s EXCEPT !.out = r.out, !.ands = n] \in State
      BY DEF State
    <3> QED BY <3>1, <3>2
  <2> QED BY <2>1, <2>2 DEF InAnd
<1> QED BY <1>1, <1>2

LEMMA WalkType ==
  ASSUME NEW m \in Nat, NEW V \in [State \X (1..m) -> State], NEW s \in State
  PROVE  Walk(V, s, m) \in State
<1>1. PICK at \in [0..m -> State] : Walk(V, s, m) = at[m] /\ Steps(at, V, s, m)
  BY WalkIs
<1> QED BY <1>1

LEMMA WalkOfType ==
  ASSUME NEW f, NEW c \in Container,
         \A i \in 1..Len(c.subs) : f[c.subs[i]] \in [State -> State]
  PROVE  /\ AnOption(c) \in [State \X (1..Len(c.options)) -> State]
         /\ ASub(f, c) \in [State \X (1..Len(c.subs)) -> State]
         /\ WalkOf(f, c) \in [State -> State]
<1>1. AnOption(c) \in [State \X (1..Len(c.options)) -> State]
  BY OptionTypes DEF AnOption
<1>2. ASub(f, c) \in [State \X (1..Len(c.subs)) -> State]
  BY SubTypes DEF ASub
<1>3. Len(c.options) \in Nat /\ Len(c.subs) \in Nat
  BY ContainerParts
<1>4. \A s \in State : Walk(AnOption(c), s, Len(c.options)) \in State
  BY <1>1, <1>3, WalkType
<1>5. \A s \in State : Walk(ASub(f, c), s, Len(c.subs)) \in State
  BY <1>2, <1>3, WalkType
<1> QED BY <1>1, <1>2, <1>4, <1>5 DEF WalkOf

LEMMA WalkAgrees ==
  ASSUME NEW f, NEW g, NEW c, Agree(f, g, c)
  PROVE  WalkOf(f, c) = WalkOf(g, c)
<1>1. ASub(f, c) = ASub(g, c)
  BY DEF ASub, Agree
<1> QED BY <1>1 DEF WalkOf

\* The walk through a container consists of those through the containers in it.
LEMMA ThroughIs ==
  /\ Through \in [Container -> [State -> State]]
  /\ \A c \in Container : Through[c] = WalkOf(Through, c)
<1> DEFINE
  X == [State -> State]
  F == [e \in [Container -> X] \X Container |-> WalkOf(e[1], e[2])]
  B(f) == [c \in Container |-> WalkOf(f, c)]
<1>1. F \in [[Container -> X] \X Container -> X]
  <2>1. \A f \in [Container -> X], c \in Container : WalkOf(f, c) \in X
    BY WalkOfType, ContainerParts
  <2> HIDE DEF X
  <2> QED BY <2>1
<1>2. LooksDown(Container, Rank, X, F)
  <2> SUFFICES ASSUME NEW f \in [Container -> X], NEW g \in [Container -> X],
                      NEW c \in Container,
                      \A d \in Container : Rank[d] < Rank[c] => f[d] = g[d]
               PROVE  F[<<f, c>>] = F[<<g, c>>]
    <3> HIDE DEF F, X
    <3> QED BY DEF LooksDown
  <2>1. WalkOf(f, c) = WalkOf(g, c)
    BY AgreeBelow, WalkAgrees
  <2> HIDE DEF X
  <2> QED BY <2>1
<1>3. PICK f \in [Container -> X] : Solves(f, Container, F)
  <2>1. X # {}
    <3>1. [s \in State |-> s] \in X
      OBVIOUS
    <3> QED BY <3>1
  <2> HIDE DEF F, X
  <2> QED BY <1>1, <1>2, <2>1, RankType, Solution
<1>4. f = B(f)
  <2>1. \A c \in Container : f[c] = WalkOf(f, c)
    <3> HIDE DEF X
    <3> QED BY <1>3 DEF Solves
  <2> QED BY <2>1
<1>5. Through = B(Through)
  <2>1. Through = CHOOSE g : g = B(g)
    BY DEF Through, WalkOf, AnOption, ASub
  <2> HIDE DEF B
  <2> QED BY <1>4, <2>1
<1> DEFINE T == {c \in Container : Through[c] = f[c]}
<1>6. Inherited(Container, Rank, T)
  <2> SUFFICES ASSUME NEW c \in Container,
                      \A d \in Container : Rank[d] < Rank[c] => d \in T
               PROVE  c \in T
    BY DEF Inherited
  <2>1. Agree(Through, f, c)
    BY AgreeBelow
  <2>2. WalkOf(Through, c) = WalkOf(f, c)
    BY <2>1, WalkAgrees
  <2>3. Through[c] = WalkOf(Through, c)
    BY <1>5
  <2>4. f[c] = WalkOf(f, c)
    BY <1>4
  <2> QED BY <2>2, <2>3, <2>4
<1>7. Container \subseteq T
  <2> HIDE DEF T
  <2> QED BY <1>6, RankType, RankInduction
<1>8. Through = f
  <2>1. Through = [c \in Container |-> Through[c]]
    BY <1>5
  <2> QED BY <1>7, <2>1
<1> QED BY <1>4, <1>8

(***************************************************************************)
(* Walks through parts: C, T and M are the numbers of the parts whose      *)
(* values can be accepted (clean), of which something mandatory is given   *)
(* (touched) and which are given as they should be (met).                  *)
(***************************************************************************)

\* The part i is passed in a walk that has, or has not, seen an alternative.
Passable(i, C, T, M, xor) == i \in C /\ (i \in T => i \in M /\ ~xor)

LEMMA Extended ==
  ASSUME NEW m \in Nat, NEW k \in 1..m
  PROVE  1..k = (1..(k - 1)) \cup {k} /\ k \notin 1..(k - 1) /\ k - 1 \in 0..m
OBVIOUS

\* What the parts of an xor container do with a walk
XorParts(V, m, C, T, M) ==
  \A i \in 1..m, r \in State : r.out = "go" =>
    /\ V[<<r, i>>].out = "go" <=> Passable(i, C, T, M, r.xor)
    /\ V[<<r, i>>].out = "go" =>
         /\ V[<<r, i>>].xor <=> r.xor \/ i \in T
         /\ V[<<r, i>>].ands = r.ands

\* No value is refused, and there is one alternative at most.
Alternatives(k, C, T, M, xor) ==
  \A i \in 1..k : /\ Passable(i, C, T, M, xor)
                  /\ i \in T => \A j \in 1..k : j \in T => j = i

LEMMA XorWalk ==
  ASSUME NEW m \in Nat, NEW V \in [State \X (1..m) -> State],
         NEW s \in State, s.out = "go",
         NEW C, NEW T, NEW M, XorParts(V, m, C, T, M)
  PROVE  /\ Walk(V, s, m).out = "go" <=> Alternatives(m, C, T, M, s.xor)
         /\ Walk(V, s, m).out = "go" =>
              /\ Walk(V, s, m).xor <=> s.xor \/ \E i \in 1..m : i \in T
              /\ Walk(V, s, m).ands = s.ands
<1>1. PICK at \in [0..m -> State] : Walk(V, s, m) = at[m] /\ Steps(at, V, s, m)
  BY WalkIs
<1> DEFINE
  Good(k) == /\ at[k].out = "go" <=> Alternatives(k, C, T, M, s.xor)
             /\ at[k].out = "go" =>
                  /\ at[k].xor <=> s.xor \/ \E i \in 1..k : i \in T
                  /\ at[k].ands = s.ands
  K == {k \in 0..m : Good(k)}
<1>2. 0 \in K
  <2>1. at[0] = s
    BY <1>1 DEF Steps
  <2>2. 1..0 = {}
    OBVIOUS
  <2>3. Alternatives(0, C, T, M, s.xor)
    BY <2>2 DEF Alternatives
  <2> QED BY <2>1, <2>2, <2>3
<1>3. ASSUME NEW k \in 1..m, k - 1 \in K PROVE k \in K
  <2>1. 1..k = (1..(k - 1)) \cup {k} /\ k \notin 1..(k - 1) /\ k - 1 \in 0..m
    BY Extended
  <2> DEFINE r == at[k - 1]
  <2>2. at[k] = IF r.out = "go" THEN V[<<r, k>>] ELSE r
    BY <1>1 DEF Steps
  <2>3. r \in State /\ Good(k - 1)
    BY <1>3, <2>1
  <2>4. r.xor \in BOOLEAN /\ s.xor \in BOOLEAN /\ at[k].xor \in BOOLEAN
    <3>1. k \in 0..m
      OBVIOUS
    <3> QED BY <2>3, <3>1, StateFields
  <2>5. Alternatives(k, C, T, M, s.xor) <=>
          /\ Alternatives(k - 1, C, T, M, s.xor)
          /\ Passable(k, C, T, M, s.xor \/ \E i \in 1..(k - 1) : i \in T)
    <3> DEFINE J == 1..(k - 1)
    <3>1. \A i \in J : i # k
      BY <2>1
    <3> HIDE DEF J
    <3>2. 1..k = J \cup {k}
      BY <2>1 DEF J
    <3> SUFFICES (\A i \in J \cup {k} :
                    /\ Passable(i, C, T, M, s.xor)
                    /\ i \in T => \A j \in J \cup {k} : j \in T => j = i) <=>
                 /\ \A i \in J : /\ Passable(i, C, T, M, s.xor)
                                 /\ i \in T => \A j \in J : j \in T => j = i
                 /\ Passable(k, C, T, M, s.xor \/ \E i \in J : i \in T)
      BY <3>2 DEF Alternatives, J
    <3> QED BY <3>1 DEF Passable
  <2>6. CASE r.out = "go"
    <3>1. at[k] = V[<<r, k>>]
      BY <2>2, <2>6
    <3>2. r.xor <=> s.xor \/ \E i \in 1..(k - 1) : i \in T
      BY <2>3, <2>6
    <3>3. at[k].out = "go" <=> Passable(k, C, T, M, r.xor)
      BY <2>3, <2>6, <3>1 DEF XorParts
    <3>4. at[k].out = "go" => (at[k].xor <=> r.xor \/ k \in T) /\ at[k].ands = r.ands
      BY <2>3, <2>6, <3>1 DEF XorParts
    <3>5. at[k].out = "go" <=> Alternatives(k, C, T, M, s.xor)
      <4>1. Alternatives(k - 1, C, T, M, s.xor)
        BY <2>3, <2>6
      <4>2. Passable(k, C, T, M, r.xor)
            <=> Passable(k, C, T, M, s.xor \/ \E i \in 1..(k - 1) : i \in T)
        BY <3>2 DEF Passable
      <4> QED BY <2>5, <3>3, <4>1, <4>2
    <3>6. (\E i \in 1..k : i \in T) <=> k \in T \/ \E i \in 1..(k - 1) : i \in T
      BY <2>1
    <3>7. r.ands = s.ands
      BY <2>3, <2>6
    <3> QED BY <3>2, <3>4, <3>5, <3>6, <3>7
  <2>7. CASE r.out # "go"
    <3>1. at[k].out # "go"
      BY <2>2, <2>7
    <3>2. ~Alternatives(k, C, T, M, s.xor)
      BY <2>3, <2>5, <2>7
    <3> QED BY <3>1, <3>2
  <2> QED BY <2>6, <2>7
<1>4. 0..m \subseteq K
  <2>1. Climbs(m, K)
    <3> HIDE DEF K
    <3> QED BY <1>2, <1>3 DEF Climbs
  <2> HIDE DEF K
  <2> QED BY <2>1, Upwards
<1>5. Good(m)
  BY <1>4
<1> QED BY <1>1, <1>5

\* Of n mandatory options u are given: none if nothing is touched, all if met.
Counts(u, n, touched, met) ==
  u <= n /\ (u = 0 <=> ~touched) /\ (u = n <=> met)

LEMMA CountsAdd ==
  ASSUME NEW u \in Nat, NEW v \in Nat, NEW n \in Nat, NEW k \in Nat,
         NEW t1, NEW t2, NEW m1, NEW m2,
         Counts(u, n, t1, m1), Counts(v, k, t2, m2)
  PROVE  u + v \in Nat /\ Counts(u + v, n + k, t1 \/ t2, m1 /\ m2)
<1>1. u <= n /\ v <= k
  BY DEF Counts
<1>2. u + v <= n + k /\ u + v \in Nat
  BY <1>1
<1>3. u + v = 0 <=> u = 0 /\ v = 0
  OBVIOUS
<1>4. u + v = n + k <=> u = n /\ v = k
  BY <1>1
<1> QED BY <1>2, <1>3, <1>4 DEF Counts

\* What the parts of an and container do with a walk
AndParts(V, m, C, T, M, N) ==
  \A i \in 1..m, r \in State : r.out = "go" =>
    /\ Passable(i, C, T, M, r.xor) => V[<<r, i>>].out = "go"
    /\ V[<<r, i>>].out = "go" =>
         /\ i \in C
         /\ V[<<r, i>>].xor <=> r.xor
         /\ \E u \in Nat : /\ V[<<r, i>>].ands = r.ands + u
                           /\ Counts(u, N[i], i \in T, i \in M)

\* Of n mandatory options of the first k parts, those were counted from s to q
\* that were found.
Counted(q, s, k, T, M, n) ==
  \E u \in Nat : /\ q.ands = s.ands + u
                 /\ Counts(u, n, \E i \in 1..k : i \in T, \A i \in 1..k : i \in M)

LEMMA AndWalk ==
  ASSUME NEW m \in Nat, NEW V \in [State \X (1..m) -> State],
         NEW s \in State, s.out = "go",
         NEW C, NEW T, NEW M, NEW N \in [1..m -> Nat], AndParts(V, m, C, T, M, N)
  PROVE  /\ (\A i \in 1..m : Passable(i, C, T, M, s.xor)) => Walk(V, s, m).out = "go"
         /\ Walk(V, s, m).out = "go" =>
              /\ \A i \in 1..m : i \in C
              /\ Walk(V, s, m).xor <=> s.xor
              /\ Counted(Walk(V, s, m), s, m, T, M, Total(N, m))
<1>1. PICK at \in [0..m -> State] : Walk(V, s, m) = at[m] /\ Steps(at, V, s, m)
  BY WalkIs
<1>2. PICK sum \in [0..m -> Nat] : Total(N, m) = sum[m] /\ Sums(sum, N, m)
  BY TotalIs
<1> DEFINE
  Good(k) == /\ (\A i \in 1..k : Passable(i, C, T, M, s.xor)) => at[k].out = "go"
             /\ at[k].out = "go" =>
                  /\ \A i \in 1..k : i \in C
                  /\ at[k].xor <=> s.xor
                  /\ Counted(at[k], s, k, T, M, sum[k])
  K == {k \in 0..m : Good(k)}
<1>3. 0 \in K
  <2>1. at[0] = s
    BY <1>1 DEF Steps
  <2>2. 1..0 = {}
    OBVIOUS
  <2>3. Counts(0, sum[0], \E i \in 1..0 : i \in T, \A i \in 1..0 : i \in M)
    BY <1>2, <2>2 DEF Sums, Counts
  <2>4. s.ands = s.ands + 0
    BY StateFields
  <2>5. Counted(at[0], s, 0, T, M, sum[0])
    BY <2>1, <2>3, <2>4 DEF Counted
  <2> QED BY <2>1, <2>2, <2>5
<1>4. ASSUME NEW k \in 1..m, k - 1 \in K PROVE k \in K
  <2>1. 1..k = (1..(k - 1)) \cup {k} /\ k \notin 1..(k - 1) /\ k - 1 \in 0..m
    BY Extended
  <2> DEFINE r == at[k - 1]
  <2>2. at[k] = IF r.out = "go" THEN V[<<r, k>>] ELSE r
    BY <1>1 DEF Steps
  <2>3. r \in State /\ Good(k - 1)
    BY <1>4, <2>1
  <2>4. CASE r.out = "go"
    <3>1. at[k] = V[<<r, k>>]
      BY <2>2, <2>4
    <3>2. PICK u \in Nat :
            /\ r.ands = s.ands + u
            /\ Counts(u, sum[k - 1], \E i \in 1..(k - 1) : i \in T, \A i \in 1..(k - 1) : i \in M)
      BY <2>3, <2>4 DEF Counted
    <3>3. (r.xor <=> s.xor) /\ \A i \in 1..(k - 1) : i \in C
      BY <2>3, <2>4
    <3>4. Passable(k, C, T, M, r.xor) => at[k].out = "go"
      BY <2>3, <2>4, <3>1 DEF AndParts
    <3>5. (\A i \in 1..k : Passable(i, C, T, M, s.xor)) => at[k].out = "go"
      <4>1. Passable(k, C, T, M, s.xor) => Passable(k, C, T, M, r.xor)
        BY <3>3 DEF Passable
      <4>2. k \in 1..k
        BY <2>1
      <4> QED BY <3>4, <4>1, <4>2
    <3>6. ASSUME at[k].out = "go"
          PROVE  /\ \A i \in 1..k : i \in C
                 /\ at[k].xor <=> s.xor
                 /\ Counted(at[k], s, k, T, M, sum[k])
      <4>1. k \in C /\ (at[k].xor <=> r.xor)
        BY <2>3, <2>4, <3>1, <3>6 DEF AndParts
      <4>2. PICK v \in Nat : at[k].ands = r.ands + v /\ Counts(v, N[k], k \in T, k \in M)
        BY <2>3, <2>4, <3>1, <3>6 DEF AndParts
      <4>3. sum[k - 1] \in Nat /\ N[k] \in Nat /\ sum[k] = sum[k - 1] + N[k]
        BY <1>2, <2>1 DEF Sums
      <4> DEFINE t == \E i \in 1..(k - 1) : i \in T
                 e == \A i \in 1..(k - 1) : i \in M
      <4>4. Counts(u, sum[k - 1], t, e)
        BY <3>2
      <4>5. (t \/ k \in T <=> \E i \in 1..k : i \in T) /\ (e /\ k \in M <=> \A i \in 1..k : i \in M)
        BY <2>1
      <4> HIDE DEF t, e
      <4>6. u + v \in Nat /\ Counts(u + v, sum[k - 1] + N[k], t \/ k \in T, e /\ k \in M)
        <5> DEFINE a == sum[k - 1]
                   b == N[k]
        <5>1. a \in Nat /\ b \in Nat /\ Counts(u, a, t, e) /\ Counts(v, b, k \in T, k \in M)
          BY <4>2, <4>3, <4>4
        <5> HIDE DEF a, b
        <5>2. u + v \in Nat /\ Counts(u + v, a + b, t \/ k \in T, e /\ k \in M)
          BY <5>1, CountsAdd
        <5> QED BY <5>2 DEF a, b
      <4>7. Counts(u + v, sum[k], \E i \in 1..k : i \in T, \A i \in 1..k : i \in M)
        BY <4>3, <4>5, <4>6 DEF Counts
      <4>8. at[k].ands = s.ands + (u + v)
        <5>1. s.ands \in Nat
          BY StateFields
        <5> QED BY <3>2, <4>2, <5>1
      <4>9. Counted(at[k], s, k, T, M, sum[k])
        BY <4>6, <4>7, <4>8 DEF Counted
      <4> QED BY <2>1, <3>3, <4>1, <4>9
    <3>7. Good(k)
      BY ONLY <3>5, <3>6
    <3>8. k \in 0..m
      OBVIOUS
    <3> HIDE DEF Good
    <3> QED BY <3>7, <3>8
  <2>5. CASE r.out # "go"
    <3>1. at[k].out # "go"
      BY <2>2, <2>5
    <3>2. ~(\A i \in 1..(k - 1) : Passable(i, C, T, M, s.xor))
      BY <2>3, <2>5
    <3>3. ~(\A i \in 1..k : Passable(i, C, T, M, s.xor))
      BY <2>1, <3>2
    <3>4. Good(k)
      BY ONLY <3>1, <3>3
    <3>5. k \in 0..m
      OBVIOUS
    <3> HIDE DEF Good
    <3> QED BY <3>4, <3>5
  <2> QED BY <2>4, <2>5
<1>5. 0..m \subseteq K
  <2>1. Climbs(m, K)
    <3> HIDE DEF K
    <3> QED BY <1>3, <1>4 DEF Climbs
  <2> HIDE DEF K
  <2> QED BY <2>1, Upwards
<1>6. Good(m)
  BY <1>5
<1> QED BY <1>1, <1>2, <1>6

(***************************************************************************)
(* What a container wants, by its options and the containers in it.        *)
(***************************************************************************)
OptionsClean(c) ==
  {i \in 1..Len(c.options) :
     (c.kind = "and" \/ c.options[i].name \in given) => c.options[i].name \notin refused}
OptionsTouched(c) ==
  {i \in 1..Len(c.options) : c.options[i].mandatory /\ c.options[i].name \in given}
OptionsMet(c) ==
  {i \in 1..Len(c.options) : c.options[i].mandatory => c.options[i].name \in given}

Clean(c) == Looked(c) \cap refused = {}

SubsClean(c) == {i \in 1..Len(c.subs) : Clean(c.subs[i])}
SubsTouched(c) == {i \in 1..Len(c.subs) : ~Untouched(c.subs[i])}
SubsMet(c) == {i \in 1..Len(c.subs) : Meets[c.subs[i]]}

\* A walk that has, or has not, seen an alternative can go through c.
Fine(c, xor) == Clean(c) /\ (~Untouched(c) => Meets[c] /\ ~xor)

LEMMA CleanIs ==
  ASSUME NEW c \in Container
  PROVE  Clean(c) <=> /\ \A i \in 1..Len(c.options) : i \in OptionsClean(c)
                      /\ \A i \in 1..Len(c.subs) : i \in SubsClean(c)
<1> DEFINE
  Own(d) == {d.options[i].name : i \in 1..Len(d.options)}
              \cap (IF d.kind = "and" THEN OptionName ELSE given)
<1>1. \A d : Clean(d) <=> \A e \in Below[d] : Own(e) \cap refused = {}
  <2>1. \A d : Looked(d) = UNION {Own(e) : e \in Below[d]}
    BY DEF Looked
  <2> HIDE DEF Own
  <2> QED BY <2>1 DEF Clean
<1>2. Own(c) \cap refused = {} <=> \A i \in 1..Len(c.options) : i \in OptionsClean(c)
  <2>1. \A i \in 1..Len(c.options) : c.options[i].name \in OptionName
    BY ContainerParts
  <2>2. CASE c.kind = "and"
    BY <2>1, <2>2 DEF OptionsClean
  <2>3. CASE c.kind # "and"
    BY <2>3 DEF OptionsClean
  <2> QED BY <2>2, <2>3
<1>3. Below[c] = {c} \cup UNION {Below[c.subs[i]] : i \in 1..Len(c.subs)}
  BY BelowIs DEF BelowOf
<1>4. (\A e \in Below[c] : Own(e) \cap refused = {}) <=>
        /\ Own(c) \cap refused = {}
        /\ \A i \in 1..Len(c.subs) : \A e \in Below[c.subs[i]] : Own(e) \cap refused = {}
  <2> HIDE DEF Own
  <2> QED BY <1>3
<1> HIDE DEF Own
<1>5. \A i \in 1..Len(c.subs) :
        i \in SubsClean(c) <=> \A e \in Below[c.subs[i]] : Own(e) \cap refused = {}
  BY <1>1 DEF SubsClean
<1> QED BY <1>1, <1>2, <1>4, <1>5

LEMMA UntouchedIs ==
  ASSUME NEW c \in Container
  PROVE  ~Untouched(c) <=> \/ \E i \in 1..Len(c.options) : i \in OptionsTouched(c)
                           \/ \E i \in 1..Len(c.subs) : i \in SubsTouched(c)
<1> DEFINE
  Own(d) == {d.options[i].name : i \in {k \in 1..Len(d.options) : d.options[k].mandatory}}
<1>1. \A d : Untouched(d) <=> \A e \in Below[d] : Own(e) \cap given = {}
  <2>1. \A d : Wanted(d) = UNION {Own(e) : e \in Below[d]}
    BY DEF Wanted
  <2> HIDE DEF Own
  <2> QED BY <2>1 DEF Untouched
<1>2. Own(c) \cap given = {} <=> \A i \in 1..Len(c.options) : i \notin OptionsTouched(c)
  BY DEF OptionsTouched
<1>3. Below[c] = {c} \cup UNION {Below[c.subs[i]] : i \in 1..Len(c.subs)}
  BY BelowIs DEF BelowOf
<1>4. (\A e \in Below[c] : Own(e) \cap given = {}) <=>
        /\ Own(c) \cap given = {}
        /\ \A i \in 1..Len(c.subs) : \A e \in Below[c.subs[i]] : Own(e) \cap given = {}
  <2> HIDE DEF Own
  <2> QED BY <1>3
<1> HIDE DEF Own
<1>5. \A i \in 1..Len(c.subs) :
        i \in SubsTouched(c) <=> ~(\A e \in Below[c.subs[i]] : Own(e) \cap given = {})
  BY <1>1 DEF SubsTouched
<1> QED BY <1>1, <1>2, <1>4, <1>5

LEMMA AndMeets ==
  ASSUME NEW c \in Container, c.kind = "and"
  PROVE  Meets[c] <=> /\ \A i \in 1..Len(c.options) : i \in OptionsMet(c)
                      /\ \A i \in 1..Len(c.subs) : i \in SubsMet(c)
BY MeetsIs DEF MeetsOf, OptionsMet, SubsMet

\* One alternative of an xor container is touched, and it is met.
LEMMA XorMeets ==
  ASSUME NEW c \in Container, c.kind = "xor"
  PROVE  /\ OptionsTouched(c) \subseteq OptionsMet(c)
         /\ Meets[c] <=>
              \/ \E i \in OptionsTouched(c) : OptionsTouched(c) = {i} /\ SubsTouched(c) = {}
              \/ \E i \in SubsTouched(c) : /\ OptionsTouched(c) = {} /\ SubsTouched(c) = {i}
                                           /\ i \in SubsMet(c)
<1> DEFINE O == OptionsTouched(c)
           S == SubsTouched(c)
<1>1. Chosen(c) = {<<"option", i>> : i \in O} \cup {<<"sub", i>> : i \in S}
  <2>1. {i \in 1..Len(c.options) : c.options[i].name \in given} = O
    BY ContainerParts DEF OptionsTouched
  <2>2. {i \in 1..Len(c.subs) : ~Untouched(c.subs[i])} = S
    BY DEF SubsTouched
  <2> QED BY <2>1, <2>2 DEF Chosen
<1>2. \A i \in S : i \in SubsMet(c) <=> Meets[c.subs[i]]
  BY DEF SubsTouched, SubsMet
<1>3. Meets[c] <=> \E x \in Chosen(c) :
                     Chosen(c) = {x} /\ (x[1] = "sub" => Meets[c.subs[x[2]]])
  BY MeetsIs DEF MeetsOf
<1>4. OptionsTouched(c) \subseteq OptionsMet(c)
  BY DEF OptionsTouched, OptionsMet
<1> HIDE DEF O, S
<1>5. ASSUME Meets[c]
      PROVE  \/ \E i \in O : O = {i} /\ S = {}
             \/ \E i \in S : O = {} /\ S = {i} /\ i \in SubsMet(c)
  <2>1. PICK x \in Chosen(c) : Chosen(c) = {x} /\ (x[1] = "sub" => Meets[c.subs[x[2]]])
    BY <1>3, <1>5
  <2>2. \A i \in O : x = <<"option", i>>
    BY <1>1, <2>1
  <2>3. \A i \in S : x = <<"sub", i>>
    BY <1>1, <2>1
  <2>4. CASE \E i \in O : x = <<"option", i>>
    <3>1. PICK i \in O : x = <<"option", i>>
      BY <2>4
    <3>2. \A j \in O : j = i
      BY <2>2, <3>1
    <3>3. S = {}
      BY <2>3, <3>1
    <3> QED BY <3>2, <3>3
  <2>5. CASE \E i \in S : x = <<"sub", i>>
    <3>1. PICK i \in S : x = <<"sub", i>>
      BY <2>5
    <3>2. \A j \in S : j = i
      BY <2>3, <3>1
    <3>3. O = {}
      BY <2>2, <3>1
    <3>4. i \in SubsMet(c)
      BY <1>2, <2>1, <3>1
    <3> QED BY <3>2, <3>3, <3>4
  <2> QED BY <1>1, <2>4, <2>5
<1>6. ASSUME NEW i \in O, O = {i}, S = {} PROVE Meets[c]
  <2>1. Chosen(c) = {<<"option", i>>}
    BY <1>1, <1>6
  <2>2. <<"option", i>>[1] # "sub"
    OBVIOUS
  <2> QED BY <1>3, <2>1, <2>2
<1>7. ASSUME NEW i \in S, O = {}, S = {i}, i \in SubsMet(c) PROVE Meets[c]
  <2>1. Chosen(c) = {<<"sub", i>>}
    BY <1>1, <1>7
  <2>2. Meets[c.subs[<<"sub", i>>[2]]]
    BY <1>2, <1>7
  <2> QED BY <1>3, <2>1, <2>2
<1> QED BY <1>4, <1>5, <1>6, <1>7 DEF O, S

LEMMA XorTouched ==
  ASSUME NEW c \in Container, c.kind = "xor", Meets[c]
  PROVE  ~Untouched(c)
BY XorMeets, UntouchedIs DEF OptionsTouched, SubsTouched

\* A walk can go through an xor container if it can go through its options and
\* then through the containers in it.
LEMMA XorFine ==
  ASSUME NEW c \in Container, c.kind = "xor", NEW xor \in BOOLEAN
  PROVE  Fine(c, xor) <=>
           /\ Alternatives(Len(c.options), OptionsClean(c), OptionsTouched(c), OptionsMet(c), xor)
           /\ Alternatives(Len(c.subs), SubsClean(c), SubsTouched(c), SubsMet(c),
                           xor \/ \E i \in 1..Len(c.options) : i \in OptionsTouched(c))
<1> DEFINE
  n == Len(c.options)
  m == Len(c.subs)
  OC == OptionsClean(c)
  OT == OptionsTouched(c)
  OM == OptionsMet(c)
  SC == SubsClean(c)
  ST == SubsTouched(c)
  SM == SubsMet(c)
<1>1. Clean(c) <=> (\A i \in 1..n : i \in OC) /\ \A i \in 1..m : i \in SC
  BY CleanIs
<1>2. ~Untouched(c) <=> (\E i \in 1..n : i \in OT) \/ \E i \in 1..m : i \in ST
  BY UntouchedIs
<1>3. OT \subseteq OM /\ (Meets[c] <=> \/ \E i \in OT : OT = {i} /\ ST = {}
                                       \/ \E i \in ST : OT = {} /\ ST = {i} /\ i \in SM)
  BY XorMeets
<1>4. OT \subseteq 1..n /\ ST \subseteq 1..m
  BY DEF OptionsTouched, SubsTouched
<1> SUFFICES Fine(c, xor) <=>
               /\ Alternatives(n, OC, OT, OM, xor)
               /\ Alternatives(m, SC, ST, SM, xor \/ \E i \in 1..n : i \in OT)
  OBVIOUS
<1> HIDE DEF n, m, OC, OT, OM, SC, ST, SM
<1>5. ASSUME Fine(c, xor)
      PROVE  /\ Alternatives(n, OC, OT, OM, xor)
             /\ Alternatives(m, SC, ST, SM, xor \/ \E i \in 1..n : i \in OT)
  <2>1. CASE Untouched(c)
    <3>1. OT = {} /\ ST = {}
      BY <1>2, <1>4, <2>1
    <3> QED BY <1>1, <1>5, <3>1 DEF Fine, Alternatives, Passable
  <2>2. CASE ~Untouched(c)
    <3>1. Meets[c] /\ ~xor
      BY <1>5, <2>2 DEF Fine
    <3>2. CASE \E i \in OT : OT = {i} /\ ST = {}
      BY <1>1, <1>3, <1>5, <3>1, <3>2 DEF Fine, Alternatives, Passable
    <3>3. CASE \E i \in ST : OT = {} /\ ST = {i} /\ i \in SM
      BY <1>1, <1>3, <1>5, <3>1, <3>3 DEF Fine, Alternatives, Passable
    <3> QED BY <1>3, <3>1, <3>2, <3>3
  <2> QED BY <2>1, <2>2
<1>6. ASSUME Alternatives(n, OC, OT, OM, xor),
             Alternatives(m, SC, ST, SM, xor \/ \E i \in 1..n : i \in OT)
      PROVE  Fine(c, xor)
  <2>1. Clean(c)
    BY <1>1, <1>6 DEF Alternatives, Passable
  <2>2. CASE \E i \in 1..n : i \in OT
    <3>1. PICK i \in 1..n : i \in OT
      BY <2>2
    <3>2. ~xor /\ OT = {i}
      BY <1>4, <1>6, <3>1 DEF Alternatives, Passable
    <3>3. ST = {}
      BY <1>4, <1>6, <3>1 DEF Alternatives, Passable
    <3> QED BY <1>3, <2>1, <3>1, <3>2, <3>3 DEF Fine
  <2>3. CASE \E i \in 1..m : i \in ST
    <3>1. PICK i \in 1..m : i \in ST
      BY <2>3
    <3>2. ~xor /\ OT = {} /\ i \in SM
      BY <1>4, <1>6, <3>1 DEF Alternatives, Passable
    <3>3. ST = {i}
      BY <1>4, <1>6, <3>1 DEF Alternatives, Passable
    <3> QED BY <1>3, <2>1, <3>1, <3>2, <3>3 DEF Fine
  <2> QED BY <1>2, <2>1, <2>2, <2>3 DEF Fine
<1> QED BY <1>5, <1>6

(***************************************************************************)
(* What options do with a walk                                             *)
(***************************************************************************)
LEMMA XorOptions ==
  ASSUME NEW c \in Container, c.kind = "xor"
  PROVE  XorParts(AnOption(c), Len(c.options),
                  OptionsClean(c), OptionsTouched(c), OptionsMet(c))
<1> SUFFICES ASSUME NEW i \in 1..Len(c.options), NEW r \in State, r.out = "go"
             PROVE  LET q == AnOption(c)[<<r, i>>] IN
                    /\ q.out = "go" <=> Passable(i, OptionsClean(c), OptionsTouched(c),
                                                 OptionsMet(c), r.xor)
                    /\ q.out = "go" => (q.xor <=> r.xor \/ i \in OptionsTouched(c))
                                       /\ q.ands = r.ands
  BY DEF XorParts
<1> DEFINE q == AnOption(c)[<<r, i>>]
           name == c.options[i].name
<1>1. q = XorOption(r, c.options[i])
  BY DEF AnOption
<1>2. i \in OptionsTouched(c) <=> name \in given
  BY ContainerParts DEF OptionsTouched
<1>3. i \in OptionsMet(c) <=> name \in given
  BY ContainerParts DEF OptionsMet
<1>4. i \in OptionsClean(c) <=> (name \in given => name \notin refused)
  BY DEF OptionsClean
<1>5. r.xor \in BOOLEAN /\ r = [out |-> r.out, xor |-> r.xor, ands |-> r.ands]
  BY StateFields
<1>6. q = IF name \notin given THEN r
          ELSE IF r.xor \/ name \in refused
          THEN [out |-> "throw", xor |-> q.xor, ands |-> r.ands]
          ELSE [out |-> "go", xor |-> TRUE, ands |-> r.ands]
  BY <1>1, <1>5 DEF XorOption, Value, Leave
<1> HIDE DEF q, name
<1>7. q.out = "go" <=> (name \in given => name \notin refused /\ ~r.xor)
  <2>1. CASE name \notin given
    BY <1>6, <2>1
  <2>2. CASE name \in given /\ (r.xor \/ name \in refused)
    <3>1. q.out = "throw"
      BY <1>6, <2>2
    <3> QED BY <2>2, <3>1
  <2>3. CASE name \in given /\ ~(r.xor \/ name \in refused)
    BY <1>6, <2>3
  <2> QED BY <2>1, <2>2, <2>3
<1>8. q.out = "go" => (q.xor <=> r.xor \/ name \in given) /\ q.ands = r.ands
  <2>1. CASE name \notin given
    BY <1>6, <2>1
  <2>2. CASE name \in given /\ (r.xor \/ name \in refused)
    BY <1>7, <2>2
  <2>3. CASE name \in given /\ ~(r.xor \/ name \in refused)
    BY <1>6, <2>3
  <2> QED BY <2>1, <2>2, <2>3
<1> QED BY <1>2, <1>3, <1>4, <1>7, <1>8 DEF Passable, q

LEMMA AndOptions ==
  ASSUME NEW c \in Container, c.kind = "and"
  PROVE  AndParts(AnOption(c), Len(c.options),
                  OptionsClean(c), OptionsTouched(c), OptionsMet(c), OwnNums(c))
<1> SUFFICES ASSUME NEW i \in 1..Len(c.options), NEW r \in State, r.out = "go"
             PROVE  LET q == AnOption(c)[<<r, i>>] IN
                    /\ Passable(i, OptionsClean(c), OptionsTouched(c), OptionsMet(c), r.xor)
                         => q.out = "go"
                    /\ q.out = "go" =>
                         /\ i \in OptionsClean(c)
                         /\ q.xor <=> r.xor
                         /\ \E u \in Nat :
                              /\ q.ands = r.ands + u
                              /\ Counts(u, OwnNums(c)[i], i \in OptionsTouched(c),
                                        i \in OptionsMet(c))
  BY DEF AndParts
<1> DEFINE q == AnOption(c)[<<r, i>>]
           name == c.options[i].name
           counted == c.options[i].mandatory /\ name \in given
           u == IF counted THEN 1 ELSE 0
<1>1. q = AndOption(r, c.options[i])
  BY DEF AnOption
<1>2. i \in OptionsTouched(c) <=> counted
  BY DEF OptionsTouched
<1>3. i \in OptionsMet(c) <=> (c.options[i].mandatory => name \in given)
  BY DEF OptionsMet
<1>4. i \in OptionsClean(c) <=> name \notin refused
  BY DEF OptionsClean
<1>5. /\ r.xor \in BOOLEAN /\ r.ands \in Nat
      /\ r = [out |-> r.out, xor |-> r.xor, ands |-> r.ands]
  BY StateFields
<1>6. Counts(u, OwnNums(c)[i], i \in OptionsTouched(c), i \in OptionsMet(c))
  BY <1>2, <1>3 DEF Counts, OwnNums
<1>7. CASE ~counted
  <2>1. q = Value(c.options[i], r)
    BY <1>1, <1>7 DEF AndOption
  <2>2. q.out = "go" <=> name \notin refused
    BY <1>5, <2>1 DEF Value, Leave
  <2>3. q.out = "go" => q = r
    BY <2>1, <2>2 DEF Value
  <2>4. u = 0 /\ r.ands = r.ands + 0
    BY <1>5, <1>7
  <2> HIDE DEF q, u
  <2> QED BY <1>4, <1>6, <2>2, <2>3, <2>4 DEF Passable, q
<1>8. CASE counted /\ r.xor
  <2>1. q = Leave(r, "throw")
    BY <1>1, <1>8 DEF AndOption
  <2>2. q.out = "throw"
    BY <1>5, <2>1 DEF Leave
  <2> HIDE DEF q
  <2> QED BY <1>2, <1>8, <2>2 DEF Passable, q
<1>9. CASE counted /\ ~r.xor
  <2>1. q = Value(c.options[i], [r EXCEPT !.ands = @ + 1])
    BY <1>1, <1>9 DEF AndOption
  <2>2. q.out = "go" <=> name \notin refused
    BY <1>5, <2>1 DEF Value, Leave
  <2>3. q.out = "go" => q = [r EXCEPT !.ands = @ + 1]
    BY <2>1, <2>2 DEF Value
  <2>4. q.out = "go" => q.xor = r.xor /\ q.ands = r.ands + 1
    BY <1>5, <2>3
  <2>5. u = 1
    BY <1>9
  <2> HIDE DEF q, u
  <2> QED BY <1>4, <1>6, <2>2, <2>4, <2>5 DEF Passable, q
<1> QED BY <1>7, <1>8, <1>9

(***************************************************************************)
(* What containers do with a walk: what is shown of every container c, by  *)
(* induction.                                                              *)
(***************************************************************************)
XorSays(c) ==
  \A s \in State : s.out = "go" =>
    /\ Through[c][s].out = "go" <=> Fine(c, s.xor)
    /\ Through[c][s].out = "go" =>
         /\ Through[c][s].xor <=> s.xor \/ ~Untouched(c)
         /\ Through[c][s].ands = s.ands

AndSays(c) ==
  \A s \in State : s.out = "go" =>
    /\ Fine(c, s.xor) => Through[c][s].out = "go"
    /\ Through[c][s].out = "go" =>
         /\ Clean(c)
         /\ Through[c][s].xor <=> s.xor
         /\ \E u \in Nat : /\ Through[c][s].ands = s.ands + u
                           /\ Counts(u, NumMandatory[c], ~Untouched(c), Meets[c])

Says(c) == (c.kind = "xor" => XorSays(c)) /\ (c.kind = "and" => AndSays(c))

LEMMA SubPassable ==
  ASSUME NEW c \in Container, NEW i \in 1..Len(c.subs), NEW xor
  PROVE  Passable(i, SubsClean(c), SubsTouched(c), SubsMet(c), xor) <=> Fine(c.subs[i], xor)
BY DEF Passable, SubsClean, SubsTouched, SubsMet, Fine

\* An and container among the alternatives of an xor container: it is passed,
\* and chosen, if nothing or all of it is given.
LEMMA AndInXor ==
  ASSUME NEW d \in Container, d.kind = "and", AndSays(d), NEW r \in State, r.out = "go"
  PROVE  /\ InXor(r, d, Through[d]).out = "go" <=> Fine(d, r.xor)
         /\ InXor(r, d, Through[d]).out = "go" =>
              /\ InXor(r, d, Through[d]).xor <=> r.xor \/ ~Untouched(d)
              /\ InXor(r, d, Through[d]).ands = r.ands
<1> DEFINE
  s == [r EXCEPT !.ands = 0]
  w == Through[d][s]
  q == Final(d, w, TRUE)
  e == InXor(r, d, Through[d])
<1>1. /\ s \in State /\ s.out = "go" /\ s.xor = r.xor /\ s.ands = 0
      /\ r.xor \in BOOLEAN
  BY DEF State
<1> HIDE DEF s
<1>2. w \in State
  BY <1>1, ThroughIs
<1>3. /\ Fine(d, r.xor) => w.out = "go"
      /\ w.out = "go" =>
           /\ Clean(d)
           /\ w.xor <=> r.xor
           /\ \E u \in Nat : /\ w.ands = 0 + u
                             /\ Counts(u, NumMandatory[d], ~Untouched(d), Meets[d])
  <2>1. /\ Fine(d, s.xor) => w.out = "go"
        /\ w.out = "go" =>
             /\ Clean(d)
             /\ w.xor <=> s.xor
             /\ \E u \in Nat : /\ w.ands = s.ands + u
                               /\ Counts(u, NumMandatory[d], ~Untouched(d), Meets[d])
    BY <1>1 DEF AndSays
  <2> HIDE DEF w
  <2> QED BY ONLY <2>1, <1>1
<1>4. /\ e.ands = r.ands
      /\ e.xor = (q.xor \/ q.ands > 0)
      /\ e.out = IF q.out = "go" /\ q.ands > 0 /\ q.xor THEN "abort" ELSE q.out
  BY DEF InXor, s
<1>5. q = IF w.out # "go" \/ w.ands = 0 \/ w.ands = NumMandatory[d] THEN w
          ELSE Leave(w, "throw")
  BY DEF Final
<1>6. Leave(w, "throw").out = "throw"
  <2> HIDE DEF w
  <2> QED BY <1>2 DEF Leave, State
<1> HIDE DEF w, q, e
<1>7. CASE w.out # "go"
  <2>1. e.out # "go"
    BY <1>4, <1>5, <1>7
  <2> QED BY <1>3, <1>7, <2>1 DEF e
<1>8. CASE w.out = "go"
  <2>1. PICK u \in Nat :
          w.ands = u /\ Counts(u, NumMandatory[d], ~Untouched(d), Meets[d])
    BY <1>3, <1>8
  <2>2. u = 0 <=> Untouched(d)
    BY <2>1 DEF Counts
  <2>3. u = NumMandatory[d] <=> Meets[d]
    BY <2>1 DEF Counts
  <2>4. w.xor <=> r.xor
    BY <1>3, <1>8
  <2>5. Clean(d)
    BY <1>3, <1>8
  <2>6. CASE ~Untouched(d) /\ ~Meets[d]
    <3>1. q = Leave(w, "throw")
      BY <1>5, <1>8, <2>1, <2>2, <2>3, <2>6
    <3>2. e.out # "go"
      BY <1>4, <1>6, <3>1
    <3> QED BY <2>6, <3>2 DEF Fine, e
  <2>7. CASE Untouched(d)
    <3>1. q = w /\ q.ands = 0
      BY <1>5, <2>1, <2>2, <2>7
    <3>2. ~(q.ands > 0)
      BY <3>1
    <3>3. e.out = "go" /\ (e.xor <=> r.xor)
      BY <1>4, <1>8, <2>4, <3>1, <3>2
    <3> QED BY <1>4, <2>5, <2>7, <3>3 DEF Fine, e
  <2>8. CASE ~Untouched(d) /\ Meets[d]
    <3>1. q = w /\ q.ands > 0
      BY <1>5, <2>1, <2>2, <2>3, <2>8
    <3>2. e.out = "go" <=> ~r.xor
      BY <1>4, <1>8, <2>4, <3>1
    <3>3. e.xor
      BY <1>4, <3>1
    <3> QED BY <1>4, <2>5, <2>8, <3>2, <3>3 DEF Fine, e
  <2> QED BY <2>6, <2>7, <2>8
<1> QED BY <1>7, <1>8

\* An xor container in an and container counts for one mandatory option.
LEMMA XorInAnd ==
  ASSUME NEW d \in Container, d.kind = "xor", XorSays(d), NEW r \in State, r.out = "go"
  PROVE  /\ Fine(d, r.xor) => InAnd(r, d, Through[d]).out = "go"
         /\ InAnd(r, d, Through[d]).out = "go" =>
              /\ Clean(d)
              /\ InAnd(r, d, Through[d]).xor <=> r.xor
              /\ \E u \in Nat : /\ InAnd(r, d, Through[d]).ands = r.ands + u
                                /\ Counts(u, 1, ~Untouched(d), Meets[d])
<1> DEFINE
  q == Through[d][Start]
  e == InAnd(r, d, Through[d])
  u == IF q.xor THEN 1 ELSE 0
<1>1. Start \in State /\ Start.out = "go" /\ ~Start.xor
  BY StartType DEF Start
<1>2. q \in State
  BY <1>1, ThroughIs
<1>3. /\ q.out = "go" <=> Fine(d, FALSE)
      /\ q.out = "go" => (q.xor <=> ~Untouched(d))
  <2>1. /\ q.out = "go" <=> Fine(d, Start.xor)
        /\ q.out = "go" => (q.xor <=> Start.xor \/ ~Untouched(d))
    BY <1>1 DEF XorSays
  <2>2. Fine(d, Start.xor) <=> Fine(d, FALSE)
    BY <1>1 DEF Fine
  <2> QED BY <1>1, <2>1, <2>2
<1>4. e = [r EXCEPT !.out = q.out, !.ands = IF q.xor THEN @ + 1 ELSE @]
  BY DEF InAnd
<1> HIDE DEF q
<1>5. e.out = q.out /\ e.xor = r.xor /\ e.ands = IF q.xor THEN r.ands + 1 ELSE r.ands
  BY <1>4 DEF State
<1>6. u \in Nat /\ e.ands = r.ands + u
  <2>1. r.ands \in Nat /\ r.ands + 0 = r.ands
    BY StateFields
  <2> HIDE DEF e
  <2> QED BY <1>5, <2>1
<1>7. Fine(d, r.xor) => Fine(d, FALSE)
  BY DEF Fine
<1>8. ASSUME q.out = "go" PROVE Clean(d) /\ Counts(u, 1, ~Untouched(d), Meets[d])
  <2>1. Clean(d) /\ (~Untouched(d) => Meets[d])
    BY <1>3, <1>8 DEF Fine
  <2>2. Meets[d] => ~Untouched(d)
    BY XorTouched
  <2>3. u <= 1 /\ (u = 0 <=> ~q.xor) /\ (u = 1 <=> q.xor)
    OBVIOUS
  <2> HIDE DEF u
  <2> QED BY <1>3, <1>8, <2>1, <2>2, <2>3 DEF Counts
<1> HIDE DEF e, u
<1> QED BY <1>3, <1>5, <1>6, <1>7, <1>8 DEF e

LEMMA XorSubs ==
  ASSUME NEW c \in Container, c.kind = "xor", \A i \in 1..Len(c.subs) : Says(c.subs[i])
  PROVE  XorParts(ASub(Through, c), Len(c.subs), SubsClean(c), SubsTouched(c), SubsMet(c))
<1> SUFFICES ASSUME NEW i \in 1..Len(c.subs), NEW r \in State, r.out = "go"
             PROVE  LET q == ASub(Through, c)[<<r, i>>] IN
                    /\ q.out = "go" <=> Passable(i, SubsClean(c), SubsTouched(c),
                                                 SubsMet(c), r.xor)
                    /\ q.out = "go" => (q.xor <=> r.xor \/ i \in SubsTouched(c))
                                       /\ q.ands = r.ands
  BY DEF XorParts
<1> DEFINE d == c.subs[i]
           q == ASub(Through, c)[<<r, i>>]
<1>1. d \in Container /\ d.kind \in {"and", "xor"}
  BY ContainerParts
<1>2. q = InXor(r, d, Through[d])
  BY DEF ASub
<1>3. i \in SubsTouched(c) <=> ~Untouched(d)
  BY DEF SubsTouched
<1>4. Passable(i, SubsClean(c), SubsTouched(c), SubsMet(c), r.xor) <=> Fine(d, r.xor)
  BY SubPassable
<1>5. Says(d)
  OBVIOUS
<1> HIDE DEF d
<1>6. /\ q.out = "go" <=> Fine(d, r.xor)
      /\ q.out = "go" => (q.xor <=> r.xor \/ ~Untouched(d)) /\ q.ands = r.ands
  <2>1. CASE d.kind = "and"
    BY <1>1, <1>2, <1>5, <2>1, AndInXor DEF Says
  <2>2. CASE d.kind = "xor"
    <3>1. q = Through[d][r]
      BY <1>2, <2>2 DEF InXor
    <3> QED BY <1>5, <2>2, <3>1 DEF Says, XorSays
  <2> QED BY <1>1, <2>1, <2>2
<1> HIDE DEF q
<1> QED BY <1>3, <1>4, <1>6 DEF q

LEMMA AndSubs ==
  ASSUME NEW c \in Container, c.kind = "and", \A i \in 1..Len(c.subs) : Says(c.subs[i])
  PROVE  AndParts(ASub(Through, c), Len(c.subs), SubsClean(c), SubsTouched(c), SubsMet(c),
                  SubNums(NumMandatory, c))
<1> SUFFICES ASSUME NEW i \in 1..Len(c.subs), NEW r \in State, r.out = "go"
             PROVE  LET q == ASub(Through, c)[<<r, i>>] IN
                    /\ Passable(i, SubsClean(c), SubsTouched(c), SubsMet(c), r.xor)
                         => q.out = "go"
                    /\ q.out = "go" =>
                         /\ i \in SubsClean(c)
                         /\ q.xor <=> r.xor
                         /\ \E u \in Nat :
                              /\ q.ands = r.ands + u
                              /\ Counts(u, SubNums(NumMandatory, c)[i],
                                        i \in SubsTouched(c), i \in SubsMet(c))
  BY DEF AndParts
<1> DEFINE d == c.subs[i]
           q == ASub(Through, c)[<<r, i>>]
           n == SubNums(NumMandatory, c)[i]
<1>1. d \in Container /\ d.kind \in {"and", "xor"}
  BY ContainerParts
<1>2. q = InAnd(r, d, Through[d])
  BY DEF ASub
<1>3. /\ i \in SubsTouched(c) <=> ~Untouched(d)
      /\ i \in SubsMet(c) <=> Meets[d]
      /\ i \in SubsClean(c) <=> Clean(d)
  BY DEF SubsTouched, SubsMet, SubsClean
<1>4. Passable(i, SubsClean(c), SubsTouched(c), SubsMet(c), r.xor) <=> Fine(d, r.xor)
  BY SubPassable
<1>5. Says(d)
  OBVIOUS
<1>6. n = IF d.kind = "and" THEN NumMandatory[d] ELSE 1
  BY DEF SubNums
<1> HIDE DEF d, n
<1>7. /\ Fine(d, r.xor) => q.out = "go"
      /\ q.out = "go" =>
           /\ Clean(d)
           /\ q.xor <=> r.xor
           /\ \E u \in Nat : q.ands = r.ands + u /\ Counts(u, n, ~Untouched(d), Meets[d])
  <2>1. CASE d.kind = "xor"
    <3>1. n = 1
      BY <1>6, <2>1
    <3> QED BY <1>1, <1>2, <1>5, <2>1, <3>1, XorInAnd DEF Says
  <2>2. CASE d.kind = "and"
    <3>1. q = Through[d][r] /\ n = NumMandatory[d]
      BY <1>2, <1>6, <2>2 DEF InAnd
    <3> HIDE DEF q
    <3> QED BY <1>5, <2>2, <3>1 DEF Says, AndSays
  <2> QED BY <1>1, <2>1, <2>2
<1> HIDE DEF q
<1>8. \A u : Counts(u, n, ~Untouched(d), Meets[d])
             => Counts(u, n, i \in SubsTouched(c), i \in SubsMet(c))
  BY <1>3 DEF Counts
<1> QED BY <1>3, <1>4, <1>7, <1>8 DEF q, n

LEMMA XorInductive ==
  ASSUME NEW c \in Container, c.kind = "xor", \A i \in 1..Len(c.subs) : Says(c.subs[i])
  PROVE  XorSays(c)
<1> SUFFICES ASSUME NEW s \in State, s.out = "go"
             PROVE  /\ Through[c][s].out = "go" <=> Fine(c, s.xor)
                    /\ Through[c][s].out = "go" =>
                         /\ Through[c][s].xor <=> s.xor \/ ~Untouched(c)
                         /\ Through[c][s].ands = s.ands
  BY DEF XorSays
<1> DEFINE
  n == Len(c.options)
  m == Len(c.subs)
  V == AnOption(c)
  W == ASub(Through, c)
  r == Walk(V, s, n)
  q == Walk(W, r, m)
  OC == OptionsClean(c)
  OT == OptionsTouched(c)
  OM == OptionsMet(c)
  SC == SubsClean(c)
  ST == SubsTouched(c)
  SM == SubsMet(c)
<1>1. Through[c][s] = q
  BY ThroughIs DEF WalkOf
<1>2. n \in Nat /\ m \in Nat
  BY ContainerParts
<1>3. V \in [State \X (1..n) -> State] /\ W \in [State \X (1..m) -> State]
  <2>1. \A i \in 1..Len(c.subs) : Through[c.subs[i]] \in [State -> State]
    BY ContainerParts, ThroughIs
  <2> QED BY <2>1, WalkOfType
<1>4. XorParts(V, n, OC, OT, OM) /\ XorParts(W, m, SC, ST, SM)
  BY XorOptions, XorSubs
<1>5. Fine(c, s.xor) <=>
        /\ Alternatives(n, OC, OT, OM, s.xor)
        /\ Alternatives(m, SC, ST, SM, s.xor \/ \E i \in 1..n : i \in OT)
  <2>1. s.xor \in BOOLEAN
    BY StateFields
  <2> QED BY <2>1, XorFine
<1>6. ~Untouched(c) <=> (\E i \in 1..n : i \in OT) \/ \E i \in 1..m : i \in ST
  BY UntouchedIs
<1> HIDE DEF n, m, V, W, OC, OT, OM, SC, ST, SM
<1>7. r \in State
  BY <1>2, <1>3, WalkType
<1>8. /\ r.out = "go" <=> Alternatives(n, OC, OT, OM, s.xor)
      /\ r.out = "go" => (r.xor <=> s.xor \/ \E i \in 1..n : i \in OT) /\ r.ands = s.ands
  BY <1>2, <1>3, <1>4, XorWalk
<1> HIDE DEF r
<1>9. CASE r.out # "go"
  <2>1. q = r
    BY <1>2, <1>3, <1>7, <1>9, LeftWalk
  <2> QED BY <1>1, <1>5, <1>8, <1>9, <2>1
<1>10. CASE r.out = "go"
  <2>1. /\ q.out = "go" <=> Alternatives(m, SC, ST, SM, r.xor)
        /\ q.out = "go" => (q.xor <=> r.xor \/ \E i \in 1..m : i \in ST) /\ q.ands = r.ands
    BY <1>2, <1>3, <1>4, <1>7, <1>10, XorWalk
  <2> HIDE DEF q
  <2>2. Alternatives(m, SC, ST, SM, r.xor)
        <=> Alternatives(m, SC, ST, SM, s.xor \/ \E i \in 1..n : i \in OT)
    BY <1>8, <1>10 DEF Alternatives, Passable
  <2> QED BY <1>1, <1>5, <1>6, <1>8, <1>10, <2>1, <2>2
<1> QED BY <1>9, <1>10

LEMMA AndInductive ==
  ASSUME NEW c \in Container, c.kind = "and", \A i \in 1..Len(c.subs) : Says(c.subs[i])
  PROVE  AndSays(c)
<1> SUFFICES ASSUME NEW s \in State, s.out = "go"
             PROVE  /\ Fine(c, s.xor) => Through[c][s].out = "go"
                    /\ Through[c][s].out = "go" =>
                         /\ Clean(c)
                         /\ Through[c][s].xor <=> s.xor
                         /\ \E u \in Nat :
                              /\ Through[c][s].ands = s.ands + u
                              /\ Counts(u, NumMandatory[c], ~Untouched(c), Meets[c])
  BY DEF AndSays
<1> DEFINE
  n == Len(c.options)
  m == Len(c.subs)
  V == AnOption(c)
  W == ASub(Through, c)
  r == Walk(V, s, n)
  q == Walk(W, r, m)
  OC == OptionsClean(c)
  OT == OptionsTouched(c)
  OM == OptionsMet(c)
  SC == SubsClean(c)
  ST == SubsTouched(c)
  SM == SubsMet(c)
  N == OwnNums(c)
  P == SubNums(NumMandatory, c)
<1>1. Through[c][s] = q
  BY ThroughIs DEF WalkOf
<1>2. n \in Nat /\ m \in Nat
  BY ContainerParts
<1>3. V \in [State \X (1..n) -> State] /\ W \in [State \X (1..m) -> State]
  <2>1. \A i \in 1..Len(c.subs) : Through[c.subs[i]] \in [State -> State]
    BY ContainerParts, ThroughIs
  <2> QED BY <2>1, WalkOfType
<1>4. N \in [1..n -> Nat] /\ P \in [1..m -> Nat] /\ NumMandatory[c] = Total(N, n) + Total(P, m)
  <2>1. \A i \in 1..Len(c.subs) : NumMandatory[c.subs[i]] \in Nat
    BY ContainerParts, NumMandatoryIs
  <2>2. NumMandatory[c] = Num(NumMandatory, c)
    BY NumMandatoryIs
  <2> QED BY <2>1, <2>2, NumType DEF Num
<1>5. AndParts(V, n, OC, OT, OM, N) /\ AndParts(W, m, SC, ST, SM, P)
  BY AndOptions, AndSubs
<1>6. ~Untouched(c) <=> (\E i \in 1..n : i \in OT) \/ \E i \in 1..m : i \in ST
  BY UntouchedIs
<1>7. Meets[c] <=> (\A i \in 1..n : i \in OM) /\ \A i \in 1..m : i \in SM
  BY AndMeets
<1>8. Clean(c) <=> (\A i \in 1..n : i \in OC) /\ \A i \in 1..m : i \in SC
  BY CleanIs
<1> HIDE DEF n, m, V, W, OC, OT, OM, SC, ST, SM, N, P
<1>9. Fine(c, s.xor) => /\ \A i \in 1..n : Passable(i, OC, OT, OM, s.xor)
                        /\ \A i \in 1..m : Passable(i, SC, ST, SM, s.xor)
  BY <1>6, <1>7, <1>8 DEF Fine, Passable
<1>10. r \in State
  BY <1>2, <1>3, WalkType
<1>11. /\ (\A i \in 1..n : Passable(i, OC, OT, OM, s.xor)) => r.out = "go"
       /\ r.out = "go" =>
            /\ \A i \in 1..n : i \in OC
            /\ r.xor <=> s.xor
            /\ Counted(r, s, n, OT, OM, Total(N, n))
  BY <1>2, <1>3, <1>4, <1>5, AndWalk
<1>12. Total(N, n) \in Nat /\ Total(P, m) \in Nat
  BY <1>2, <1>4, TotalType
<1> HIDE DEF r
<1>13. CASE r.out # "go"
  <2>1. q = r
    BY <1>2, <1>3, <1>10, <1>13, LeftWalk
  <2> HIDE DEF q
  <2> QED BY <1>1, <1>9, <1>11, <1>13, <2>1
<1>14. CASE r.out = "go"
  <2>1. /\ (\A i \in 1..m : Passable(i, SC, ST, SM, r.xor)) => q.out = "go"
        /\ q.out = "go" =>
             /\ \A i \in 1..m : i \in SC
             /\ q.xor <=> r.xor
             /\ Counted(q, r, m, ST, SM, Total(P, m))
    BY <1>2, <1>3, <1>4, <1>5, <1>10, <1>14, AndWalk
  <2> HIDE DEF q
  <2>2. r.xor <=> s.xor
    BY <1>11, <1>14
  <2>3. Fine(c, s.xor) => q.out = "go"
    <3>1. (\A i \in 1..m : Passable(i, SC, ST, SM, s.xor))
          => \A i \in 1..m : Passable(i, SC, ST, SM, r.xor)
      BY <2>2 DEF Passable
    <3> QED BY <1>9, <2>1, <3>1
  <2>4. ASSUME q.out = "go"
        PROVE  \E u \in Nat : /\ q.ands = s.ands + u
                              /\ Counts(u, NumMandatory[c], ~Untouched(c), Meets[c])
    <3> DEFINE
      a == Total(N, n)
      b == Total(P, m)
      t1 == \E i \in 1..n : i \in OT
      t2 == \E i \in 1..m : i \in ST
      e1 == \A i \in 1..n : i \in OM
      e2 == \A i \in 1..m : i \in SM
    <3>1. PICK u \in Nat : r.ands = s.ands + u /\ Counts(u, a, t1, e1)
      BY <1>11, <1>14 DEF Counted
    <3>2. PICK v \in Nat : q.ands = r.ands + v /\ Counts(v, b, t2, e2)
      BY <2>1, <2>4 DEF Counted
    <3>3. /\ a \in Nat /\ b \in Nat /\ NumMandatory[c] = a + b
          /\ ~Untouched(c) <=> t1 \/ t2
          /\ Meets[c] <=> e1 /\ e2
      BY <1>4, <1>6, <1>7, <1>12
    <3> HIDE DEF a, b, t1, t2, e1, e2
    <3>4. u + v \in Nat /\ Counts(u + v, a + b, t1 \/ t2, e1 /\ e2)
      BY <3>1, <3>2, <3>3, CountsAdd
    <3>5. Counts(u + v, NumMandatory[c], ~Untouched(c), Meets[c])
      BY <3>3, <3>4 DEF Counts
    <3>6. q.ands = s.ands + (u + v)
      <4>1. s.ands \in Nat
        BY StateFields
      <4> QED BY <3>1, <3>2, <4>1
    <3> QED BY <3>4, <3>5, <3>6
  <2> QED BY <1>1, <1>8, <1>11, <1>14, <2>1, <2>2, <2>3, <2>4
<1> QED BY <1>13, <1>14

LEMMA AllSay == \A c \in Container : Says(c)
<1> DEFINE T == {c \in Container : Says(c)}
<1>1. Inherited(Container, Rank, T)
  <2> SUFFICES ASSUME NEW c \in Container,
                      \A d \in Container : Rank[d] < Rank[c] => d \in T
               PROVE  c \in T
    BY DEF Inherited
  <2>1. \A i \in 1..Len(c.subs) : Says(c.subs[i])
    BY ContainerParts
  <2>2. c.kind = "xor" => XorSays(c)
    BY <2>1, XorInductive
  <2>3. c.kind = "and" => AndSays(c)
    BY <2>1, AndInductive
  <2> QED BY <2>2, <2>3 DEF Says
<1>2. Container \subseteq T
  <2> HIDE DEF T
  <2> QED BY <1>1, RankType, RankInduction
<1> QED BY <1>2

(***************************************************************************)
(* The verdict                                                             *)
(***************************************************************************)

\* The walk from the top accepts what the containers say, however deep and wide
\* the tree of containers is.
LEMMA VerdictIs ==
  ASSUME NEW c \in Container
  PROVE  /\ Verdict(Top(c)) \in {"accept", "throw", "abort"}
         /\ Verdict(Top(c)) = "accept" <=> Meets[c] /\ Looked(c) \cap refused = {}
<1> DEFINE q == Through[c][Start]
<1>1. Start \in State /\ Start.out = "go" /\ ~Start.xor /\ Start.ands = 0
  BY StartType DEF Start
<1>2. q \in State
  BY <1>1, ThroughIs
<1>3. Says(c) /\ c.kind \in {"and", "xor"}
  BY AllSay, ContainerParts
<1>4. q.out \in {"go", "throw", "abort"} /\ Leave(q, "throw").out = "throw"
  <2> HIDE DEF q
  <2> QED BY <1>2 DEF State, Leave
<1>5. Top(c) = IF c.kind = "and" THEN Final(c, q, FALSE)
               ELSE IF q.out = "go" /\ ~q.xor THEN Leave(q, "throw") ELSE q
  BY DEF Top
<1>6. Clean(c) <=> Looked(c) \cap refused = {}
  BY DEF Clean
<1>7. ~Untouched(c) /\ Meets[c] /\ Clean(c) => Fine(c, Start.xor)
  BY <1>1 DEF Fine
<1>8. CASE c.kind = "xor"
  <2>1. /\ q.out = "go" <=> Fine(c, Start.xor)
        /\ q.out = "go" => (q.xor <=> ~Untouched(c))
    BY <1>1, <1>3, <1>8 DEF Says, XorSays
  <2>2. Meets[c] => ~Untouched(c)
    BY <1>8, XorTouched
  <2> HIDE DEF q
  <2>3. Top(c).out = "go" <=> Meets[c] /\ Clean(c)
    BY <1>4, <1>5, <1>7, <1>8, <2>1, <2>2 DEF Fine
  <2>4. Top(c).out \in {"go", "throw", "abort"}
    BY <1>4, <1>5, <1>8
  <2> QED BY <1>6, <2>3, <2>4 DEF Verdict
<1>9. CASE c.kind = "and"
  <2>1. /\ Fine(c, Start.xor) => q.out = "go"
        /\ q.out = "go" =>
             /\ Clean(c)
             /\ \E u \in Nat : /\ q.ands = Start.ands + u
                               /\ Counts(u, NumMandatory[c], ~Untouched(c), Meets[c])
    BY <1>1, <1>3, <1>9 DEF Says, AndSays
  <2> HIDE DEF q
  <2>2. q.out = "go" => (q.ands = NumMandatory[c] <=> Meets[c])
    <3>1. \A u \in Nat : Start.ands + u = u
      BY <1>1
    <3> QED BY <2>1, <3>1 DEF Counts
  <2>3. Top(c) = IF q.out # "go" \/ q.ands = NumMandatory[c] THEN q ELSE Leave(q, "throw")
    BY <1>5, <1>9 DEF Final
  <2>4. Meets[c] /\ Clean(c) => Fine(c, Start.xor)
    BY <1>1 DEF Fine
  <2>5. Top(c).out = "go" <=> Meets[c] /\ Clean(c)
    BY <1>4, <2>1, <2>2, <2>3, <2>4
  <2>6. Top(c).out \in {"go", "throw", "abort"}
    BY <1>4, <2>3
  <2> QED BY <1>6, <2>5, <2>6 DEF Verdict
<1> QED BY <1>3, <1>8, <1>9

LEMMA TreeType == \A s \in Shape : Tree(s) \in Container
<1>1. \A s \in Shape : Tree(s) \in Parts(s)
  <2>1. Trees
    BY ContainerAssumption
  <2> QED BY ONLY <2>1 DEF Trees
<1> QED BY ONLY <1>1 DEF Container

(***************************************************************************)
(* Whatever options were found, validate_options() ends with one of its    *)
(* three outcomes, never in the middle of the walk.                        *)
(***************************************************************************)
THEOREM TypeCorrect == Spec => []TypeOK
<1>1. Init => TypeOK
  BY ContainerAssumption DEF Init, TypeOK
<1>2. TypeOK /\ [Next]_vars => TypeOK'
  <2> SUFFICES ASSUME TypeOK, [Next]_vars
               PROVE  TypeOK'
    OBVIOUS
  <2>1. CASE ValidateOptions
    <3>1. Verdict(Top(Tree(shape))) \in {"accept", "throw", "abort"}
      BY TreeType, VerdictIs DEF TypeOK
    <3> HIDE DEF Verdict
    <3> QED BY <2>1, <3>1 DEF TypeOK, ValidateOptions
  <2>2. ASSUME NEW n \in OptionName, Find(n) PROVE TypeOK'
    BY <2>2 DEF TypeOK, Find
  <2>3. CASE UNCHANGED vars
    BY <2>3 DEF TypeOK, vars
  <2> QED BY <2>1, <2>2, <2>3 DEF Next
<1> QED BY <1>1, <1>2, PTL DEF Spec

\* The verdict is that of the walk through the tree with what is given now.
VerdictOfWalk == verdict # "none" => verdict = Verdict(Top(Tree(shape)))

(***************************************************************************)
(* validate_options() accepts what and and xor mean, for every tree of     *)
(* containers: the accumulators given_xor_option and given_and_options,    *)
(* handed down and reset on the way, lose and mistake nothing.             *)
(***************************************************************************)
THEOREM AcceptsTheFormulaHolds == Spec => []AcceptsTheFormula
<1>1. Init => VerdictOfWalk
  BY DEF Init, VerdictOfWalk
<1>2. VerdictOfWalk /\ [Next]_vars => VerdictOfWalk'
  <2> SUFFICES ASSUME VerdictOfWalk, [Next]_vars
               PROVE  VerdictOfWalk'
    OBVIOUS
  <2>1. ASSUME UNCHANGED <<shape, given, refused>>
        PROVE  Verdict(Top(Tree(shape)))' = Verdict(Top(Tree(shape)))
    BY <2>1 DEF Top, Through, Walk, InXor, InAnd, XorOption, AndOption, Value, Final
  <2>2. CASE ValidateOptions
    BY <2>1, <2>2 DEF VerdictOfWalk, ValidateOptions
  <2>3. ASSUME NEW n \in OptionName, Find(n) PROVE VerdictOfWalk'
    BY <2>3 DEF VerdictOfWalk, Find
  <2>4. CASE UNCHANGED vars
    BY <2>1, <2>4 DEF VerdictOfWalk, vars
  <2> QED BY <2>2, <2>3, <2>4 DEF Next
<1>3. TypeOK /\ VerdictOfWalk => AcceptsTheFormula
  BY TreeType, VerdictIs DEF TypeOK, VerdictOfWalk, AcceptsTheFormula
<1> QED BY <1>1, <1>2, <1>3, TypeCorrect, PTL DEF Spec

-----------------------------------------------------------------------------

(***************************************************************************)
(* When the contract holds that validate_options_xor() states: if an and   *)
(* container that is an alternative of an xor container holds no other xor *)
(* container, at any depth.                                                *)
(***************************************************************************)
AllAnd(c) == \A e \in Below[c] : e.kind = "and"

Flat ==
  \A c \in Container : c.kind = "xor" =>
    \A i \in 1..Len(c.subs) : c.subs[i].kind = "and" => AllAnd(c.subs[i])

LEMMA AllAndBelow ==
  ASSUME NEW c \in Container, AllAnd(c)
  PROVE  c.kind = "and" /\ \A i \in 1..Len(c.subs) : AllAnd(c.subs[i])
<1>1. Below[c] = {c} \cup UNION {Below[c.subs[i]] : i \in 1..Len(c.subs)}
  BY BelowIs DEF BelowOf
<1> QED BY <1>1 DEF AllAnd

\* The parts of a walk lead from a state of T to states of T.
Closed(V, m, T) == \A i \in 1..m, r \in T : r.out = "go" => V[<<r, i>>] \in T

LEMMA WalkStays ==
  ASSUME NEW m \in Nat, NEW V \in [State \X (1..m) -> State], NEW T \in SUBSET State,
         NEW s \in T, Closed(V, m, T)
  PROVE  Walk(V, s, m) \in T
<1>1. PICK at \in [0..m -> State] : Walk(V, s, m) = at[m] /\ Steps(at, V, s, m)
  BY WalkIs
<1> DEFINE K == {k \in 0..m : at[k] \in T}
<1>2. Climbs(m, K)
  <2>1. at[0] \in T
    BY <1>1 DEF Steps
  <2>2. ASSUME NEW i \in 1..m, at[i - 1] \in T PROVE at[i] \in T
    <3>1. at[i] = IF at[i - 1].out = "go" THEN V[<<at[i - 1], i>>] ELSE at[i - 1]
      BY <1>1 DEF Steps
    <3> QED BY <2>2, <3>1 DEF Closed
  <2>3. 0 \in 0..m /\ \A i \in 1..m : i \in 0..m
    OBVIOUS
  <2> QED BY <2>1, <2>2, <2>3 DEF Climbs
<1>3. 0..m \subseteq K
  <2> HIDE DEF K
  <2> QED BY <1>2, Upwards
<1> QED BY <1>1, <1>3

\* No contract was violated; in an and tree, with an alternative chosen before,
\* nothing has been counted since b.
Calm(b, still) ==
  {q \in State : q.out # "abort" /\ (still /\ q.out = "go" => q.xor /\ q.ands = b)}

\* A walk through c does neither.
Quiet(c) ==
  \A b \in Nat, still \in BOOLEAN :
    (still => AllAnd(c)) =>
      \A s \in Calm(b, still) : s.out = "go" => Through[c][s] \in Calm(b, still)

LEMMA OptionsQuiet ==
  ASSUME NEW c \in Container, NEW b \in Nat, NEW still \in BOOLEAN, still => AllAnd(c)
  PROVE  Closed(AnOption(c), Len(c.options), Calm(b, still))
<1> SUFFICES ASSUME NEW i \in 1..Len(c.options), NEW r \in Calm(b, still), r.out = "go"
             PROVE  AnOption(c)[<<r, i>>] \in Calm(b, still)
  BY DEF Closed
<1> DEFINE o == c.options[i]
<1>1. r \in State /\ (still => r.xor /\ r.ands = b)
  BY DEF Calm
<1>2. \A q \in State : Leave(q, "throw") \in Calm(b, still)
  BY DEF Leave, State, Calm
<1>3. \A q \in Calm(b, still) : Value(o, q) \in Calm(b, still)
  BY <1>2 DEF Value, Calm
<1>4. CASE c.kind = "xor"
  <2>1. ~still
    BY <1>4, AllAndBelow
  <2>2. [r EXCEPT !.xor = TRUE] \in Calm(b, still)
    BY <1>1, <2>1 DEF Calm, State
  <2>3. AnOption(c)[<<r, i>>] = XorOption(r, o)
    BY <1>1, <1>4 DEF AnOption
  <2> QED BY <1>1, <1>2, <1>3, <2>2, <2>3 DEF XorOption
<1>5. CASE c.kind # "xor"
  <2>1. AnOption(c)[<<r, i>>] = AndOption(r, o)
    BY <1>1, <1>5 DEF AnOption
  <2>2. ~r.xor => [r EXCEPT !.ands = @ + 1] \in Calm(b, still)
    <3>1. r.ands + 1 \in Nat
      BY <1>1, StateFields
    <3>2. ~r.xor => ~still
      BY <1>1
    <3>3. \A n \in Nat : [r EXCEPT !.ands = n] \in State
      BY <1>1 DEF State
    <3>4. \A n \in Nat : [r EXCEPT !.ands = n].out = "go"
      BY <1>1 DEF State
    <3> QED BY <3>1, <3>2, <3>3, <3>4 DEF Calm
  <2> QED BY <1>1, <1>2, <1>3, <2>1, <2>2 DEF AndOption
<1> QED BY <1>4, <1>5

LEMMA SubsQuiet ==
  ASSUME Flat, NEW c \in Container, \A i \in 1..Len(c.subs) : Quiet(c.subs[i]),
         NEW b \in Nat, NEW still \in BOOLEAN, still => AllAnd(c)
  PROVE  Closed(ASub(Through, c), Len(c.subs), Calm(b, still))
<1> SUFFICES ASSUME NEW i \in 1..Len(c.subs), NEW r \in Calm(b, still), r.out = "go"
             PROVE  ASub(Through, c)[<<r, i>>] \in Calm(b, still)
  BY DEF Closed
<1> DEFINE d == c.subs[i]
           e == ASub(Through, c)[<<r, i>>]
<1>1. r \in State /\ (still => r.xor /\ r.ands = b)
  BY DEF Calm
<1>2. d \in Container /\ d.kind \in {"and", "xor"} /\ (still => AllAnd(d))
  BY ContainerParts, AllAndBelow
<1>3. Quiet(d) /\ Says(d)
  BY <1>2, AllSay
<1>4. (d.kind = "and" /\ c.kind = "xor") => AllAnd(d)
  BY DEF Flat
<1>5. ASub(Through, c) \in [State \X (1..Len(c.subs)) -> State]
  <2>1. \A k \in 1..Len(c.subs) : Through[c.subs[k]] \in [State -> State]
    BY ContainerParts, ThroughIs
  <2> QED BY <2>1, WalkOfType
<1>6. e \in State
  BY <1>1, <1>5
<1>7. e = IF c.kind = "xor" THEN InXor(r, d, Through[d]) ELSE InAnd(r, d, Through[d])
  BY <1>1 DEF ASub
<1>8. Through[d][r] \in Calm(b, still)
  BY <1>2, <1>3 DEF Quiet
<1> HIDE DEF d, e
<1>9. CASE c.kind = "xor" /\ d.kind = "xor"
  BY <1>7, <1>8, <1>9 DEF InXor, e
<1>10. CASE c.kind # "xor" /\ d.kind = "and"
  BY <1>7, <1>8, <1>10 DEF InAnd, e
<1>11. CASE c.kind = "xor" /\ d.kind = "and"
  <2> DEFINE s == [r EXCEPT !.ands = 0]
             w == Through[d][s]
             q == Final(d, w, TRUE)
  <2>1. s \in State /\ s.out = "go" /\ s.xor = r.xor /\ s.ands = 0 /\ s.xor \in BOOLEAN
    BY <1>1 DEF State
  <2> HIDE DEF s
  <2>2. s \in Calm(0, s.xor)
    BY <2>1 DEF Calm
  <2>3. w \in Calm(0, s.xor)
    <3>1. \A a \in Nat : s \in Calm(a, s.xor) => Through[d][s] \in Calm(a, s.xor)
      BY <1>3, <1>4, <1>11, <2>1 DEF Quiet
    <3> QED BY <2>2, <3>1
  <2>4. w.out = "go" => (w.xor <=> s.xor)
    BY <1>3, <1>11, <2>1 DEF Says, AndSays
  <2>5. q = IF w.out # "go" \/ w.ands = 0 \/ w.ands = NumMandatory[d] THEN w
            ELSE Leave(w, "throw")
    BY DEF Final
  <2>6. e.out = IF q.out = "go" /\ q.ands > 0 /\ q.xor THEN "abort" ELSE q.out
    BY <1>7, <1>11 DEF InXor, s
  <2> HIDE DEF w, q
  <2>7. w \in State /\ w.out # "abort" /\ (w.out = "go" /\ w.xor => w.ands = 0)
    BY <2>1, <2>3, <2>4 DEF Calm
  <2>8. Leave(w, "throw").out = "throw"
    BY <2>7 DEF Leave, State
  <2>9. e.out # "abort"
    <3>1. CASE q = w
      <4>1. w.ands = 0 => ~(w.ands > 0)
        OBVIOUS
      <4> QED BY <2>6, <2>7, <3>1, <4>1
    <3>2. CASE q = Leave(w, "throw")
      BY <2>6, <2>8, <3>2
    <3> QED BY <2>5, <3>1, <3>2
  <2>10. ~still
    BY <1>11, AllAndBelow
  <2> QED BY <1>6, <2>9, <2>10 DEF Calm, e
<1>12. CASE c.kind # "xor" /\ d.kind = "xor"
  <2> DEFINE q == Through[d][Start]
  <2>1. ~still
    BY <1>2, <1>12, AllAndBelow
  <2>2. Start \in Calm(0, FALSE) /\ Start.out = "go"
    BY StartType DEF Start, Calm
  <2>3. q \in Calm(0, FALSE)
    <3>1. \A a \in Nat : Start \in Calm(a, FALSE) => Through[d][Start] \in Calm(a, FALSE)
      BY <1>3, <2>2 DEF Quiet
    <3> QED BY <2>2, <3>1
  <2>4. e = [r EXCEPT !.out = q.out, !.ands = IF q.xor THEN @ + 1 ELSE @]
    BY <1>7, <1>12 DEF InAnd
  <2> HIDE DEF q
  <2>5. e.out = q.out
    BY <1>1, <2>4 DEF State
  <2> QED BY <1>6, <2>1, <2>3, <2>5 DEF Calm, e
<1> QED BY <1>2, <1>9, <1>10, <1>11, <1>12

LEMMA AllQuiet ==
  ASSUME Flat
  PROVE  \A c \in Container : Quiet(c)
<1> DEFINE T == {c \in Container : Quiet(c)}
<1>1. Inherited(Container, Rank, T)
  <2> SUFFICES ASSUME NEW c \in Container,
                      \A d \in Container : Rank[d] < Rank[c] => d \in T
               PROVE  c \in T
    BY DEF Inherited
  <2>1. \A i \in 1..Len(c.subs) : Quiet(c.subs[i])
    BY ContainerParts
  <2>2. ASSUME NEW b \in Nat, NEW still \in BOOLEAN, still => AllAnd(c),
               NEW s \in Calm(b, still), s.out = "go"
        PROVE  Through[c][s] \in Calm(b, still)
    <3> DEFINE
      n == Len(c.options)
      m == Len(c.subs)
      V == AnOption(c)
      W == ASub(Through, c)
      Q == Calm(b, still)
    <3>1. s \in State /\ Q \in SUBSET State /\ s \in Q
      BY DEF Calm
    <3>2. Through[c][s] = Walk(W, Walk(V, s, n), m)
      BY <3>1, ThroughIs DEF WalkOf
    <3>3. n \in Nat /\ m \in Nat
      BY ContainerParts
    <3>4. V \in [State \X (1..n) -> State] /\ W \in [State \X (1..m) -> State]
      <4>1. \A i \in 1..Len(c.subs) : Through[c.subs[i]] \in [State -> State]
        BY ContainerParts, ThroughIs
      <4> QED BY <4>1, WalkOfType
    <3>5. Closed(V, n, Q) /\ Closed(W, m, Q)
      BY <2>1, <2>2, OptionsQuiet, SubsQuiet
    <3> HIDE DEF n, m, V, W, Q
    <3>6. Walk(V, s, n) \in Q
      BY <3>1, <3>3, <3>4, <3>5, WalkStays
    <3>7. Walk(W, Walk(V, s, n), m) \in Q
      BY <3>1, <3>3, <3>4, <3>5, <3>6, WalkStays
    <3> QED BY <3>2, <3>7 DEF Q
  <2> QED BY <2>2 DEF Quiet
<1>2. Container \subseteq T
  <2> HIDE DEF T
  <2> QED BY <1>1, RankType, RankInduction
<1> QED BY <1>2

LEMMA FlatVerdict ==
  ASSUME Flat, NEW c \in Container
  PROVE  Verdict(Top(c)) # "abort"
<1> DEFINE q == Through[c][Start]
<1>1. Start \in Calm(0, FALSE) /\ Start.out = "go"
  BY StartType DEF Start, Calm
<1>2. q \in Calm(0, FALSE)
  <2>1. Quiet(c)
    BY AllQuiet
  <2>2. \A a \in Nat : Start \in Calm(a, FALSE) => Through[c][Start] \in Calm(a, FALSE)
    BY <1>1, <2>1 DEF Quiet
  <2> QED BY <1>1, <2>2
<1>3. Top(c) \in {q, Leave(q, "throw")}
  BY DEF Top, Final
<1> HIDE DEF q
<1>4. q.out # "abort" /\ Leave(q, "throw").out = "throw"
  BY <1>2 DEF Calm, State, Leave
<1>5. Top(c).out # "abort"
  BY <1>3, <1>4
<1> QED BY <1>5 DEF Verdict

(***************************************************************************)
(* The contract of validate_options_xor(), "this assertion should always   *)
(* hold", holds for all flat trees: an xor container somewhere in an and   *)
(* container that is an alternative, as the run "xor_abort" has it, is the *)
(* only thing that can break it.                                           *)
(***************************************************************************)
THEOREM AssertionHoldsIfFlat ==
  ASSUME Flat
  PROVE  Spec => []AssertionHolds
<1>1. Init => AssertionHolds
  BY DEF Init, AssertionHolds
<1>2. TypeOK /\ AssertionHolds /\ [Next]_vars => AssertionHolds'
  <2> SUFFICES ASSUME TypeOK, AssertionHolds, [Next]_vars
               PROVE  AssertionHolds'
    OBVIOUS
  <2>1. CASE ValidateOptions
    <3>1. Verdict(Top(Tree(shape))) # "abort"
      BY TreeType, FlatVerdict DEF TypeOK
    <3> HIDE DEF Verdict
    <3> QED BY <2>1, <3>1 DEF ValidateOptions, AssertionHolds
  <2>2. ASSUME NEW n \in OptionName, Find(n) PROVE AssertionHolds'
    BY <2>2 DEF Find, AssertionHolds
  <2>3. CASE UNCHANGED vars
    BY <2>3 DEF vars, AssertionHolds
  <2> QED BY <2>1, <2>2, <2>3 DEF Next
<1> QED BY <1>1, <1>2, TypeCorrect, PTL DEF Spec
=============================================================================
