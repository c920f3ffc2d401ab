----------------------------- MODULE Induction ------------------------------
(***************************************************************************)
(* Induction over numbers, for the sets a proof names, and what follows for *)
(* walks (the steps of a walk are counted, what it has seen after as many   *)
(* steps as there are elements is closed, and nothing smaller is) and for   *)
(* folds over sequences (they are defined, and go element by element).      *)
(***************************************************************************)
EXTENDS Integers, FiniteSetsExt, FiniteSetTheorems, WellFoundedInduction, TLAPS

LessOnNat == {p \in Nat \X Nat : p[1] < p[2]}

LEMMA LeastNumber ==
    ASSUME NEW T \in SUBSET Nat, T # {}
    PROVE  \E m \in T : \A n \in T : m <= n
<1>1. IsWellFoundedOn(LessOnNat, Nat)
  BY NatLessThanWellFounded, Zenon DEF OpToRel, LessOnNat
<1>2. PICK m \in T : \A n \in T : ~ (<<n, m>> \in LessOnNat)
  BY <1>1, WFMin, Zenon
<1>3. ASSUME NEW n \in T PROVE m <= n
  <2>1. m \in Nat /\ n \in Nat /\ <<n, m>> \notin LessOnNat
    BY <1>2
  <2> QED BY <2>1 DEF LessOnNat
<1> QED BY <1>3

\* A set that holds 0 and, with a number below k, the next one holds 0..k.
LEMMA NumbersUpTo ==
    ASSUME NEW k \in Nat, NEW S, 0 \in S, \A n \in 0..k : n \in S /\ n < k => n + 1 \in S
    PROVE  \A n \in 0..k : n \in S
<1> DEFINE T == (0..k) \ S
<1>1. SUFFICES ASSUME T # {} PROVE FALSE
  OBVIOUS
<1>2. T \in SUBSET Nat
  OBVIOUS
<1>3. PICK m \in T : \A n \in T : m <= n
  BY <1>1, <1>2, LeastNumber
<1>4. m \in Nat /\ m # 0 /\ m <= k /\ m \notin S
  OBVIOUS
<1>5. m - 1 \in 0..k /\ m - 1 \notin T /\ m - 1 < k
  BY <1>3, <1>4
<1>6. (m - 1) + 1 \in S
  BY <1>5
<1> QED BY <1>4, <1>6

-----------------------------------------------------------------------------
(* Walks.  R is a set of steps <<from, to>>.                                *)

\* What is seen after one more step.
Seen(R, before) == before \cup {l[2] : l \in {k \in R : k[1] \in before}}
\* v counts the steps of the walk that starts in A.
Walk(R, A, k, v) ==
    v = [n \in 0..k |-> IF n = 0 THEN A
                        ELSE LET before == v[n - 1]
                             IN before \cup {l[2] : l \in {m \in R : m[1] \in before}}]

LEMMA WalkExists ==
    ASSUME NEW R, NEW A, NEW k \in Nat
    PROVE  \E v : Walk(R, A, k, v)
<1> DEFINE S == {j \in Nat : \E v : Walk(R, A, j, v)}
<1>1. 0 \in S
  <2> DEFINE v == [n \in 0..0 |-> A]
  <2>1. Walk(R, A, 0, v)
    BY DEF Walk
  <2> QED BY <2>1
<1>2. ASSUME NEW j \in 0..k, j \in S PROVE j + 1 \in S
  <2>1. PICK v : Walk(R, A, j, v)
    BY <1>2
  <2> DEFINE w == [n \in 0..(j + 1) |-> IF n = j + 1 THEN Seen(R, v[j]) ELSE v[n]]
  <2>2. \A n \in 0..j : w[n] = v[n]
    OBVIOUS
  <2>3. w[j + 1] = Seen(R, w[j])
    BY <2>2
  <2>4. \A n \in 0..j : v[n] = IF n = 0 THEN A ELSE Seen(R, v[n - 1])
    BY <2>1, Zenon DEF Walk, Seen
  <2>5. w = [n \in 0..(j + 1) |-> w[n]]
    OBVIOUS
  <2>6. ASSUME NEW n \in 0..(j + 1) PROVE w[n] = IF n = 0 THEN A ELSE Seen(R, w[n - 1])
    <3>1. CASE n = j + 1
      BY <2>3, <3>1
    <3>2. CASE n # j + 1
      <4>1. n \in 0..j /\ (n # 0 => n - 1 \in 0..j)
        BY <3>2
      <4> QED BY <2>2, <2>4, <4>1
    <3> QED BY <3>1, <3>2
  <2> HIDE DEF w
  <2>7. w = [n \in 0..(j + 1) |-> IF n = 0 THEN A ELSE Seen(R, w[n - 1])]
    BY <2>5, <2>6
  <2>8. Walk(R, A, j + 1, w)
    BY <2>7, Zenon DEF Walk, Seen
  <2> QED BY <2>8
<1> HIDE DEF S
<1>3. k \in S
  BY <1>1, <1>2, NumbersUpTo
<1> QED BY <1>3 DEF S

LEMMA WalkSteps ==
    ASSUME NEW R, NEW A, NEW k \in Nat, NEW v, Walk(R, A, k, v)
    PROVE  /\ v[0] = A
           /\ \A n \in 0..k : n < k => v[n + 1] = Seen(R, v[n])
<1>1. \A n \in 0..k : v[n] = IF n = 0 THEN A ELSE Seen(R, v[n - 1])
  BY Zenon DEF Walk, Seen
<1>2. 0 \in 0..k
  OBVIOUS
<1>3. ASSUME NEW n \in 0..k, n < k PROVE v[n + 1] = Seen(R, v[n])
  <2>1. n + 1 \in 0..k /\ n + 1 # 0 /\ (n + 1) - 1 = n
    BY <1>3
  <2> QED BY <1>1, <2>1
<1> QED BY <1>1, <1>2, <1>3

\* A walk stays in every set that holds its start and is closed.
LEMMA WalkIsLeast ==
    ASSUME NEW R, NEW A, NEW k \in Nat, NEW v, Walk(R, A, k, v),
           NEW S, A \subseteq S, \A l \in R : l[1] \in S => l[2] \in S
    PROVE  v[k] \subseteq S
<1> DEFINE T == {n \in 0..k : v[n] \subseteq S}
<1>1. 0 \in T
  BY WalkSteps
<1>2. ASSUME NEW n \in 0..k, n \in T, n < k PROVE n + 1 \in T
  <2>1. v[n] \subseteq S /\ n + 1 \in 0..k
    BY <1>2
  <2>2. v[n + 1] = Seen(R, v[n])
    BY <1>2, WalkSteps
  <2> QED BY <2>1, <2>2 DEF Seen
<1> HIDE DEF T
<1>3. k \in T
  BY <1>1, <1>2, NumbersUpTo
<1> QED BY <1>3 DEF T

Closed(R, E, V) == \A l \in R : l[1] \in V /\ l[2] \in E => l[2] \in V

\* A step of a walk that is not closed finds something new.
LEMMA WalkGrows ==
    ASSUME NEW R, NEW E, IsFiniteSet(E), \A l \in R : l[1] \in E,
           NEW V, NEW n \in Nat, Closed(R, E, V) \/ Cardinality(V \cap E) >= n + 1
    PROVE  Closed(R, E, Seen(R, V)) \/ Cardinality(Seen(R, V) \cap E) >= n + 2
<1>1. CASE Closed(R, E, V)
  BY <1>1 DEF Closed, Seen
<1>2. CASE ~Closed(R, E, V)
  <2>1. PICK l \in R : l[1] \in V /\ l[2] \in E /\ l[2] \notin V
    BY <1>2 DEF Closed
  <2>2. IsFiniteSet(V \cap E) /\ IsFiniteSet(Seen(R, V) \cap E)
    BY FS_Subset
  <2>3. /\ IsFiniteSet((V \cap E) \cup {l[2]})
        /\ Cardinality((V \cap E) \cup {l[2]}) = Cardinality(V \cap E) + 1
    BY <2>1, <2>2, FS_AddElement
  <2>4. (V \cap E) \cup {l[2]} \in SUBSET (Seen(R, V) \cap E)
    BY <2>1 DEF Seen
  <2>5. Cardinality((V \cap E) \cup {l[2]}) <= Cardinality(Seen(R, V) \cap E)
    BY <2>2, <2>4, FS_Subset
  <2>6. Cardinality(V \cap E) \in Nat /\ Cardinality(Seen(R, V) \cap E) \in Nat
    BY <2>2, FS_CardinalityType
  <2> QED BY <1>2, <2>3, <2>5, <2>6
<1> QED BY <1>1, <1>2

\* What a walk through a finite set E has seen after as many steps as E has
\* elements is closed.
LEMMA WalkCloses ==
    ASSUME NEW R, NEW A, NEW E, IsFiniteSet(E), \A l \in R : l[1] \in E,
           NEW k \in Nat, k >= Cardinality(E), NEW v, Walk(R, A, k, v)
    PROVE  A \subseteq v[k] /\ Closed(R, E, v[k])
<1> DEFINE T == {n \in 0..k : /\ A \subseteq v[n]
                              /\ Closed(R, E, v[n]) \/ Cardinality(v[n] \cap E) >= n + 1}
<1>1. 0 \in T
  <2>1. v[0] = A
    BY WalkSteps
  <2>2. IsFiniteSet(A \cap E) /\ Cardinality(A \cap E) \in Nat
    BY FS_Subset, FS_CardinalityType
  <2>3. CASE Cardinality(A \cap E) = 0
    <3>1. A \cap E = {}
      BY <2>2, <2>3, FS_EmptySet
    <3> QED BY <2>1, <3>1 DEF Closed
  <2>4. CASE Cardinality(A \cap E) # 0
    <3>1. Cardinality(v[0] \cap E) >= 0 + 1
      BY <2>1, <2>2, <2>4
    <3> QED BY <2>1, <3>1
  <2> QED BY <2>3, <2>4
<1>2. ASSUME NEW n \in 0..k, n \in T, n < k PROVE n + 1 \in T
  <2>1. v[n + 1] = Seen(R, v[n])
    BY <1>2, WalkSteps
  <2>2. /\ A \subseteq v[n]
        /\ Closed(R, E, v[n]) \/ Cardinality(v[n] \cap E) >= n + 1
    BY <1>2
  <2>3. Closed(R, E, Seen(R, v[n])) \/ Cardinality(Seen(R, v[n]) \cap E) >= n + 2
    <3>1. n \in Nat
      OBVIOUS
    <3> QED BY ONLY <2>2, <3>1, WalkGrows, IsFiniteSet(E), \A l \in R : l[1] \in E
  <2>4. A \subseteq Seen(R, v[n])
    BY <2>2 DEF Seen
  <2> QED BY <1>2, <2>1, <2>3, <2>4
<1> HIDE DEF T
<1>3. k \in T
  BY <1>1, <1>2, NumbersUpTo
<1>4. IsFiniteSet(v[k] \cap E) /\ Cardinality(v[k] \cap E) <= Cardinality(E)
      /\ Cardinality(v[k] \cap E) \in Nat /\ Cardinality(E) \in Nat
  BY FS_Subset, FS_CardinalityType
<1>5. ~(Cardinality(v[k] \cap E) >= k + 1)
  BY <1>4
<1> QED BY <1>3, <1>5 DEF T

-----------------------------------------------------------------------------
(* Folds.  The community modules fold a sequence by way of a table of all    *)
(* the sets of its indices, from which the largest index is taken first.     *)

LEMMA LargestOf ==
    ASSUME NEW n \in Nat, NEW s \in SUBSET (1..n), s # {}
    PROVE  Max(s) \in s /\ \A y \in s : Max(s) >= y
<1> DEFINE T == {m \in Nat : \A y \in s : m >= y}
<1>1. T \in SUBSET Nat /\ T # {}
  OBVIOUS
<1>2. PICK m \in T : \A k \in T : m <= k
  BY <1>1, LeastNumber
<1>3. m \in s
  <2>1. SUFFICES ASSUME m \notin s PROVE FALSE
    OBVIOUS
  <2>2. m \in Nat /\ \A y \in s : y \in Nat /\ m >= y /\ y # m /\ y >= 1
    BY <1>2, <2>1
  <2>3. PICK y \in s : TRUE
    OBVIOUS
  <2>4. m - 1 \in T
    BY <2>2, <2>3
  <2> QED BY <1>2, <2>2, <2>4
<1>4. \E x \in s : \A y \in s : x >= y
  BY <1>2, <1>3
<1> QED BY <1>4, Zenon DEF Max

LEMMA LargestUpTo ==
    ASSUME NEW k \in Nat
    PROVE  Max(1..(k + 1)) = k + 1 /\ (1..(k + 1)) \ {k + 1} = 1..k
<1>1. 1..(k + 1) # {} /\ k + 1 \in Nat /\ k + 1 \in 1..(k + 1)
  OBVIOUS
<1>2. Max(1..(k + 1)) \in 1..(k + 1) /\ Max(1..(k + 1)) >= k + 1
  BY <1>1, LargestOf
<1> QED BY <1>2

\* g takes an index and what the fold has come to.
FoldTable(n, base, g, h) ==
    \A s \in SUBSET (1..n) : h[s] = IF s = {} THEN base ELSE g[Max(s), h[s \ {Max(s)}]]

LEMMA FoldExists ==
    ASSUME NEW n \in Nat, NEW St, NEW base \in St, NEW g \in [(1..n) \X St -> St]
    PROVE  \E h \in [SUBSET (1..n) -> St] : FoldTable(n, base, g, h)
<1> DEFINE Good(k) == \E h \in [SUBSET (1..k) -> St] : FoldTable(k, base, g, h)
           S == {k \in 0..n : Good(k)}
<1>1. 0 \in S
  <2> DEFINE h == [s \in SUBSET (1..0) |-> base]
  <2>1. \A s \in SUBSET (1..0) : s = {}
    OBVIOUS
  <2>2. h \in [SUBSET (1..0) -> St] /\ FoldTable(0, base, g, h)
    BY <2>1 DEF FoldTable
  <2> QED BY <2>2
<1>2. ASSUME NEW k \in 0..n, k \in S, k < n PROVE k + 1 \in S
  <2>1. PICK h \in [SUBSET (1..k) -> St] : FoldTable(k, base, g, h)
    BY <1>2
  <2> DEFINE w == [s \in SUBSET (1..(k + 1)) |->
                     IF k + 1 \in s THEN g[k + 1, h[s \ {k + 1}]] ELSE h[s]]
  <2>2. \A s \in SUBSET (1..(k + 1)) :
           /\ s \ {k + 1} \in SUBSET (1..k)
           /\ k + 1 \notin s => s \in SUBSET (1..k)
           /\ k + 1 \in s => Max(s) = k + 1
    <3>1. TAKE s \in SUBSET (1..(k + 1))
    <3>2. k + 1 \in s => Max(s) = k + 1
      <4>1. SUFFICES ASSUME k + 1 \in s PROVE Max(s) = k + 1
        OBVIOUS
      <4>2. k + 1 \in Nat /\ s # {}
        BY <4>1
      <4>3. Max(s) \in s /\ Max(s) >= k + 1
        BY <4>1, <4>2, LargestOf
      <4>4. Max(s) \in 1..(k + 1)
        BY <4>3
      <4> QED BY <4>3, <4>4
    <3> QED BY <3>2
  <2>3. ASSUME NEW s \in SUBSET (1..k)
        PROVE  s \in SUBSET (1..(k + 1)) /\ w[s] = h[s]
    <3>1. s \in SUBSET (1..(k + 1)) /\ k + 1 \notin s
      OBVIOUS
    <3> QED BY <3>1
  <2>4. w \in [SUBSET (1..(k + 1)) -> St]
    <3>1. ASSUME NEW s \in SUBSET (1..(k + 1)) PROVE g[k + 1, h[s \ {k + 1}]] \in St
      <4>1. k + 1 \in 1..n /\ h[s \ {k + 1}] \in St
        BY <1>2, <2>2
      <4> QED BY <4>1
    <3>2. \A s \in SUBSET (1..(k + 1)) : k + 1 \notin s => h[s] \in St
      BY <2>2
    <3> QED BY <3>1, <3>2
  <2>5. FoldTable(k + 1, base, g, w)
    <3>1. SUFFICES ASSUME NEW s \in SUBSET (1..(k + 1))
                   PROVE  w[s] = IF s = {} THEN base ELSE g[Max(s), w[s \ {Max(s)}]]
      BY DEF FoldTable
    <3>2. CASE k + 1 \in s
      <4>1. Max(s) = k + 1 /\ s \ {k + 1} \in SUBSET (1..k)
        BY <2>2, <3>2
      <4>2. w[s] = g[k + 1, h[s \ {k + 1}]] /\ w[s \ {k + 1}] = h[s \ {k + 1}]
        BY <2>3, <3>2, <4>1
      <4> QED BY <3>2, <4>1, <4>2
    <3>3. CASE k + 1 \notin s
      <4>1. s \in SUBSET (1..k) /\ s \ {Max(s)} \in SUBSET (1..k)
        BY <2>2, <3>3
      <4>2. w[s] = h[s] /\ w[s \ {Max(s)}] = h[s \ {Max(s)}]
        BY <2>3, <4>1
      <4>3. h[s] = IF s = {} THEN base ELSE g[Max(s), h[s \ {Max(s)}]]
        BY <2>1, <4>1 DEF FoldTable
      <4> QED BY <4>2, <4>3
    <3> QED BY <3>2, <3>3
  <2> HIDE DEF w
  <2> QED BY <1>2, <2>4, <2>5
<1> HIDE DEF S
<1>3. n \in S
  BY <1>1, <1>2, NumbersUpTo
<1> QED BY <1>3 DEF S

\* What a table has come to after each of the elements.
FoldSteps(n, St, g, h) ==
    \A s \in SUBSET (1..n) : s # {} /\ h[s \ {Max(s)}] \in St
                                 => h[s] = g[Max(s), h[s \ {Max(s)}]]

\* f is what the fold has come to after each element, from base to last.
Course(n, base, g, f, last) ==
    f[0] = base /\ f[n] = last /\ \A k \in 0..n : k < n => f[k + 1] = g[k + 1, f[k]]

LEMMA FoldCourse ==
    ASSUME NEW n \in Nat, NEW St, NEW base \in St, NEW g \in [(1..n) \X St -> St], NEW h,
           h[{}] = base, FoldSteps(n, St, g, h)
    PROVE  \E f \in [0..n -> St] : Course(n, base, g, f, h[1..n])
<1> DEFINE f == [k \in 0..n |-> h[1..k]]
           T == {k \in 0..n : h[1..k] \in St}
<1>1. 1..0 = {} /\ 0 \in 0..n /\ n \in 0..n
  OBVIOUS
<1>2. ASSUME NEW k \in 0..n, k < n, h[1..k] \in St
      PROVE  h[1..(k + 1)] = g[k + 1, h[1..k]] /\ g[k + 1, h[1..k]] \in St
  <2>1. k \in Nat /\ k + 1 \in 1..n
    BY <1>2
  <2> DEFINE s == 1..(k + 1)
  <2>2. Max(s) = k + 1 /\ s \ {k + 1} = 1..k
    BY <2>1, LargestUpTo
  <2>3. s \in SUBSET (1..n) /\ s # {}
    <3>1. k + 1 \in s
      BY <2>1
    <3>2. ASSUME NEW j \in s PROVE j \in 1..n
      BY <2>1
    <3> QED BY <3>1, <3>2
  <2> HIDE DEF s
  <2>4. h[s] = g[k + 1, h[1..k]]
    BY <1>2, <2>2, <2>3 DEF FoldSteps
  <2> QED BY <1>2, <2>1, <2>4 DEF s
<1>3. 0 \in T
  BY <1>1
<1>4. \A k \in 0..n : k \in T /\ k < n => k + 1 \in T
  <2>1. TAKE k \in 0..n
  <2>2. HAVE k \in T /\ k < n
  <2>3. k + 1 \in 0..n
    BY <2>2
  <2> QED BY <1>2, <2>2, <2>3
<1> HIDE DEF T
<1>5. \A k \in 0..n : k \in T
  BY <1>3, <1>4, NumbersUpTo
<1>6. f \in [0..n -> St]
  BY <1>5 DEF T
<1>7. ASSUME NEW k \in 0..n, k < n PROVE f[k + 1] = g[k + 1, f[k]]
  <2>1. k + 1 \in 0..n /\ h[1..k] \in St
    BY <1>5, <1>7 DEF T
  <2> QED BY <1>2, <1>7, <2>1
<1> HIDE DEF f
<1>8. f[0] = base /\ f[n] = h[1..n]
  BY <1>1 DEF f
<1>9. Course(n, base, g, f, h[1..n])
  BY <1>7, <1>8 DEF Course
<1> QED BY <1>6, <1>9
=============================================================================
