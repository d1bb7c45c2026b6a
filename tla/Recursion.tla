------------------------------- MODULE Recursion -------------------------------
(***************************************************************************)
(* Lemmas about recursive functions.  A recursive definition chooses some  *)
(* function that satisfies its equation: that there is one, and that what  *)
(* holds of a thing when it holds of all smaller ones holds of every       *)
(* thing, is shown here once, from the least element of a set of numbers,  *)
(* for the proofs about the folds and the readers of the other modules.    *)
(***************************************************************************)
EXTENDS Naturals, TLAPS, NaturalsInduction, WellFoundedInduction, FiniteSetTheorems

-----------------------------------------------------------------------------
Before == OpToRel(<, Nat)

LEMMA BeforeIs == \A x, y : <<x, y>> \in Before <=> x \in Nat /\ y \in Nat /\ x < y
BY DEF Before, OpToRel

LEMMA Least ==
  ASSUME NEW S, S \subseteq Nat, S # {} PROVE \E n \in S : \A m \in S : n <= m
<1>1. IsWellFoundedOn(Before, Nat)
  BY NatLessThanWellFounded, Zenon DEF Before
<1>2. PICK n \in S : \A m \in S : ~(<<m, n>> \in Before)
  BY <1>1, WFMin
<1>3. ASSUME NEW m \in S PROVE n <= m
  <2>1. ~(m < n)
    BY <1>2, BeforeIs
  <2>2. QED  BY <2>1
<1>4. QED  BY <1>3

LEMMA SetInduction ==
  ASSUME NEW S, 0 \in S, \A n \in Nat : n \in S => n + 1 \in S
  PROVE  Nat \subseteq S
<1> SUFFICES ASSUME Nat \ S # {} PROVE FALSE
  OBVIOUS
<1> DEFINE T == Nat \ S
<1>1. PICK x \in T : \A y \in T : x <= y
  BY Least
<1>2. x # 0 /\ x \in Nat
  OBVIOUS
<1>3. x - 1 \in Nat /\ x - 1 < x /\ (x - 1) + 1 = x
  BY <1>2
<1>4. x - 1 \in T
  BY <1>3
<1>5. QED  BY <1>1, <1>3, <1>4

(* What is defined from one turn to the next is there.                     *)
Iterated(W, F, w, N) ==
  \E g \in [0 .. N -> W] : g[0] = w /\ \A n \in 1 .. N : g[n] = F[g[n - 1]]

LEMMA Iterates ==
  ASSUME NEW W, NEW F \in [W -> W], NEW w \in W, NEW N \in Nat
  PROVE  Iterated(W, F, w, N)
<1> DEFINE Iterate(g, n) == g[0] = w /\ \A i \in 1 .. n : g[i] = F[g[i - 1]]
           S == {n \in Nat : \E g \in [0 .. n -> W] : Iterate(g, n)}
<1>1. 0 \in S
  <2>1. [i \in 0 .. 0 |-> w] \in [0 .. 0 -> W] /\ Iterate([i \in 0 .. 0 |-> w], 0)
    OBVIOUS
  <2>2. QED  BY <2>1
<1>2. ASSUME NEW n \in Nat, n \in S PROVE n + 1 \in S
  <2>1. PICK g \in [0 .. n -> W] : Iterate(g, n)
    BY <1>2
  <2> DEFINE h == [i \in 0 .. (n + 1) |-> IF i = n + 1 THEN F[g[n]] ELSE g[i]]
  <2>2. h \in [0 .. (n + 1) -> W]
    OBVIOUS
  <2>3. h[0] = w
    BY <2>1
  <2>4. \A i \in 1 .. n + 1 : h[i] = F[h[i - 1]]
    <3> SUFFICES ASSUME NEW i \in 1 .. n + 1 PROVE h[i] = F[h[i - 1]]
      OBVIOUS
    <3>1. i - 1 \in 0 .. n /\ h[i - 1] = g[i - 1]
      OBVIOUS
    <3>2. CASE i = n + 1
      BY <3>1, <3>2
    <3>3. CASE i # n + 1
      <4>1. i \in 1 .. n
        BY <3>3
      <4>2. QED  BY <4>1, <3>1, <2>1
    <3>4. QED  BY <3>2, <3>3
  <2> HIDE DEF h
  <2>5. QED  BY <2>2, <2>3, <2>4
<1>3. Nat \subseteq S
  <2> HIDE DEF S
  <2>1. QED  BY <1>1, <1>2, SetInduction
<1>4. QED  BY <1>3 DEF Iterated

(* What holds of a thing as soon as it holds of all smaller ones holds of  *)
(* every thing.                                                            *)
Inherits(D, size, S) ==
  \A d \in D : (\A e \in D : size[e] < size[d] => e \in S) => d \in S

LEMMA BySize ==
  ASSUME NEW D, NEW size \in [D -> Nat], NEW S, Inherits(D, size, S) PROVE D \subseteq S
<1> USE DEF Inherits
<1> SUFFICES ASSUME D \ S # {} PROVE FALSE
  OBVIOUS
<1> DEFINE T == {size[d] : d \in D \ S}
<1>1. PICK n \in T : \A m \in T : n <= m
  <2>1. T \subseteq Nat /\ T # {}
    OBVIOUS
  <2>2. QED  BY <2>1, Least
<1>2. PICK d \in D \ S : n = size[d]
  OBVIOUS
<1>3. ASSUME NEW e \in D, size[e] < size[d] PROVE e \in S
  <2>1. SUFFICES ASSUME e \notin S PROVE FALSE
    OBVIOUS
  <2>2. n <= size[e]
    BY <1>1, <2>1
  <2>3. QED  BY <1>2, <1>3, <2>2
<1>4. QED  BY <1>2, <1>3

-----------------------------------------------------------------------------
(* A function that is defined from its value at something smaller.         *)
Recursive(f, D, Ends, base, rest, G) ==
  \A d \in D : f[d] = IF d \in Ends THEN base[d] ELSE G[<<d, f[rest[d]]>>]

Sized(D, size, Ends, rest) ==
  /\ size \in [D -> Nat] /\ Ends \subseteq D /\ rest \in [D \ Ends -> D]
  /\ \A d \in D \ Ends : size[rest[d]] < size[d]

UpTo(D, size, n) == {d \in D : size[d] <= n}

(* It is there for what is small, ...                                      *)
LEMMA RecursesUpTo ==
  ASSUME NEW D, NEW T, NEW size, NEW Ends, NEW rest, Sized(D, size, Ends, rest),
         NEW base \in [Ends -> T], NEW G \in [D \X T -> T], NEW n \in Nat
  PROVE  \E f \in [UpTo(D, size, n) -> T] :
           Recursive(f, UpTo(D, size, n), Ends, base, rest, G)
<1> DEFINE Short(m) == UpTo(D, size, m)
           Good(f, m) == f \in [Short(m) -> T] /\ Recursive(f, Short(m), Ends, base, rest, G)
           S == {m \in Nat : \E f : Good(f, m)}
           id == [m \in Nat |-> m]
<1>1. ASSUME NEW m \in Nat, \A k \in Nat : k < m => k \in S PROVE m \in S
  <2>1. PICK g : m > 0 => Good(g, m - 1)
    <3>1. CASE m = 0
      BY <3>1
    <3>2. CASE m > 0
      <4>1. m - 1 \in S
        BY <1>1, <3>2
      <4>2. QED  BY <4>1
    <3>3. QED  BY <3>1, <3>2
  <2> DEFINE f == [d \in Short(m) |-> IF d \in Ends THEN base[d] ELSE G[<<d, g[rest[d]]>>]]
  <2>2. ASSUME NEW d \in Short(m), d \notin Ends
        PROVE  m > 0 /\ rest[d] \in Short(m - 1) /\ rest[d] \in Short(m) /\ g[rest[d]] \in T
    <3>1. size[rest[d]] < size[d] /\ size[d] <= m /\ rest[d] \in D /\ d \in D
      BY <2>2 DEF UpTo, Sized
    <3>2. size[rest[d]] \in Nat /\ size[d] \in Nat
      BY <3>1 DEF Sized
    <3>3. m > 0 /\ size[rest[d]] <= m - 1 /\ size[rest[d]] <= m
      BY <3>1, <3>2
    <3>4. rest[d] \in Short(m - 1) /\ rest[d] \in Short(m)
      BY <3>1, <3>3 DEF UpTo
    <3>5. QED  BY <2>1, <3>3, <3>4
  <2>3. f \in [Short(m) -> T]
    <3>1. ASSUME NEW d \in Short(m), d \notin Ends PROVE G[<<d, g[rest[d]]>>] \in T
      BY <2>2, <3>1 DEF UpTo
    <3>2. QED  BY <3>1
  <2>4. ASSUME NEW d \in Short(m), d \notin Ends PROVE f[rest[d]] = g[rest[d]]
    <3>1. m > 0 /\ rest[d] \in Short(m - 1) /\ rest[d] \in Short(m)
      BY <2>2, <2>4
    <3>2. g[rest[d]] = IF rest[d] \in Ends THEN base[rest[d]] ELSE G[<<rest[d], g[rest[rest[d]]]>>]
      BY <2>1, <3>1 DEF Recursive
    <3>3. QED  BY <3>1, <3>2
  <2>5. Recursive(f, Short(m), Ends, base, rest, G)
    BY <2>4 DEF Recursive
  <2>6. QED  BY <2>3, <2>5
<1>2. Nat \subseteq S
  <2> HIDE DEF S
  <2>1. id \in [Nat -> Nat]
    OBVIOUS
  <2>2. Inherits(Nat, id, S)
    BY <1>1 DEF Inherits
  <2> HIDE DEF id
  <2>3. QED  BY <2>1, <2>2, BySize
<1>3. QED  BY <1>2

(* ... two of them agree where both are, ...                               *)
LEMMA RecursesOnce ==
  ASSUME NEW D, NEW size, NEW Ends, NEW rest, Sized(D, size, Ends, rest), NEW base, NEW G,
         NEW f, NEW A \in SUBSET D, Recursive(f, A, Ends, base, rest, G),
         NEW g, NEW B \in SUBSET D, Recursive(g, B, Ends, base, rest, G),
         \A d \in (A \cap B) \ Ends : rest[d] \in A \cap B
  PROVE  \A d \in A \cap B : f[d] = g[d]
<1> DEFINE S == {d \in A \cap B : f[d] = g[d]}
           C == A \cap B
           sizes == [d \in C |-> size[d]]
<1>1. sizes \in [C -> Nat]
  BY DEF Sized
<1>2. ASSUME NEW d \in C, \A e \in C : sizes[e] < sizes[d] => e \in S PROVE d \in S
  <2>1. f[d] = (IF d \in Ends THEN base[d] ELSE G[<<d, f[rest[d]]>>])
        /\ g[d] = (IF d \in Ends THEN base[d] ELSE G[<<d, g[rest[d]]>>])
    BY <1>2 DEF Recursive
  <2>2. CASE d \in Ends
    BY <2>1, <2>2
  <2>3. CASE d \notin Ends
    <3>1. rest[d] \in C /\ sizes[rest[d]] < sizes[d]
      BY <2>3 DEF Sized
    <3>2. f[rest[d]] = g[rest[d]]
      BY <1>2, <3>1
    <3>3. QED  BY <2>1, <2>3, <3>2
  <2>4. QED  BY <2>2, <2>3
<1>3. C \subseteq S
  <2> HIDE DEF S, C, sizes
  <2>1. Inherits(C, sizes, S)
    BY <1>2 DEF Inherits
  <2>2. QED  BY <1>1, <2>1, BySize
<1>4. QED  BY <1>3

(* ... and so it is there.                                                 *)
LEMMA Recurses ==
  ASSUME NEW D, NEW T, NEW size, NEW Ends, NEW rest, Sized(D, size, Ends, rest),
         NEW base \in [Ends -> T], NEW G \in [D \X T -> T]
  PROVE  \E f \in [D -> T] : Recursive(f, D, Ends, base, rest, G)
<1> DEFINE Short(n) == UpTo(D, size, n)
           Good(f, n) == f \in [Short(n) -> T] /\ Recursive(f, Short(n), Ends, base, rest, G)
           one == [n \in Nat |-> CHOOSE f : Good(f, n)]
           whole == [d \in D |-> one[size[d]][d]]
<1>1. ASSUME NEW n \in Nat PROVE Good(one[n], n)
  <2>1. \E f : Good(f, n)
    BY RecursesUpTo
  <2>2. QED  BY <2>1
<1> HIDE DEF one
<1>2. ASSUME NEW d \in D PROVE d \in Short(size[d]) /\ size[d] \in Nat
  BY DEF UpTo, Sized
<1>3. whole \in [D -> T]
  BY <1>1, <1>2
<1>4. ASSUME NEW d \in D, d \notin Ends PROVE one[size[d]][rest[d]] = whole[rest[d]]
  <2> DEFINE n == size[d]  e == rest[d]  m == size[e]
  <2>1. e \in D /\ m < n /\ n \in Nat /\ m \in Nat
    BY <1>4 DEF Sized
  <2>2. Short(m) \subseteq D /\ Short(n) \subseteq D /\ e \in Short(m) /\ e \in Short(n)
    BY <2>1 DEF UpTo
  <2>3. \A x \in (Short(m) \cap Short(n)) \ Ends : rest[x] \in Short(m) \cap Short(n)
    <3>1. ASSUME NEW x \in (Short(m) \cap Short(n)) \ Ends PROVE rest[x] \in Short(m) \cap Short(n)
      <4>1. size[rest[x]] < size[x] /\ rest[x] \in D /\ x \in D /\ size[x] \in Nat
            /\ size[rest[x]] \in Nat /\ size[x] <= m /\ size[x] <= n
        BY DEF Sized, UpTo
      <4>2. size[rest[x]] <= m /\ size[rest[x]] <= n
        BY <2>1, <4>1
      <4>3. QED  BY <4>1, <4>2 DEF UpTo
    <3>2. QED  BY <3>1
  <2>4. Recursive(one[m], Short(m), Ends, base, rest, G)
        /\ Recursive(one[n], Short(n), Ends, base, rest, G)
    BY <1>1, <2>1
  <2> HIDE DEF n, m, e
  <2>5. one[m][e] = one[n][e]
    BY <2>2, <2>3, <2>4, RecursesOnce
  <2>6. whole[e] = one[m][e]
    BY <2>1 DEF m
  <2>7. QED  BY <2>5, <2>6 DEF n, e
<1>5. Recursive(whole, D, Ends, base, rest, G)
  <2>1. ASSUME NEW d \in D
        PROVE  whole[d] = IF d \in Ends THEN base[d] ELSE G[<<d, whole[rest[d]]>>]
    <3>1. whole[d] = IF d \in Ends THEN base[d] ELSE G[<<d, one[size[d]][rest[d]]>>]
      BY <1>1, <1>2 DEF Recursive
    <3>2. QED  BY <1>4, <3>1
  <2>2. QED  BY <2>1 DEF Recursive
<1>6. QED  BY <1>3, <1>5

-----------------------------------------------------------------------------
(* A fold of what is at 1 .. n takes the greatest place first and then     *)
(* what is left (FoldLeft of the community modules).                       *)
Top(s) == CHOOSE x \in s : \A y \in s : x >= y

Folds(f, n, base, G) ==
  \A s \in SUBSET (1 .. n) : f[s] = IF s = {} THEN base ELSE G[<<s, f[s \ {Top(s)}]>>]

LEMMA TopIs ==
  ASSUME NEW n \in Nat, NEW s \in SUBSET (1 .. n), s # {}
  PROVE  Top(s) \in s /\ \A y \in s : Top(s) >= y
<1> DEFINE T == {n - x : x \in s}
<1>1. T \subseteq Nat /\ T # {}
  <2>1. PICK x \in s : TRUE
    OBVIOUS
  <2>2. n - x \in T /\ \A y \in s : n - y \in Nat
    OBVIOUS
  <2>3. QED  BY <2>2
<1>2. PICK m \in T : \A k \in T : m <= k
  <2> HIDE DEF T
  <2>1. QED  BY <1>1, Least
<1>3. PICK x \in s : m = n - x
  OBVIOUS
<1>4. ASSUME NEW y \in s PROVE x >= y
  <2>1. n - y \in T
    OBVIOUS
  <2>2. m <= n - y
    BY <1>2, <2>1
  <2>3. QED  BY <1>3, <2>2
<1>5. QED  BY <1>4 DEF Top

LEMMA FoldIsThere ==
  ASSUME NEW n \in Nat, NEW T, NEW base \in T, NEW G \in [(SUBSET (1 .. n)) \X T -> T]
  PROVE  \E f \in [SUBSET (1 .. n) -> T] : Folds(f, n, base, G)
<1> DEFINE D == SUBSET (1 .. n)
           size == [s \in D |-> Cardinality(s)]
           Ends == {{}}
           rest == [s \in D \ Ends |-> s \ {Top(s)}]
           bases == [s \in Ends |-> base]
<1>1. ASSUME NEW s \in D
      PROVE  /\ IsFiniteSet(s) /\ size[s] \in Nat
             /\ s \notin Ends => rest[s] \in D /\ size[rest[s]] < size[s]
  <2>1. IsFiniteSet(1 .. n)
    BY FS_Interval
  <2>2. IsFiniteSet(s) /\ Cardinality(s) \in Nat
    BY <2>1, FS_Subset, FS_CardinalityType
  <2>3. ASSUME s # {}
        PROVE  s \ {Top(s)} \in D /\ Cardinality(s \ {Top(s)}) = Cardinality(s) - 1
    BY <2>2, <2>3, TopIs, FS_RemoveElement
  <2>4. ASSUME s # {} PROVE Cardinality(s) - 1 < Cardinality(s)
    BY <2>2
  <2>5. QED  BY <2>2, <2>3, <2>4
<1>2. Sized(D, size, Ends, rest)
  <2> HIDE DEF size
  <2>1. size \in [D -> Nat]
    BY <1>1 DEF size
  <2>2. rest \in [D \ Ends -> D] /\ \A s \in D \ Ends : size[rest[s]] < size[s]
    BY <1>1
  <2>3. QED  BY <2>1, <2>2 DEF Sized
<1>3. bases \in [Ends -> T] /\ G \in [D \X T -> T]
  OBVIOUS
<1>4. PICK f \in [D -> T] : Recursive(f, D, Ends, bases, rest, G)
  <2> HIDE DEF D, size, Ends, rest, bases
  <2>1. QED  BY <1>2, <1>3, Recurses
<1>5. Folds(f, n, base, G)
  BY <1>4 DEF Recursive, Folds
<1>6. QED  BY <1>4, <1>5

LEMMA TopOfRange == ASSUME NEW n \in Nat, NEW k \in 1 .. n PROVE Top(1 .. k) = k
<1>1. k \in Nat /\ 1 .. k \in SUBSET (1 .. k) /\ k \in 1 .. k
  OBVIOUS
<1>2. Top(1 .. k) \in 1 .. k /\ Top(1 .. k) >= k
  BY <1>1, TopIs
<1>3. QED  BY <1>2

LEMMA FoldSteps ==
  ASSUME NEW n \in Nat, NEW f, NEW base, NEW G, Folds(f, n, base, G)
  PROVE  f[{}] = base /\ \A k \in 1 .. n : f[1 .. k] = G[<<1 .. k, f[1 .. (k - 1)]>>]
<1>1. f[{}] = base
  BY DEF Folds
<1>2. ASSUME NEW k \in 1 .. n PROVE f[1 .. k] = G[<<1 .. k, f[1 .. (k - 1)]>>]
  <2>1. 1 .. k \in SUBSET (1 .. n) /\ 1 .. k # {} /\ Top(1 .. k) = k
    BY TopOfRange
  <2>2. (1 .. k) \ {k} = 1 .. (k - 1)
    OBVIOUS
  <2>3. QED  BY <2>1, <2>2 DEF Folds
<1>3. QED  BY <1>1, <1>2
=============================================================================
