--------------------------- MODULE RemoteTreeProofs ---------------------------
(***************************************************************************)
(* Proofs about RemoteTree, for any tree, whatever listings leave out and  *)
(* the server refuses.                                                     *)
(*                                                                         *)
(* Trees first.  Above, Climb and Normalize are recursive; that they are   *)
(* what their equations say, and that a tree has no node beyond its        *)
(* height, gives the path of a node, and two files whose paths and names   *)
(* are alike are one, because no folder has two things of a name.          *)
(*                                                                         *)
(* The walk then.  A file below the folder is taken, or named, or some     *)
(* folder above it is on the stack still: when the stack is empty, nothing *)
(* waits.                                                                  *)
(***************************************************************************)
EXTENDS RemoteTree, Recursion, TLAPS, SequenceTheorems

-----------------------------------------------------------------------------
(* Trees.  What holds of Root and of whatever is in something it holds of  *)
(* holds of every node.                                                    *)
LEMMA TreeInduction ==
  ASSUME NEW t, IsTree(t), NEW S, Root \in S,
         \A n \in DOMAIN t \ {Root} : t[n].in \in S => n \in S
  PROVE  DOMAIN t \subseteq S
<1> SUFFICES ASSUME DOMAIN t \ S # {} PROVE FALSE
  OBVIOUS
<1> DEFINE T == DOMAIN t \ S
<1>1. T \in SUBSET (DOMAIN t \ {Root})
  OBVIOUS
<1>2. PICK n \in T : t[n].in \notin T
  <2> HIDE DEF T
  <2>1. QED  BY <1>1 DEF IsTree, T
<1>3. n \in DOMAIN t \ {Root} /\ t[n].in \in DOMAIN t
  BY <1>1 DEF IsTree
<1>4. QED  BY <1>2, <1>3

LEMMA RootIs ==
  ASSUME NEW t, IsTree(t)
  PROVE  Root \in DOMAIN t /\ t[Root].kind = "dir" /\ t[Root].in \notin DOMAIN t
BY DEF IsTree

LEMMA HeightIs ==
  ASSUME NEW t, IsTree(t) PROVE IsFiniteSet(DOMAIN t) /\ Height(t) \in Nat
BY FS_CardinalityType DEF IsTree, Height

(* The nodes above a node, and the path to it, are what their definitions  *)
(* say.                                                                    *)
LEMMA AboveIs ==
  ASSUME NEW t, IsTree(t)
  PROVE  \A k \in 0 .. Height(t), n \in DOMAIN t :
           Above(t)[k][n] = IF k = 0 \/ n = Root THEN {n} ELSE {n} \cup Above(t)[k - 1][t[n].in]
<1> DEFINE D == DOMAIN t
           H == Height(t)
           W == [D -> SUBSET D]
           w == [n \in D |-> {n}]
           F == [m \in W |-> [n \in D |-> IF n = Root THEN {n} ELSE {n} \cup m[t[n].in]]]
           Body(f) == [k \in 0 .. H |-> [n \in D |->
                         IF k = 0 \/ n = Root THEN {n} ELSE {n} \cup f[k - 1][t[n].in]]]
<1>1. H \in Nat
  BY HeightIs
<1>2. w \in W
  OBVIOUS
<1>3. F \in [W -> W]
  <2>1. ASSUME NEW m \in W, NEW n \in D \ {Root} PROVE m[t[n].in] \in SUBSET D
    BY DEF IsTree
  <2>2. ASSUME NEW m \in W PROVE [n \in D |-> IF n = Root THEN {n} ELSE {n} \cup m[t[n].in]] \in W
    BY <2>1
  <2>3. QED  BY <2>2
<1>4. PICK g \in [0 .. H -> W] : g[0] = w /\ \A n \in 1 .. H : g[n] = F[g[n - 1]]
  <2> HIDE DEF W, w, F, H
  <2>1. Iterated(W, F, w, H)
    BY <1>1, <1>2, <1>3, Iterates
  <2>2. QED  BY <2>1 DEF Iterated
<1>5. g = Body(g)
  <2>1. ASSUME NEW k \in 0 .. H
        PROVE  g[k] = [n \in D |-> IF k = 0 \/ n = Root THEN {n} ELSE {n} \cup g[k - 1][t[n].in]]
    <3>1. CASE k = 0
      BY <1>4, <3>1
    <3>2. CASE k # 0
      <4>1. k \in 1 .. H /\ k - 1 \in 0 .. H
        BY <1>1, <3>2
      <4>2. g[k] = F[g[k - 1]] /\ g[k - 1] \in W
        BY <1>4, <4>1
      <4>3. QED  BY <3>2, <4>2
    <3>3. QED  BY <3>1, <3>2
  <2> HIDE DEF W, w, F, H
  <2>2. QED  BY <2>1
<1>6. Above(t) = Body(Above(t))
  <2> HIDE DEF Body
  <2>1. Above(t) = CHOOSE f : f = Body(f)
    BY DEF Above, Body
  <2>2. QED  BY <1>5, <2>1
<1> HIDE DEF W, w, F, H
<1>7. ASSUME NEW k \in 0 .. H, NEW n \in D
      PROVE  Above(t)[k][n] = IF k = 0 \/ n = Root THEN {n} ELSE {n} \cup Above(t)[k - 1][t[n].in]
  <2>1. Body(Above(t))[k][n] = IF k = 0 \/ n = Root THEN {n} ELSE {n} \cup Above(t)[k - 1][t[n].in]
    OBVIOUS
  <2> HIDE DEF Body
  <2>2. QED  BY <1>6, <2>1
<1>8. QED  BY <1>7 DEF H

Parts(t) == {t[n].name : n \in DOMAIN t \ {Root}}

LEMMA ClimbIs ==
  ASSUME NEW t, IsTree(t)
  PROVE  \A k \in 0 .. Height(t), n \in DOMAIN t :
           Climb(t)[k][n] = IF k = 0 \/ n = Root THEN <<>>
                            ELSE Append(Climb(t)[k - 1][t[n].in], t[n].name)
<1> DEFINE D == DOMAIN t
           H == Height(t)
           W == [D -> Seq(Parts(t))]
           w == [n \in D |-> <<>>]
           F == [m \in W |-> [n \in D |->
                   IF n = Root THEN <<>> ELSE Append(m[t[n].in], t[n].name)]]
           Body(f) == [k \in 0 .. H |-> [n \in D |->
                         IF k = 0 \/ n = Root THEN <<>>
                         ELSE Append(f[k - 1][t[n].in], t[n].name)]]
<1>1. H \in Nat
  BY HeightIs
<1>2. w \in W
  OBVIOUS
<1>3. F \in [W -> W]
  <2>1. ASSUME NEW m \in W, NEW n \in D \ {Root}
        PROVE  Append(m[t[n].in], t[n].name) \in Seq(Parts(t))
    <3>1. t[n].in \in D /\ t[n].name \in Parts(t)
      BY DEF IsTree, Parts
    <3>2. QED  BY <3>1
  <2>2. ASSUME NEW m \in W
        PROVE  [n \in D |-> IF n = Root THEN <<>> ELSE Append(m[t[n].in], t[n].name)] \in W
    BY <2>1
  <2>3. QED  BY <2>2
<1>4. PICK g \in [0 .. H -> W] : g[0] = w /\ \A n \in 1 .. H : g[n] = F[g[n - 1]]
  <2> HIDE DEF W, w, F, H
  <2>1. Iterated(W, F, w, H)
    BY <1>1, <1>2, <1>3, Iterates
  <2>2. QED  BY <2>1 DEF Iterated
<1>5. g = Body(g)
  <2>1. ASSUME NEW k \in 0 .. H
        PROVE  g[k] = [n \in D |-> IF k = 0 \/ n = Root THEN <<>>
                                   ELSE Append(g[k - 1][t[n].in], t[n].name)]
    <3>1. CASE k = 0
      BY <1>4, <3>1
    <3>2. CASE k # 0
      <4>1. k \in 1 .. H /\ k - 1 \in 0 .. H
        BY <1>1, <3>2
      <4>2. g[k] = F[g[k - 1]] /\ g[k - 1] \in W
        BY <1>4, <4>1
      <4>3. QED  BY <3>2, <4>2
    <3>3. QED  BY <3>1, <3>2
  <2> HIDE DEF W, w, F, H
  <2>2. QED  BY <2>1
<1>6. Climb(t) = Body(Climb(t))
  <2> HIDE DEF Body
  <2>1. Climb(t) = CHOOSE f : f = Body(f)
    BY DEF Climb, Body
  <2>2. QED  BY <1>5, <2>1
<1> HIDE DEF W, w, F, H
<1>7. ASSUME NEW k \in 0 .. H, NEW n \in D
      PROVE  Climb(t)[k][n] = IF k = 0 \/ n = Root THEN <<>>
                              ELSE Append(Climb(t)[k - 1][t[n].in], t[n].name)
  <2>1. Body(Climb(t))[k][n] = IF k = 0 \/ n = Root THEN <<>>
                               ELSE Append(Climb(t)[k - 1][t[n].in], t[n].name)
    OBVIOUS
  <2> HIDE DEF Body
  <2>2. QED  BY <1>6, <2>1
<1>8. QED  BY <1>7 DEF H

(* Past Root there is nothing more to climb.                               *)
LEMMA NothingAboveRoot ==
  ASSUME NEW t, IsTree(t)
  PROVE  \A k \in Nat : k + 1 <= Height(t) =>
           \A n \in DOMAIN t : Root \in Above(t)[k][n] =>
             Above(t)[k + 1][n] = Above(t)[k][n] /\ Climb(t)[k + 1][n] = Climb(t)[k][n]
<1> DEFINE H == Height(t)
           Same(k, n) == Above(t)[k + 1][n] = Above(t)[k][n] /\ Climb(t)[k + 1][n] = Climb(t)[k][n]
           S == {k \in Nat : k + 1 <= H =>
                   \A n \in DOMAIN t : Root \in Above(t)[k][n] => Same(k, n)}
<1>1. H \in Nat
  BY HeightIs
<1>2. ASSUME NEW k \in 0 .. H, NEW n \in DOMAIN t
      PROVE  /\ k = 0 \/ n = Root => Above(t)[k][n] = {n} /\ Climb(t)[k][n] = <<>>
             /\ k # 0 /\ n # Root =>
                  /\ Above(t)[k][n] = {n} \cup Above(t)[k - 1][t[n].in]
                  /\ Climb(t)[k][n] = Append(Climb(t)[k - 1][t[n].in], t[n].name)
  <2>1. /\ Above(t)[k][n] = IF k = 0 \/ n = Root THEN {n}
                             ELSE {n} \cup Above(t)[k - 1][t[n].in]
        /\ Climb(t)[k][n] = IF k = 0 \/ n = Root THEN <<>>
                             ELSE Append(Climb(t)[k - 1][t[n].in], t[n].name)
    <3>1. /\ \A j \in 0 .. Height(t), m \in DOMAIN t :
               Above(t)[j][m] = IF j = 0 \/ m = Root THEN {m}
                                ELSE {m} \cup Above(t)[j - 1][t[m].in]
          /\ \A j \in 0 .. Height(t), m \in DOMAIN t :
               Climb(t)[j][m] = IF j = 0 \/ m = Root THEN <<>>
                                ELSE Append(Climb(t)[j - 1][t[m].in], t[m].name)
      BY AboveIs, ClimbIs, Zenon
    <3> HIDE DEF S, Same
    <3>2. QED  BY <3>1
  <2> HIDE DEF S, Same, H
  <2>2. QED  BY <2>1
<1> HIDE DEF H
<1>3. 0 \in S
  <2>1. ASSUME 1 <= H, NEW n \in DOMAIN t, Root \in Above(t)[0][n] PROVE Same(0, n)
    <3>1. 0 \in 0 .. H /\ 1 \in 0 .. H
      BY <1>1, <2>1
    <3>2. n = Root
      BY <1>2, <2>1, <3>1
    <3>3. /\ Above(t)[0][n] = {n} /\ Above(t)[1][n] = {n}
          /\ Climb(t)[0][n] = <<>> /\ Climb(t)[1][n] = <<>> /\ 0 + 1 = 1
      BY <1>2, <3>1, <3>2
    <3>4. QED  BY <3>3
  <2>2. QED  BY <2>1
<1>4. ASSUME NEW k \in Nat, k \in S PROVE k + 1 \in S
  <2>1. ASSUME k + 2 <= H, NEW n \in DOMAIN t, Root \in Above(t)[k + 1][n] PROVE Same(k + 1, n)
    <3> DEFINE up == t[n].in
    <3>1. /\ k \in 0 .. H /\ k + 1 \in 0 .. H /\ k + 2 \in 0 .. H /\ k + 1 <= H
          /\ k + 1 # 0 /\ k + 2 # 0 /\ (k + 1) - 1 = k /\ (k + 2) - 1 = k + 1
          /\ (k + 1) + 1 = k + 2
      BY <1>1, <2>1
    <3>2. CASE n = Root
      BY <1>2, <3>1, <3>2
    <3>3. CASE n # Root
      <4>1. up \in DOMAIN t
        BY <3>3 DEF IsTree
      <4>2. /\ Above(t)[k + 1][n] = {n} \cup Above(t)[k][up]
            /\ Climb(t)[k + 1][n] = Append(Climb(t)[k][up], t[n].name)
        BY <1>2, <3>1, <3>3
      <4>3. /\ Above(t)[k + 2][n] = {n} \cup Above(t)[k + 1][up]
            /\ Climb(t)[k + 2][n] = Append(Climb(t)[k + 1][up], t[n].name)
        BY <1>2, <3>1, <3>3
      <4>4. Same(k, up)
        BY <1>4, <2>1, <3>1, <3>3, <4>1, <4>2
      <4>5. QED  BY <3>1, <4>2, <4>3, <4>4
    <3>4. QED  BY <3>2, <3>3
  <2>2. k + 2 = (k + 1) + 1 /\ k + 1 \in Nat
    OBVIOUS
  <2> HIDE DEF Same
  <2>3. QED  BY <2>1, <2>2
<1>5. Nat \subseteq S
  <2> HIDE DEF S
  <2>1. QED  BY <1>3, <1>4, SetInduction
<1>6. QED  BY <1>5 DEF H

(* Every node is below Root, and no further down than there are nodes.     *)
LEMMA AllBelowRoot ==
  ASSUME NEW t, IsTree(t) PROVE \A n \in DOMAIN t : Root \in Above(t)[Height(t)][n]
<1> DEFINE H == Height(t)
           D == DOMAIN t
           R(k) == {n \in D : Root \in Above(t)[k][n]}
           S == {k \in Nat : k <= H => R(k) = D \/ Cardinality(R(k)) >= k + 1}
<1>1. H \in Nat /\ H = Cardinality(D) /\ IsFiniteSet(D) /\ Root \in D
  BY HeightIs DEF Height, IsTree
<1>2. ASSUME NEW k \in 0 .. H, NEW n \in D
      PROVE  /\ k = 0 \/ n = Root => Above(t)[k][n] = {n}
             /\ k # 0 /\ n # Root => Above(t)[k][n] = {n} \cup Above(t)[k - 1][t[n].in]
  <2>1. Above(t)[k][n] = IF k = 0 \/ n = Root THEN {n}
                         ELSE {n} \cup Above(t)[k - 1][t[n].in]
    <3>1. \A j \in 0 .. Height(t), m \in DOMAIN t :
            Above(t)[j][m] = IF j = 0 \/ m = Root THEN {m}
                             ELSE {m} \cup Above(t)[j - 1][t[m].in]
      BY AboveIs, Zenon
    <3> HIDE DEF S, R
    <3>2. QED  BY <3>1
  <2> HIDE DEF S, R, H
  <2>2. QED  BY <2>1
<1> HIDE DEF H
<1>3. \A k \in 0 .. H : R(k) \subseteq D /\ Root \in R(k) /\ IsFiniteSet(R(k)) /\ Cardinality(R(k)) \in Nat
  <2>1. ASSUME NEW k \in 0 .. H PROVE R(k) \in SUBSET D /\ Root \in R(k)
    BY <1>1, <1>2
  <2> HIDE DEF R
  <2>2. QED  BY <1>1, <2>1, FS_Subset, FS_CardinalityType
<1>4. 0 \in S
  <2>1. 0 \in 0 .. H
    BY <1>1
  <2>2. R(0) # {} /\ IsFiniteSet(R(0)) /\ Cardinality(R(0)) \in Nat
    BY <1>3, <2>1
  <2> HIDE DEF R
  <2>3. Cardinality(R(0)) >= 1
    BY <2>2, FS_EmptySet
  <2>4. QED  BY <2>3
<1>5. ASSUME NEW k \in Nat, k \in S PROVE k + 1 \in S
  <2>1. SUFFICES ASSUME k + 1 <= H PROVE R(k + 1) = D \/ Cardinality(R(k + 1)) >= (k + 1) + 1
    OBVIOUS
  <2>2. k \in 0 .. H /\ k + 1 \in 0 .. H /\ k <= H /\ k + 1 # 0 /\ (k + 1) - 1 = k
    BY <1>1, <2>1
  <2>3. R(k) \subseteq R(k + 1)
    BY <2>1, NothingAboveRoot DEF H
  <2>4. R(k) = D \/ Cardinality(R(k)) >= k + 1
    BY <1>5, <2>2
  <2>5. CASE R(k) = D
    <3> HIDE DEF R
    <3>1. QED  BY <1>3, <2>2, <2>3, <2>5
  <2>6. CASE R(k) # D
    <3>1. PICK n \in D \ R(k) : t[n].in \in R(k)
      <4> DEFINE T == D \ R(k)
      <4>1. T \in SUBSET (D \ {Root}) /\ T # {}
        <5> HIDE DEF R
        <5>1. QED  BY <1>3, <2>2, <2>6
      <4> HIDE DEF T
      <4>2. PICK n \in T : t[n].in \notin T
        BY <4>1 DEF IsTree
      <4>3. t[n].in \in D
        BY <4>1 DEF IsTree
      <4>4. QED  BY <4>2, <4>3 DEF T
    <3>2. n \in R(k + 1)
      <4>1. n # Root /\ Root \in Above(t)[k][t[n].in]
        BY <1>3, <2>2, <3>1
      <4>2. Above(t)[k + 1][n] = {n} \cup Above(t)[k][t[n].in]
        BY <1>2, <2>2, <4>1
      <4>3. QED  BY <4>1, <4>2
    <3> HIDE DEF R
    <3>3. R(k) \cup {n} \subseteq R(k + 1)
      BY <2>3, <3>2
    <3>4. Cardinality(R(k) \cup {n}) = Cardinality(R(k)) + 1
      BY <1>3, <2>2, <3>1, FS_AddElement
    <3>5. Cardinality(R(k) \cup {n}) <= Cardinality(R(k + 1))
      BY <1>3, <2>2, <3>3, FS_Subset
    <3>6. Cardinality(R(k)) >= k + 1 /\ Cardinality(R(k)) \in Nat /\ Cardinality(R(k + 1)) \in Nat
      BY <1>3, <2>2, <2>4, <2>6
    <3>7. QED  BY <3>4, <3>5, <3>6
  <2>7. QED  BY <2>5, <2>6
<1>6. Nat \subseteq S
  <2> HIDE DEF S
  <2>1. QED  BY <1>4, <1>5, SetInduction
<1>7. R(H) = D
  <2>1. R(H) = D \/ Cardinality(R(H)) >= H + 1
    BY <1>1, <1>6
  <2>2. H \in 0 .. H
    BY <1>1
  <2> HIDE DEF R
  <2>3. Cardinality(R(H)) <= H /\ Cardinality(R(H)) \in Nat
    BY <1>1, <1>3, <2>2, FS_Subset
  <2>4. QED  BY <1>1, <2>1, <2>3
<1>8. QED  BY <1>7 DEF H

LEMMA OneUp ==
  ASSUME NEW t, IsTree(t)
  PROVE  /\ Above(t)[Height(t)][Root] = {Root} /\ Climb(t)[Height(t)][Root] = <<>>
         /\ \A n \in DOMAIN t \ {Root} :
              /\ Above(t)[Height(t)][n] = {n} \cup Above(t)[Height(t)][t[n].in]
              /\ Climb(t)[Height(t)][n] = Append(Climb(t)[Height(t)][t[n].in], t[n].name)
<1> DEFINE H == Height(t)
<1>1. H \in Nat /\ Root \in DOMAIN t
  BY HeightIs DEF IsTree
<1>2. ASSUME NEW k \in 0 .. H, NEW n \in DOMAIN t
      PROVE  /\ k = 0 \/ n = Root => Above(t)[k][n] = {n} /\ Climb(t)[k][n] = <<>>
             /\ k # 0 /\ n # Root =>
                  /\ Above(t)[k][n] = {n} \cup Above(t)[k - 1][t[n].in]
                  /\ Climb(t)[k][n] = Append(Climb(t)[k - 1][t[n].in], t[n].name)
  <2>1. /\ \A j \in 0 .. Height(t), m \in DOMAIN t :
             Above(t)[j][m] = IF j = 0 \/ m = Root THEN {m}
                              ELSE {m} \cup Above(t)[j - 1][t[m].in]
        /\ \A j \in 0 .. Height(t), m \in DOMAIN t :
             Climb(t)[j][m] = IF j = 0 \/ m = Root THEN <<>>
                              ELSE Append(Climb(t)[j - 1][t[m].in], t[m].name)
    BY AboveIs, ClimbIs, Zenon
  <2>2. QED  BY <2>1
<1>3. \A n \in DOMAIN t : Root \in Above(t)[H][n]
  BY AllBelowRoot
<1> HIDE DEF H
<1>4. ASSUME NEW n \in DOMAIN t \ {Root}
      PROVE  /\ Above(t)[H][n] = {n} \cup Above(t)[H][t[n].in]
             /\ Climb(t)[H][n] = Append(Climb(t)[H][t[n].in], t[n].name)
  <2> DEFINE up == t[n].in
  <2>1. up \in DOMAIN t /\ H \in 0 .. H
    <3>1. up \in DOMAIN t
      BY DEF IsTree
    <3>2. QED  BY <1>1, <3>1
  <2>2. H # 0
    BY <1>2, <1>3, <2>1
  <2>3. PICK k \in Nat : H = k + 1 /\ H - 1 = k /\ k + 1 <= H
    <3>1. H - 1 \in Nat /\ H = (H - 1) + 1
      BY <1>1, <2>2
    <3>2. QED  BY <3>1
  <2>4. /\ Above(t)[H][n] = {n} \cup Above(t)[k][up]
        /\ Climb(t)[H][n] = Append(Climb(t)[k][up], t[n].name)
    BY <1>2, <2>1, <2>2, <2>3
  <2>5. Root \in Above(t)[k][up]
    BY <1>3, <2>4
  <2>6. Above(t)[k + 1][up] = Above(t)[k][up] /\ Climb(t)[k + 1][up] = Climb(t)[k][up]
    BY <2>1, <2>3, <2>5, NothingAboveRoot DEF H
  <2>7. QED  BY <2>3, <2>4, <2>6
<1>5. Above(t)[H][Root] = {Root} /\ Climb(t)[H][Root] = <<>>
  <2>1. H \in 0 .. H
    BY <1>1
  <2>2. QED  BY <1>1, <1>2, <2>1
<1>6. QED  BY <1>4, <1>5 DEF H

(* Up and Relative, one node at a time.                                    *)
LEMMA UpIs ==
  ASSUME IsTree(tree)
  PROVE  /\ Up(Root) = {Root} /\ Relative(Root) = <<>>
         /\ \A n \in DOMAIN tree \ {Root} :
              /\ Up(n) = {n} \cup Up(tree[n].in)
              /\ Relative(n) = Append(Relative(tree[n].in), tree[n].name)
BY OneUp DEF Up, Relative

(* Only a node itself may be a file of those it is below; and what is      *)
(* below a node, but not the node, is in a child of it.                    *)
LEMMA UpTells ==
  ASSUME IsTree(tree)
  PROVE  \A n \in DOMAIN tree :
           /\ n \in Up(n) /\ Root \in Up(n) /\ Up(n) \subseteq DOMAIN tree
           /\ \A d \in Up(n) \ {n} :
                /\ tree[d].kind # "file"
                /\ \E c \in Up(n) : c # Root /\ tree[c].in = d
<1> DEFINE Right(n) ==
             /\ n \in Up(n) /\ Root \in Up(n) /\ Up(n) \subseteq DOMAIN tree
             /\ \A d \in Up(n) \ {n} :
                  /\ tree[d].kind # "file"
                  /\ \E c \in Up(n) : c # Root /\ tree[c].in = d
           S == {n \in DOMAIN tree : Right(n)}
<1>1. Root \in S
  BY UpIs DEF IsTree
<1>2. ASSUME NEW n \in DOMAIN tree \ {Root}, tree[n].in \in S PROVE n \in S
  <2> DEFINE up == tree[n].in
  <2>1. up \in DOMAIN tree /\ tree[up].kind # "file"
    BY DEF IsTree
  <2>2. Up(n) = {n} \cup Up(up)
    BY UpIs
  <2>3. Right(up)
    BY <1>2
  <2>4. ASSUME NEW d \in Up(n) \ {n}
        PROVE  tree[d].kind # "file" /\ \E c \in Up(n) : c # Root /\ tree[c].in = d
    <3>1. CASE d = up
      BY <2>1, <2>2, <3>1
    <3>2. CASE d # up
      <4>1. d \in Up(up) \ {up}
        BY <2>2, <2>4, <3>2
      <4>2. QED  BY <2>2, <2>3, <4>1
    <3>3. QED  BY <3>1, <3>2
  <2> HIDE DEF up
  <2>5. n \in Up(n) /\ Root \in Up(n) /\ Up(n) \subseteq DOMAIN tree
    BY <2>2, <2>3
  <2>6. QED  BY <2>4, <2>5
<1>3. DOMAIN tree \subseteq S
  <2> HIDE DEF S
  <2>1. QED  BY <1>1, <1>2, TreeInduction
<1>4. QED  BY <1>3

-----------------------------------------------------------------------------
(* Places on this machine.  A path is one of names that normalize keeps,   *)
(* and no other node has it.                                               *)
LEMMA PartsAreKept ==
  ASSUME NEW t, IsTree(t) PROVE \A part \in Parts(t) : part \notin {"", ".", ".."}
BY DEF IsTree, Parts

LEMMA RelativeTyped ==
  ASSUME IsTree(tree) PROVE \A n \in DOMAIN tree : Relative(n) \in Seq(Parts(tree))
<1> DEFINE S == {n \in DOMAIN tree : Relative(n) \in Seq(Parts(tree))}
<1>1. Root \in S
  <2>1. Relative(Root) = <<>> /\ <<>> \in Seq(Parts(tree)) /\ Root \in DOMAIN tree
    BY UpIs, RootIs
  <2>2. QED  BY <2>1
<1>2. ASSUME NEW n \in DOMAIN tree \ {Root}, tree[n].in \in S PROVE n \in S
  <2>1. tree[n].name \in Parts(tree) /\ Relative(tree[n].in) \in Seq(Parts(tree))
    BY <1>2 DEF Parts
  <2>2. Relative(n) = Append(Relative(tree[n].in), tree[n].name)
    BY UpIs
  <2>3. QED  BY <2>1, <2>2
<1>3. DOMAIN tree \subseteq S
  <2> HIDE DEF S
  <2>1. QED  BY <1>1, <1>2, TreeInduction
<1>4. QED  BY <1>3

LEMMA AppendEnds ==
  ASSUME NEW P, NEW r \in Seq(P), NEW x \in P
  PROVE  /\ Append(r, x) # <<>> /\ Append(r, x) = r \o <<x>>
         /\ Last(Append(r, x)) = x /\ Front(Append(r, x)) = r
<1>1. /\ Append(r, x) \in Seq(P) /\ Len(Append(r, x)) = Len(r) + 1 /\ Len(r) \in Nat
      /\ \A i \in 1 .. Len(r) : Append(r, x)[i] = r[i]
      /\ Append(r, x)[Len(r) + 1] = x
  OBVIOUS
<1>2. Append(r, x) # <<>>
  BY <1>1, EmptySeq
<1>3. Last(Append(r, x)) = x
  BY <1>1 DEF Last
<1>4. Append(r, x) = r \o <<x>>
  OBVIOUS
<1>5. Front(Append(r, x)) = r
  <2>1. Front(Append(r, x)) = SubSeq(Append(r, x), 1, Len(r))
    BY <1>1 DEF Front
  <2>2. QED  BY <1>1, <2>1
<1>6. QED  BY <1>2, <1>3, <1>4, <1>5

LEMMA AppendsTell ==
  ASSUME NEW P, NEW r \in Seq(P), NEW x \in P, NEW s \in Seq(P), NEW y \in P,
         Append(r, x) = Append(s, y)
  PROVE  r = s /\ x = y
OBVIOUS

LEMMA RelativeTells ==
  ASSUME IsTree(tree)
  PROVE  \A m, n \in DOMAIN tree : Relative(m) = Relative(n) => m = n
<1> DEFINE S == {m \in DOMAIN tree : \A n \in DOMAIN tree : Relative(m) = Relative(n) => m = n}
<1>1. ASSUME NEW n \in DOMAIN tree \ {Root}
      PROVE  /\ tree[n].in \in DOMAIN tree /\ tree[n].name \in Parts(tree)
             /\ Relative(tree[n].in) \in Seq(Parts(tree))
             /\ Relative(n) = Append(Relative(tree[n].in), tree[n].name)
  <2>1. tree[n].in \in DOMAIN tree /\ tree[n].name \in Parts(tree)
    BY DEF IsTree, Parts
  <2>2. QED  BY <2>1, UpIs, RelativeTyped
<1>2. Root \in S
  <2>1. ASSUME NEW n \in DOMAIN tree \ {Root} PROVE Relative(n) # <<>>
    BY <1>1, AppendEnds
  <2>2. Relative(Root) = <<>> /\ Root \in DOMAIN tree
    BY UpIs DEF IsTree
  <2>3. QED  BY <2>1, <2>2
<1>3. ASSUME NEW m \in DOMAIN tree \ {Root}, tree[m].in \in S PROVE m \in S
  <2>1. ASSUME NEW n \in DOMAIN tree, Relative(m) = Relative(n) PROVE m = n
    <3>1. n # Root
      BY <1>2, <2>1
    <3>2. Relative(tree[m].in) = Relative(tree[n].in) /\ tree[m].name = tree[n].name
      <4> DEFINE P == Parts(tree)
                 r == Relative(tree[m].in)  x == tree[m].name
                 q == Relative(tree[n].in)  y == tree[n].name
      <4>1. r \in Seq(P) /\ x \in P /\ q \in Seq(P) /\ y \in P /\ Append(r, x) = Append(q, y)
        BY <1>1, <2>1, <3>1
      <4> HIDE DEF P, r, x, q, y
      <4>2. r = q /\ x = y
        BY <4>1, AppendsTell
      <4>3. QED  BY <4>2 DEF r, x, q, y
    <3>3. tree[m].in = tree[n].in
      BY <1>1, <1>3, <3>1, <3>2
    <3>4. QED  BY <3>1, <3>2, <3>3 DEF IsTree
  <2>2. QED  BY <2>1
<1>4. DOMAIN tree \subseteq S
  <2> HIDE DEF S
  <2>1. QED  BY <1>2, <1>3, TreeInduction
<1>5. QED  BY <1>4

Regrouped(a, b, c) == (a \o b) \o c = a \o (b \o c)

LEMMA Regroup ==
  ASSUME NEW P, NEW a \in Seq(P), NEW b \in Seq(P), NEW c \in Seq(P) PROVE Regrouped(a, b, c)
BY ConcatAssociative DEF Regrouped

(* A fold that takes each part as it is.                                   *)
Appending(path, base, f) ==
  f = [s \in SUBSET (DOMAIN path) |->
         IF s = {} THEN base ELSE Append(f[s \ {Max(s)}], path[Max(s)])]

LEMMA AppendingIs ==
  ASSUME NEW P, NEW path \in Seq(P), NEW base \in Seq(P)
  PROVE  /\ \E f : Appending(path, base, f)
         /\ \A f : Appending(path, base, f) => f[DOMAIN path] = base \o path
<1> DEFINE n == Len(path)
           T == Seq(P)
           G == [x \in (SUBSET (1 .. n)) \X T |->
                   IF x[1] = {} THEN base ELSE Append(x[2], path[Top(x[1])])]
<1>1. n \in Nat /\ DOMAIN path = 1 .. n
  OBVIOUS
<1>2. ASSUME NEW s \in SUBSET (1 .. n), s # {} PROVE Top(s) \in s /\ path[Top(s)] \in P /\ Max(s) = Top(s)
  <2>1. Top(s) \in s
    BY <1>1, <1>2, TopIs
  <2>2. Max(s) = Top(s)
    BY DEF Max, Top
  <2>3. \A i \in 1 .. n : path[i] \in P
    OBVIOUS
  <2> HIDE DEF G, n
  <2>4. path[Top(s)] \in P
    BY <2>1, <2>3
  <2>5. QED  BY <2>1, <2>2, <2>4
<1>3. G \in [(SUBSET (1 .. n)) \X T -> T]
  BY <1>2
<1>4. \A s \in SUBSET (1 .. n), r \in T : s # {} => G[<<s, r>>] = Append(r, path[Max(s)])
  BY <1>2
<1> HIDE DEF G, n
<1>5. ASSUME NEW f \in [SUBSET (1 .. n) -> T], Folds(f, n, base, G) PROVE Appending(path, base, f)
  <2>1. ASSUME NEW s \in SUBSET (1 .. n), s # {} PROVE f[s] = Append(f[s \ {Max(s)}], path[Max(s)])
    <3>1. f[s] = G[<<s, f[s \ {Max(s)}]>>]
      BY <1>2, <1>5, <2>1 DEF Folds
    <3>2. QED  BY <1>4, <2>1, <3>1
  <2>2. f[{}] = base
    BY <1>5 DEF Folds
  <2>3. f = [s \in SUBSET (1 .. n) |->
               IF s = {} THEN base ELSE Append(f[s \ {Max(s)}], path[Max(s)])]
    BY <2>1, <2>2
  <2>4. QED  BY <1>1, <2>3 DEF Appending
<1>6. \E f : Appending(path, base, f)
  <2>1. PICK f \in [SUBSET (1 .. n) -> T] : Folds(f, n, base, G)
    BY <1>1, <1>3, FoldIsThere
  <2>2. QED  BY <1>5, <2>1
<1>7. ASSUME NEW f, Appending(path, base, f) PROVE f[DOMAIN path] = base \o path
  <2>1. /\ f[{}] = base
        /\ \A s \in SUBSET (1 .. n) : s # {} => f[s] = Append(f[s \ {Max(s)}], path[Max(s)])
    BY <1>1, <1>7 DEF Appending
  <2> DEFINE S == {k \in Nat : k <= n => f[1 .. k] = base \o SubSeq(path, 1, k)}
  <2>2. 0 \in S
    <3>1. 1 .. 0 = {} /\ SubSeq(path, 1, 0) = <<>> /\ base \o <<>> = base
      BY ConcatEmptySeq, SubSeqEmpty
    <3>2. QED  BY <2>1, <3>1
  <2>3. ASSUME NEW k \in Nat, k \in S PROVE k + 1 \in S
    <3>1. SUFFICES ASSUME k + 1 <= n PROVE f[1 .. (k + 1)] = base \o SubSeq(path, 1, k + 1)
      OBVIOUS
    <3> DEFINE s == 1 .. (k + 1)
    <3>2. s \in SUBSET (1 .. n) /\ s # {} /\ s \ {k + 1} = 1 .. k /\ k + 1 \in 1 .. (k + 1)
      <4>1. k + 1 \in s /\ \A i \in s : i \in 1 .. n
        BY <1>1, <3>1
      <4>2. s \ {k + 1} = 1 .. k
        OBVIOUS
      <4>3. QED  BY <4>1, <4>2
    <3>3. Max(s) = k + 1
      <4>1. Max(s) = Top(s)
        BY <1>2, <3>2
      <4>2. QED  BY <4>1, TopOfRange
    <3>4. f[s] = Append(f[1 .. k], path[k + 1])
      <4> HIDE DEF s
      <4>1. QED  BY <2>1, <3>2, <3>3
    <3>5. f[1 .. k] = base \o SubSeq(path, 1, k)
      BY <1>1, <2>3, <3>1
    <3>6. SubSeq(path, 1, k) \in Seq(P) /\ path[k + 1] \in P
          /\ SubSeq(path, 1, k + 1) = SubSeq(path, 1, k) \o <<path[k + 1]>>
      <4>1. 1 \in 1 .. Len(path) /\ k + 1 \in 1 .. Len(path) /\ (k + 1) - 1 = k
        BY <1>1, <3>1 DEF n
      <4>2. SubSeq(path, 1, k + 1) = SubSeq(path, 1, (k + 1) - 1) \o <<path[k + 1]>>
        BY <4>1, SubSeqRecursiveSecond
      <4>3. \A i \in 1 .. k : path[i] \in P
        BY <4>1
      <4>4. SubSeq(path, 1, k) \in Seq(P)
        BY <4>3, SubSeqProperties
      <4>5. QED  BY <4>1, <4>2, <4>4
    <3>7. base \o SubSeq(path, 1, k) \in Seq(P)
      BY <3>6
    <3>8. Append(base \o SubSeq(path, 1, k), path[k + 1])
          = (base \o SubSeq(path, 1, k)) \o <<path[k + 1]>>
      BY <3>6, <3>7
    <3>9. (base \o SubSeq(path, 1, k)) \o <<path[k + 1]>>
          = base \o (SubSeq(path, 1, k) \o <<path[k + 1]>>)
      <4> DEFINE q == SubSeq(path, 1, k)
                 e == <<path[k + 1]>>
      <4>1. q \in Seq(P) /\ e \in Seq(P) /\ base \in Seq(P)
        BY <3>6
      <4> HIDE DEF q, e
      <4>2. Regrouped(base, q, e)
        BY <4>1, Regroup
      <4>3. QED  BY <4>2 DEF Regrouped, q, e
    <3>10. QED  BY <3>4, <3>5, <3>6, <3>8, <3>9
  <2>4. Nat \subseteq S
    <3> HIDE DEF S
    <3>1. QED  BY <2>2, <2>3, SetInduction
  <2>5. f[1 .. n] = base \o SubSeq(path, 1, n)
    BY <1>1, <2>4
  <2>6. QED  BY <1>1, <2>5, SubSeqFull DEF n
<1>8. QED  BY <1>6, <1>7

(* Normalize leaves a path alone that has none of the parts it drops, and  *)
(* the folders of a file are made below the one it is downloaded into.     *)
LEMMA TopOfSome ==
  ASSUME NEW P, NEW path \in Seq(P), NEW s \in SUBSET (DOMAIN path), s # {}
  PROVE  path[Max(s)] \in P
<1>1. Len(path) \in Nat /\ DOMAIN path = 1 .. Len(path) /\ \A i \in DOMAIN path : path[i] \in P
  OBVIOUS
<1>2. Top(s) \in s
  BY <1>1, TopIs
<1>3. Max(s) = Top(s)
  BY DEF Max, Top
<1>4. QED  BY <1>1, <1>2, <1>3

LEMMA NormalizeKeeps ==
  ASSUME NEW P, NEW path \in Seq(P), \A part \in P : part \notin {"", ".", ".."}
  PROVE  Normalize(path) = path
<1> DEFINE Body(f) ==
             [s \in SUBSET (DOMAIN path) |->
                IF s = {} THEN <<>>
                ELSE CASE path[Max(s)] \in {"", "."} -> f[s \ {Max(s)}]
                       [] path[Max(s)] = ".." ->
                            IF f[s \ {Max(s)}] = <<>> THEN <<>> ELSE Front(f[s \ {Max(s)}])
                       [] OTHER -> Append(f[s \ {Max(s)}], path[Max(s)])]
           Is(f) == Appending(path, <<>>, f)
<1>1. Normalize(path) = (CHOOSE f : f = Body(f))[DOMAIN path]
  BY DEF Normalize, FoldLeft, MapThenFoldSet
<1>2. ASSUME NEW f PROVE Body(f) = [s \in SUBSET (DOMAIN path) |->
                    IF s = {} THEN <<>> ELSE Append(f[s \ {Max(s)}], path[Max(s)])]
  <2>1. ASSUME NEW s \in SUBSET (DOMAIN path), s # {} PROVE path[Max(s)] \notin {"", ".", ".."}
    BY <2>1, TopOfSome
  <2>2. QED  BY <2>1
<1>3. \A f : f = Body(f) <=> Is(f)
  <2>1. ASSUME NEW f PROVE f = Body(f) <=> Is(f)
    <3> HIDE DEF Body
    <3>1. QED  BY <1>2 DEF Appending
  <2> HIDE DEF Body, Is
  <2>2. QED  BY <2>1
<1>4. /\ \E f : Is(f)
      /\ \A f : Is(f) => f[DOMAIN path] = <<>> \o path
  BY AppendingIs, EmptySeq
<1> HIDE DEF Body, Is
<1>5. Is(CHOOSE f : f = Body(f))
  BY <1>3, <1>4
<1>6. <<>> \o path = path
  BY ConcatEmptySeq
<1>7. QED  BY <1>1, <1>4, <1>5, <1>6

LEMMA FoldersBelow ==
  ASSUME NEW P, NEW dir \in Seq(P), NEW parts \in Seq(P), \A part \in P : part # ""
  PROVE  FoldLeft(LAMBDA folder, part : IF part = "" THEN folder ELSE Append(folder, part),
                  dir, parts) = dir \o parts
<1> DEFINE Body(f) ==
             [s \in SUBSET (DOMAIN parts) |->
                IF s = {} THEN dir
                ELSE IF parts[Max(s)] = "" THEN f[s \ {Max(s)}]
                     ELSE Append(f[s \ {Max(s)}], parts[Max(s)])]
           Is(f) == Appending(parts, dir, f)
           folded == FoldLeft(LAMBDA folder, part :
                       IF part = "" THEN folder ELSE Append(folder, part), dir, parts)
<1>1. folded = (CHOOSE f : f = Body(f))[DOMAIN parts]
  BY DEF FoldLeft, MapThenFoldSet
<1>2. ASSUME NEW f PROVE Body(f) = [s \in SUBSET (DOMAIN parts) |->
                    IF s = {} THEN dir ELSE Append(f[s \ {Max(s)}], parts[Max(s)])]
  <2>1. ASSUME NEW s \in SUBSET (DOMAIN parts), s # {} PROVE parts[Max(s)] # ""
    BY <2>1, TopOfSome
  <2>2. QED  BY <2>1
<1>3. \A f : f = Body(f) <=> Is(f)
  <2>1. ASSUME NEW f PROVE f = Body(f) <=> Is(f)
    <3> HIDE DEF Body
    <3>1. QED  BY <1>2 DEF Appending
  <2> HIDE DEF Body, Is
  <2>2. QED  BY <2>1
<1>4. /\ \E f : Is(f)
      /\ \A f : Is(f) => f[DOMAIN parts] = dir \o parts
  BY AppendingIs
<1> HIDE DEF Body, Is, folded
<1>5. Is(CHOOSE f : f = Body(f))
  BY <1>3, <1>4
<1>6. folded = dir \o parts
  BY <1>1, <1>4, <1>5
<1>7. QED  BY <1>6 DEF folded

LEMMA TargetIs ==
  ASSUME IsTree(tree), NEW n \in DOMAIN tree \ {Root}
  PROVE  Target(n) = Append(<<"home">> \o Relative(tree[n].in), tree[n].name)
<1> DEFINE P == Parts(tree) \cup {"srv", "home"}
           r == Relative(tree[n].in)
           x == tree[n].name
<1>1. /\ r \in Seq(P) /\ x \in P /\ Relative(n) = Append(r, x)
      /\ <<"srv">> \in Seq(P) /\ <<"home">> \in Seq(P)
  <2>1. tree[n].in \in DOMAIN tree /\ x \in Parts(tree)
    BY DEF IsTree, Parts
  <2>2. r \in Seq(Parts(tree))
    BY <2>1, RelativeTyped
  <2>3. r \in Seq(P)
    BY <2>2, SeqMonotonic
  <2>4. Relative(n) = Append(r, x)
    BY UpIs
  <2>5. QED  BY <2>1, <2>3, <2>4
<1>2. \A part \in P : part \notin {"", ".", ".."}
  BY PartsAreKept
<1> HIDE DEF P, r, x
<1>3. Served(n) = Append(<<"srv">> \o r, x) /\ Served(n) \in Seq(P) /\ <<"srv">> \o r \in Seq(P)
  <2> DEFINE h == <<"srv">>
  <2>1. h \in Seq(P) /\ r \in Seq(P) /\ <<x>> \in Seq(P) /\ h \o r \in Seq(P)
    BY <1>1
  <2>2. Append(r, x) = r \o <<x>>
    BY <1>1, AppendEnds
  <2> HIDE DEF h
  <2>3. Append(h \o r, x) = (h \o r) \o <<x>>
    BY <1>1, <2>1, AppendEnds
  <2>4. Regrouped(h, r, <<x>>)
    BY <2>1, Regroup
  <2>5. h \o Append(r, x) = Append(h \o r, x)
    BY <2>2, <2>3, <2>4 DEF Regrouped
  <2>6. Append(h \o r, x) \in Seq(P)
    BY <1>1, <2>1
  <2>7. Served(n) = h \o Append(r, x)
    BY <1>1 DEF Served, h
  <2>8. QED  BY <2>1, <2>5, <2>6, <2>7 DEF h
<1>4. Last(Normalize(Served(n))) = x
  <2>1. Normalize(Served(n)) = Served(n)
    BY <1>2, <1>3, NormalizeKeeps
  <2> DEFINE a == <<"srv">> \o r
  <2>2. a \in Seq(P) /\ Normalize(Served(n)) = Append(a, x)
    BY <1>3, <2>1
  <2> HIDE DEF a
  <2>3. Last(Append(a, x)) = x
    BY <1>1, <2>2, AppendEnds
  <2>4. QED  BY <2>2, <2>3
<1>5. Front(Relative(n)) = r
  BY <1>1, AppendEnds
<1>6. FoldLeft(LAMBDA folder, part : IF part = "" THEN folder ELSE Append(folder, part),
               <<"home">>, r) = <<"home">> \o r
  BY <1>1, <1>2, FoldersBelow
<1>7. Target(n) = Append(<<"home">> \o r, x)
  BY <1>4, <1>5, <1>6 DEF Target, LocalTarget
<1>8. QED  BY <1>7 DEF r, x

(* No two files go to one place.                                           *)
LEMMA TargetsTell ==
  ASSUME IsTree(tree), NEW f \in DOMAIN tree \ {Root}, NEW g \in DOMAIN tree \ {Root},
         Target(f) = Target(g)
  PROVE  f = g
<1> DEFINE P == Parts(tree) \cup {"home"}
           h == <<"home">>
           r == Relative(tree[f].in)  x == tree[f].name
           q == Relative(tree[g].in)  y == tree[g].name
<1>1. tree[f].in \in DOMAIN tree /\ tree[g].in \in DOMAIN tree /\ x \in P /\ y \in P
  BY DEF IsTree, Parts
<1>2. r \in Seq(P) /\ q \in Seq(P) /\ h \in Seq(P)
  <2>1. r \in Seq(Parts(tree)) /\ q \in Seq(Parts(tree))
    BY <1>1, RelativeTyped
  <2>2. r \in Seq(P) /\ q \in Seq(P)
    BY <2>1, SeqMonotonic
  <2>3. QED  BY <2>2
<1>3. Append(h \o r, x) = Append(h \o q, y)
  BY TargetIs
<1> HIDE DEF P, h, r, x, q, y
<1>4. h \o r \in Seq(P) /\ h \o q \in Seq(P)
  BY <1>2
<1>5. h \o r = h \o q /\ x = y
  <2> DEFINE a == h \o r
             b == h \o q
  <2>1. a \in Seq(P) /\ b \in Seq(P) /\ Append(a, x) = Append(b, y)
    BY <1>3, <1>4
  <2> HIDE DEF a, b
  <2>2. a = b /\ x = y
    BY <1>1, <2>1, AppendsTell
  <2>3. QED  BY <2>2 DEF a, b
<1>6. r = q
  BY <1>2, <1>5, ConcatSimplifications
<1>7. tree[f].in = tree[g].in
  BY <1>1, <1>6, RelativeTells DEF r, q
<1>8. QED  BY <1>5, <1>7 DEF IsTree, x, y

-----------------------------------------------------------------------------
(* The walk.  A folder with everything above it.                           *)
Folders(d) == \A a \in Up(d) : tree[a].kind = "dir"

(* The folders on the stack.                                               *)
Stacked(stack) == {stack[i].dir : i \in DOMAIN stack}

(* A file nothing accounts for yet is below one of them.                   *)
Waits(n) == Stacked(queue) \cap Up(n) # {}

Entries == [dir : DOMAIN tree, depth : Nat]

WalkTyped ==
  /\ tree \in Trees /\ files \subseteq DOMAIN tree /\ queue \in Seq(Entries)
  /\ truncated \in BOOLEAN /\ walking \in BOOLEAN

(* What was taken is reached through folders, and so is what is on the     *)
(* stack; a file is accounted for, or still to be reached; and only a walk *)
(* that says it stopped leaves folders unread.                             *)
WalkInv ==
  /\ WalkTyped
  /\ \A d \in Stacked(queue) : Folders(d)
  /\ \A f \in files : tree[f].kind = "file" /\ \A d \in Up(f) \ {f} : tree[d].kind = "dir"
  /\ ~Overflows => \A n \in DOMAIN tree : tree[n].kind = "file" => ToldOf(n) \/ Waits(n)
  /\ walking \/ truncated \/ queue = <<>>

(* A stack of which the last is popped and onto which others go.           *)
LEMMA Stacks ==
  ASSUME NEW E, NEW q \in Seq(E), q # <<>>, NEW more \in Seq(E)
  PROVE  /\ Front(q) \in Seq(E) /\ Last(q) \in E
         /\ Stacked(q) = Stacked(Front(q)) \cup {Last(q).dir}
         /\ Front(q) \o more \in Seq(E)
         /\ Stacked(Front(q) \o more) = Stacked(Front(q)) \cup Stacked(more)
<1> DEFINE n == Len(q)
           p == Front(q)
<1>1. n \in Nat \ {0} /\ n - 1 \in Nat /\ DOMAIN q = 1 .. n /\ n \in 1 .. n
  BY EmptySeq
<1>2. p \in Seq(E) /\ Len(p) = n - 1 /\ \A i \in 1 .. n - 1 : p[i] = q[i]
  <2>1. p = SubSeq(q, 1, n - 1)
    BY DEF Front
  <2>2. \A i \in 1 .. n - 1 : q[i] \in E
    BY <1>1
  <2> HIDE DEF n, p
  <2>3. /\ p \in Seq(E) /\ Len(p) = (IF 1 <= n - 1 THEN (n - 1) - 1 + 1 ELSE 0)
        /\ \A i \in 1 .. (n - 1) - 1 + 1 : p[i] = q[1 + i - 1]
    BY <1>1, <2>1, <2>2, SubSeqProperties
  <2>4. QED  BY <1>1, <2>3
<1>3. Last(q) = q[n] /\ Last(q) \in E
  BY <1>1 DEF Last
<1> HIDE DEF n, p
<1>4. DOMAIN p = 1 .. n - 1
  BY <1>2
<1>5. Stacked(q) = Stacked(p) \cup {Last(q).dir}
  <2>1. \A i \in 1 .. n : i \in 1 .. n - 1 \/ i = n
    BY <1>1
  <2>2. \A i \in 1 .. n - 1 : i \in 1 .. n
    BY <1>1
  <2>3. QED  BY <1>1, <1>2, <1>3, <1>4, <2>1, <2>2 DEF Stacked
<1>6. /\ p \o more \in Seq(E) /\ Len(p \o more) = Len(p) + Len(more)
      /\ \A i \in 1 .. Len(p) + Len(more) :
           (p \o more)[i] = IF i <= Len(p) THEN p[i] ELSE more[i - Len(p)]
  BY <1>2, ConcatProperties
<1>7. Stacked(p \o more) = Stacked(p) \cup Stacked(more)
  <2> DEFINE r == p \o more
             k == Len(p)
             m == Len(more)
  <2>1. /\ k \in Nat /\ m \in Nat /\ DOMAIN p = 1 .. k /\ DOMAIN more = 1 .. m
        /\ DOMAIN r = 1 .. k + m
        /\ \A i \in 1 .. k + m : r[i] = IF i <= k THEN p[i] ELSE more[i - k]
    BY <1>2, <1>6
  <2> HIDE DEF r, k, m
  <2>2. ASSUME NEW i \in 1 .. k + m PROVE r[i].dir \in Stacked(p) \cup Stacked(more)
    <3>1. CASE i <= k
      <4>1. i \in DOMAIN p /\ r[i] = p[i]
        BY <2>1, <3>1
      <4>2. QED  BY <4>1 DEF Stacked
    <3>2. CASE ~(i <= k)
      <4>1. i - k \in DOMAIN more /\ r[i] = more[i - k]
        BY <2>1, <3>2
      <4>2. QED  BY <4>1 DEF Stacked
    <3>3. QED  BY <3>1, <3>2
  <2>3. ASSUME NEW i \in 1 .. k PROVE p[i].dir \in Stacked(r)
    <3>1. i \in DOMAIN r /\ r[i] = p[i]
      BY <2>1
    <3>2. QED  BY <3>1 DEF Stacked
  <2>4. ASSUME NEW i \in 1 .. m PROVE more[i].dir \in Stacked(r)
    <3>1. k + i \in DOMAIN r /\ (k + i) - k = i /\ ~(k + i <= k)
      BY <2>1
    <3>2. r[k + i] = more[i]
      BY <2>1, <3>1
    <3>3. QED  BY <3>1, <3>2 DEF Stacked
  <2>5. Stacked(r) \subseteq Stacked(p) \cup Stacked(more)
    BY <2>1, <2>2 DEF Stacked
  <2>6. Stacked(p) \subseteq Stacked(r) /\ Stacked(more) \subseteq Stacked(r)
    BY <2>1, <2>3, <2>4 DEF Stacked
  <2>7. QED  BY <2>5, <2>6 DEF r
<1>8. QED  BY <1>2, <1>3, <1>5, <1>6, <1>7 DEF p

(* Every member of a finite set is in the sequence made of it.             *)
LEMMA AllInSequence ==
  ASSUME NEW S, IsFiniteSet(S)
  PROVE  /\ SetToSeq(S) \in Seq(S)
         /\ \A x \in S : \E i \in DOMAIN SetToSeq(S) : SetToSeq(S)[i] = x
<1> DEFINE n == Cardinality(S)
           f == SetToSeq(S)
<1>1. n \in Nat /\ ExistsBijection(1 .. n, S)
  BY FS_CardinalityType
<1>2. PICK b \in [1 .. n -> S] : IsInjective(b)
  BY <1>1 DEF ExistsBijection, Bijection, Injection, IsInjective
<1>3. f \in [1 .. n -> S] /\ IsInjective(f)
  BY <1>2 DEF SetToSeq
<1>4. f \in Surjection(1 .. n, S)
  <2>1. IsFiniteSet(1 .. n) /\ Cardinality(1 .. n) = n
    <3> HIDE DEF n
    <3>1. QED  BY <1>1, FS_Interval
  <2>2. f \in Injection(1 .. n, S)
    BY <1>3 DEF Injection
  <2> HIDE DEF n, f
  <2>3. Cardinality(1 .. n) = Cardinality(S)
    BY <2>1 DEF n
  <2>4. QED  BY <2>2, <2>3, FS_Injection
<1> HIDE DEF n, f
<1>5. f \in Seq(S) /\ DOMAIN f = 1 .. n
  BY <1>1, <1>3
<1>6. \A x \in S : \E i \in 1 .. n : f[i] = x
  BY <1>4 DEF Surjection
<1>7. QED  BY <1>5, <1>6 DEF f

LEMMA InitWalk == ASSUME TreeAssumption, Init PROVE WalkInv
<1>1. IsTree(tree) /\ tree \in Trees
  BY DEF TreeAssumption, Init
<1>2. Root \in DOMAIN tree /\ Up(Root) = {Root} /\ tree[Root].kind = "dir"
  BY <1>1, RootIs, UpIs
<1>3. queue \in Seq(Entries) /\ Stacked(queue) = {Root}
  <2>1. [dir |-> Root, depth |-> 0] \in Entries
    BY <1>2 DEF Entries
  <2>2. QED  BY <2>1 DEF Init, Stacked
<1>4. WalkTyped
  BY <1>1, <1>3 DEF Init, WalkTyped
<1>5. \A d \in Stacked(queue) : Folders(d)
  BY <1>2, <1>3 DEF Folders
<1>6. \A n \in DOMAIN tree : Waits(n)
  BY <1>1, <1>3, UpTells DEF Waits
<1>7. QED  BY <1>4, <1>5, <1>6 DEF WalkInv, Init

(* A folder that is not read is named.                                     *)
LEMMA SkipKeepsWalk ==
  ASSUME TreeAssumption, WalkInv, queue # <<>>, walking, queue' = Front(queue),
         skipped' = skipped \cup {Last(queue).dir},
         UNCHANGED <<tree, blocked, files, truncated, walking>>
  PROVE  WalkInv'
<1> DEFINE d == Last(queue).dir
<1>1. /\ queue' \in Seq(Entries)
      /\ Stacked(queue) = Stacked(Front(queue)) \cup {d}
  BY Stacks, EmptySeq DEF WalkInv, WalkTyped
<1>2. Stacked(queue)' = Stacked(Front(queue)) /\ Entries' = Entries
  BY DEF Stacked, Entries
<1>3. \A n : Up(n)' = Up(n)
  BY DEF Up
<1>4. Overflows' <=> Overflows
  BY DEF Overflows, In
<1>5. \A e : Folders(e)' <=> Folders(e)
  BY <1>3 DEF Folders
<1>6. ASSUME NEW n \in DOMAIN tree, ToldOf(n) \/ Waits(n) PROVE ToldOf(n)' \/ Waits(n)'
  BY <1>1, <1>2, <1>3, <1>6 DEF ToldOf, Waits
<1> HIDE DEF d
<1>7. WalkTyped'
  BY <1>1, <1>2 DEF WalkInv, WalkTyped
<1>8. \A f \in files' : tree'[f].kind = "file" /\ \A e \in Up(f)' \ {f} : tree'[e].kind = "dir"
  BY <1>3 DEF WalkInv
<1>9. \A e \in Stacked(queue)' : Folders(e)'
  BY <1>1, <1>2, <1>5 DEF WalkInv
<1>10. Overflows' \/ \A n \in DOMAIN tree' : tree'[n].kind = "file" => ToldOf(n)' \/ Waits(n)'
  BY <1>4, <1>6 DEF WalkInv
<1>11. QED  BY <1>7, <1>8, <1>9, <1>10 DEF WalkInv

(* A folder that is read: each of its entries is taken, goes on the stack  *)
(* or is named, unless the walk says it stopped.                           *)
LEMMA ListKeepsWalk == ASSUME TreeAssumption, WalkInv, ListOne PROVE WalkInv'
<1> DEFINE top == Last(queue)
           d == top.dir
           Read(entries, taken) ==
             LET full == taken # Of(entries, "file")
                 dirs == SetToSeq(Of(entries, "dir"))
                 others == Of(entries, "link") \cup Of(entries, "other")
             IN  /\ files' = files \cup taken
                 /\ truncated' = (truncated \/ full)
                 /\ walking' = ~full
                 /\ skipped' \in IF full THEN {skipped \cup o : o \in SUBSET others}
                                 ELSE {skipped \cup others}
                 /\ queue' = Front(queue) \o [i \in DOMAIN dirs |->
                               [dir |-> dirs[i], depth |-> top.depth + 1]]
<1>0. PICK entries \in Listings(d) : \E taken \in Taken(entries) : Read(entries, taken)
  BY DEF ListOne
<1>1. PICK taken \in Taken(entries) : Read(entries, taken)
  BY <1>0
<1> DEFINE full == taken # Of(entries, "file")
           dirs == SetToSeq(Of(entries, "dir"))
           others == Of(entries, "link") \cup Of(entries, "other")
           more == [i \in DOMAIN dirs |-> [dir |-> dirs[i], depth |-> top.depth + 1]]
<1>2. /\ files' = files \cup taken /\ truncated' = (truncated \/ full) /\ walking' = ~full
      /\ ~full => skipped' = skipped \cup others
      /\ skipped \subseteq skipped'
      /\ queue' = Front(queue) \o more
  <2> HIDE DEF dirs, others, full
  <2>1. /\ files' = files \cup taken /\ truncated' = (truncated \/ full) /\ walking' = ~full
        /\ skipped' \in IF full THEN {skipped \cup o : o \in SUBSET others}
                        ELSE {skipped \cup others}
        /\ queue' = Front(queue) \o more
    BY <1>1 DEF dirs, others, full
  <2>2. QED  BY <2>1
<1>3. tree' = tree /\ queue # <<>> /\ queue \in Seq(Entries) /\ IsTree(tree)
  BY DEF ListOne, WalkInv, WalkTyped, TreeAssumption
<1>4. entries \subseteq In(d) /\ (~Overflows => entries = In(d)) /\ In(d) \subseteq DOMAIN tree
  <2>1. In(d) \subseteq DOMAIN tree
    BY DEF In
  <2>2. entries = In(d) \/ entries \in kSubset(MaxEntries, In(d))
    BY DEF Listings
  <2>3. entries \subseteq In(d)
    BY <2>2 DEF kSubset
  <2>4. d \in DOMAIN tree
    <3>1. top \in Entries
      BY <1>3, Stacks, EmptySeq
    <3> HIDE DEF top
    <3>2. QED  BY <3>1 DEF Entries
  <2>5. ~Overflows => entries = In(d)
    <3>1. Cardinality(In(d)) \in Nat /\ MaxEntries \in Nat
      BY <1>3, <2>1, FS_Subset, FS_CardinalityType DEF IsTree, TreeAssumption
    <3>2. ~Overflows => Cardinality(In(d)) <= MaxEntries
      BY <2>4, <3>1 DEF Overflows
    <3>3. QED  BY <3>2 DEF Listings
  <2>6. QED  BY <2>1, <2>3, <2>5
<1>5. taken \subseteq Of(entries, "file")
  BY DEF Taken, kSubset
<1>6. /\ more \in Seq(Entries) /\ Stacked(more) = Of(entries, "dir")
      /\ d \in DOMAIN tree
  <2> DEFINE S == Of(entries, "dir")
  <2>1. S \subseteq DOMAIN tree /\ IsFiniteSet(S)
    BY <1>3, <1>4, FS_Subset DEF Of, IsTree
  <2> HIDE DEF S
  <2>2. dirs \in Seq(S) /\ \A x \in S : \E i \in DOMAIN dirs : dirs[i] = x
    BY <2>1, AllInSequence DEF S
  <2>3. top \in Entries
    BY <1>3, Stacks, EmptySeq
  <2> HIDE DEF dirs, top
  <2>4. top.depth + 1 \in Nat /\ top.dir \in DOMAIN tree
    BY <2>3 DEF Entries
  <2>5. Len(dirs) \in Nat /\ DOMAIN dirs = 1 .. Len(dirs) /\ \A i \in DOMAIN dirs : dirs[i] \in S
    BY <2>2
  <2>6. \A i \in DOMAIN dirs : more[i] \in Entries /\ more[i].dir = dirs[i]
    BY <2>1, <2>4, <2>5 DEF Entries
  <2>7. more \in Seq(Entries)
    BY <2>5, <2>6
  <2>8. Stacked(more) = S
    BY <2>2, <2>5, <2>6 DEF Stacked
  <2>9. QED  BY <2>4, <2>7, <2>8 DEF S
<1> HIDE DEF more, full, others, dirs
<1>7. /\ queue' \in Seq(Entries) /\ Stacked(queue) = Stacked(Front(queue)) \cup {d}
      /\ Stacked(queue') = Stacked(Front(queue)) \cup Of(entries, "dir")
  <2> DEFINE p == Front(queue)
  <2>1. /\ Stacked(queue) = Stacked(Front(queue)) \cup {Last(queue).dir}
        /\ Front(queue) \o more \in Seq(Entries)
        /\ Stacked(Front(queue) \o more) = Stacked(Front(queue)) \cup Stacked(more)
    BY <1>3, <1>6, Stacks
  <2>2. QED  BY <1>2, <1>6, <2>1
<1>8. /\ Stacked(queue)' = Stacked(queue') /\ Entries' = Entries
      /\ \A n : Up(n)' = Up(n)
      /\ Overflows' <=> Overflows
  BY <1>3 DEF Stacked, Entries, Up, Overflows, In
<1>9. \A e : Folders(e)' <=> Folders(e)
  BY <1>3, <1>8 DEF Folders
<1>10. Folders(d)
  BY <1>7 DEF WalkInv
<1> HIDE DEF d, top
<1>11. ASSUME NEW n \in entries
       PROVE  /\ n \in DOMAIN tree /\ n # Root /\ Up(n) = {n} \cup Up(d)
              /\ tree[n].kind \in {"dir", "file", "link", "other"}
  <2>1. n \in DOMAIN tree /\ tree[n].in = d
    BY <1>4 DEF In
  <2>2. n # Root
    BY <1>3, <1>6, <2>1, RootIs
  <2>3. tree[n].kind \in {"dir", "file", "link", "other"}
    BY <1>3, <2>1, <2>2 DEF IsTree
  <2>4. QED  BY <1>3, <2>1, <2>2, <2>3, UpIs
<1>12. WalkTyped'
  <2>1. taken \subseteq DOMAIN tree
    BY <1>4, <1>5 DEF Of
  <2>2. files \subseteq DOMAIN tree /\ tree \in Trees /\ truncated \in BOOLEAN
    BY DEF WalkInv, WalkTyped
  <2>3. full \in BOOLEAN
    BY DEF full
  <2>4. QED  BY <1>2, <1>3, <1>7, <1>8, <2>1, <2>2, <2>3 DEF WalkTyped
<1>13. \A e \in Stacked(queue)' : Folders(e)'
  <2>1. \A e \in Of(entries, "dir") : Folders(e)
    BY <1>10, <1>11 DEF Of, Folders
  <2>2. \A e \in Stacked(Front(queue)) : Folders(e)
    BY <1>7 DEF WalkInv
  <2>3. QED  BY <1>7, <1>8, <1>9, <2>1, <2>2
<1>14. \A f \in files' : tree'[f].kind = "file" /\ \A e \in Up(f)' \ {f} : tree'[e].kind = "dir"
  <2>1. \A f \in taken : tree[f].kind = "file" /\ \A e \in Up(f) \ {f} : tree[e].kind = "dir"
    BY <1>5, <1>10, <1>11 DEF Of, Folders
  <2>2. \A f \in files : tree[f].kind = "file" /\ \A e \in Up(f) \ {f} : tree[e].kind = "dir"
    BY DEF WalkInv
  <2>3. QED  BY <1>2, <1>3, <1>8, <2>1, <2>2
<1>15. ASSUME ~Overflows, NEW n \in DOMAIN tree, tree[n].kind = "file", ~truncated'
       PROVE  ToldOf(n)' \/ Waits(n)'
  <2>1. ~full /\ skipped' = skipped \cup others /\ taken = Of(entries, "file")
    BY <1>2, <1>15 DEF full
  <2>2. ToldOf(n) \/ Waits(n)
    BY <1>15 DEF WalkInv
  <2>3. CASE ToldOf(n)
    BY <1>2, <1>8, <2>3 DEF ToldOf
  <2>4. CASE Stacked(Front(queue)) \cap Up(n) # {}
    BY <1>7, <1>8, <2>4 DEF Waits
  <2>5. CASE d \in Up(n)
    <3>1. d # n
      <4>1. d \in Up(d) /\ tree[d].kind = "dir"
        BY <1>3, <1>6, <1>10, UpTells DEF Folders
      <4>2. QED  BY <1>15, <4>1
    <3>2. PICK c \in Up(n) : c # Root /\ tree[c].in = d
      BY <1>3, <2>5, <3>1, UpTells
    <3>3. c \in entries
      <4>1. c \in DOMAIN tree
        BY <1>3, UpTells
      <4>2. QED  BY <1>4, <1>15, <3>2, <4>1 DEF In
    <3>4. CASE tree[c].kind = "file"
      <4>1. c = n
        BY <1>3, <3>2, <3>4, UpTells
      <4>2. n \in taken
        BY <2>1, <3>3, <3>4, <4>1 DEF Of
      <4>3. QED  BY <1>2, <4>2 DEF ToldOf
    <3>5. CASE tree[c].kind = "dir"
      <4>1. c \in Stacked(queue')
        BY <1>7, <3>3, <3>5 DEF Of
      <4>2. QED  BY <1>8, <3>2, <4>1 DEF Waits
    <3>6. CASE tree[c].kind \in {"link", "other"}
      <4>1. c \in skipped'
        BY <2>1, <3>3, <3>6 DEF Of, others
      <4>2. QED  BY <1>8, <3>2, <4>1 DEF ToldOf
    <3>7. QED  BY <1>11, <3>3, <3>4, <3>5, <3>6
  <2>6. QED  BY <1>7, <2>2, <2>3, <2>4, <2>5 DEF Waits
<1>16. ~Overflows' => \A n \in DOMAIN tree' : tree'[n].kind = "file" => ToldOf(n)' \/ Waits(n)'
  <2>1. ASSUME truncated', NEW n PROVE ToldOf(n)'
    BY <2>1 DEF ToldOf
  <2>2. QED  BY <1>3, <1>8, <1>15, <2>1
<1>17. walking' \/ truncated' \/ queue' = <<>>
  BY <1>2
<1>18. QED  BY <1>12, <1>13, <1>14, <1>16, <1>17 DEF WalkInv

LEMMA StepKeepsWalk == ASSUME TreeAssumption, WalkInv, [Next]_vars PROVE WalkInv'
<1>1. CASE TooDeep \/ Unreadable
  BY <1>1, SkipKeepsWalk DEF TooDeep, Unreadable, Pop, SkipUnread
<1>2. CASE ListOne
  BY <1>2, ListKeepsWalk
<1>3. CASE Done \/ UNCHANGED vars
  <2>1. UNCHANGED <<tree, queue, files, skipped, truncated>>
    BY <1>3 DEF Done, vars
  <2>2. /\ \A n : Up(n)' = Up(n)
        /\ Overflows' <=> Overflows
        /\ Stacked(queue)' = Stacked(queue) /\ Entries' = Entries
    BY <2>1 DEF Up, Overflows, In, Stacked, Entries
  <2>3. /\ \A e : Folders(e)' <=> Folders(e)
        /\ \A n : ToldOf(n)' <=> ToldOf(n)
        /\ \A n : Waits(n)' <=> Waits(n)
    BY <2>1, <2>2 DEF Folders, ToldOf, Waits
  <2>4. walking' \in BOOLEAN /\ (walking' \/ truncated' \/ queue' = <<>>)
    BY <1>3, <2>1 DEF WalkInv, WalkTyped, Done, vars
  <2>5. QED  BY <2>1, <2>2, <2>3, <2>4 DEF WalkInv, WalkTyped
<1>4. QED  BY <1>1, <1>2, <1>3 DEF Next

LEMMA WalkMirrors == ASSUME TreeAssumption, WalkInv PROVE MirrorsTheTree
<1>1. SUFFICES ASSUME ~walking PROVE MirrorsTheTree
  BY DEF MirrorsTheTree
<1>2. IsTree(tree) /\ files \subseteq DOMAIN tree
  BY DEF WalkInv, WalkTyped, TreeAssumption
<1>3. \A f \in files : tree[f].kind = "file" /\ \A d \in Up(f) \ {f} : tree[d].kind = "dir"
  BY DEF WalkInv
<1>4. \A f, g \in files : Target(f) = Target(g) => f = g
  <2>1. \A f \in files : f \in DOMAIN tree \ {Root}
    BY <1>2, <1>3, RootIs
  <2>2. QED  BY <1>2, <2>1, TargetsTell
<1>5. ASSUME ~Overflows, NEW n \in DOMAIN tree, tree[n].kind = "file" PROVE ToldOf(n)
  <2>1. ToldOf(n) \/ Waits(n)
    BY <1>5 DEF WalkInv
  <2>2. truncated \/ queue = <<>>
    BY <1>1 DEF WalkInv
  <2>3. CASE queue = <<>>
    BY <2>1, <2>3 DEF Waits, Stacked
  <2>4. QED  BY <2>1, <2>2, <2>3 DEF ToldOf
<1>6. QED  BY <1>3, <1>4, <1>5 DEF MirrorsTheTree

-----------------------------------------------------------------------------
(* As long as the walk goes on, what it has not accounted for is below a   *)
(* folder it still has to list (walk in remote/sftp.rs).                   *)
THEOREM WalkInductive == ASSUME TreeAssumption PROVE Spec => []WalkInv
<1>1. Init => WalkInv
  BY InitWalk
<1>2. WalkInv /\ [Next]_vars => WalkInv'
  BY StepKeepsWalk
<1>3. QED  BY <1>1, <1>2, PTL DEF Spec

(* Wherever a walk ends, what it says mirrors the tree (walk, list_dir).   *)
THEOREM WalkMirrorsTree == ASSUME TreeAssumption PROVE Spec => []MirrorsTheTree
<1>1. WalkInv => MirrorsTheTree
  BY WalkMirrors
<1>2. QED  BY <1>1, WalkInductive, PTL
=============================================================================
