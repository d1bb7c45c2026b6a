--------------------------- MODULE ConnectingProofs ---------------------------
(***************************************************************************)
(* Proofs about Connecting, for any hosts, stores, keys, passwords and any *)
(* number of calls.  A key that is the only one of its algorithm stays so  *)
(* unless two calls learn at once, so that what was true of a host's key   *)
(* when it was accepted is still true when the credential is sent; and a   *)
(* password is only refused together with the step that drops it.          *)
(***************************************************************************)
EXTENDS Connecting, Recursion, TLAPS, SequenceTheorems

-----------------------------------------------------------------------------
(* The walk of a chain of jump hosts.                                      *)
Walks(jump) ==
  [at : DOMAIN jump, chain : Seq(DOMAIN jump), over : BOOLEAN,
   error : {"", "loop", "gone", "deleted", "deep"}]

(* Where a walk stood before its i-th hop but one.                         *)
Stood(target, walk, i) == IF i = 0 THEN target ELSE walk.chain[i]

Followed(jump, target, walk) ==
  /\ walk.at = Stood(target, walk, Len(walk.chain))
  /\ \A i \in 1 .. Len(walk.chain) :
       walk.chain[i] # target /\ walk.chain[i] = jump[Stood(target, walk, i - 1)]
  /\ \A i, j \in 1 .. Len(walk.chain) : walk.chain[i] = walk.chain[j] => i = j

NoChain(jump, target, none, maxHops) ==
  \A hops \in Seq(DOMAIN jump) : ~IsChain(jump, target, none, maxHops, hops)

Right(jump, target, none, maxHops, walk) ==
  /\ walk \in Walks(jump) /\ Followed(jump, target, walk) /\ Len(walk.chain) <= maxHops
  /\ walk.error # "" => walk.over /\ NoChain(jump, target, none, maxHops)
  /\ walk.over /\ walk.error = "" => jump[walk.at] = none

(* A walk goes back along the chain, if there is one.                      *)
LEMMA WalksBack ==
  ASSUME NEW jump, NEW target \in DOMAIN jump, NEW none, none \notin DOMAIN jump,
         NEW maxHops \in Nat, NEW walk \in Walks(jump), Followed(jump, target, walk),
         NEW hops \in Seq(DOMAIN jump), IsChain(jump, target, none, maxHops, hops)
  PROVE  /\ Len(walk.chain) <= Len(hops)
         /\ \A i \in 0 .. Len(walk.chain) :
              Stood(target, walk, i) = Append(hops, target)[Len(hops) + 1 - i]
<1> DEFINE ids == DOMAIN jump  m == Len(hops)  k == Len(walk.chain)  route == Append(hops, target)
           S == {n \in Nat : n <= k => n <= m /\ Stood(target, walk, n) = route[m + 1 - n]}
<1>1. m \in Nat /\ k \in Nat /\ walk.chain \in Seq(ids)
  BY LenProperties DEF Walks
<1>2. \A i \in 1 .. k : walk.chain[i] \in ids
  BY <1>1, ElementOfSeq
<1>3. Len(route) = m + 1 /\ route[m + 1] = target /\ DOMAIN route = 1 .. m + 1
  <2>1. route \in Seq(ids) /\ Len(route) = m + 1 /\ route[m + 1] = target
    BY AppendProperties
  <2>2. QED  BY <2>1, LenProperties
<1>4. \A i \in 1 .. m + 1 : jump[route[i]] = IF i = 1 THEN none ELSE route[i - 1]
  BY <1>3 DEF IsChain
<1>5. \A i \in 1 .. k : walk.chain[i] = jump[Stood(target, walk, i - 1)]
  BY DEF Followed
<1> HIDE DEF route, m, k, ids
<1>6. 0 \in S
  BY <1>1, <1>3 DEF Stood
<1>7. ASSUME NEW n \in Nat, n \in S PROVE n + 1 \in S
  <2> SUFFICES ASSUME n + 1 <= k
               PROVE  n + 1 <= m /\ Stood(target, walk, n + 1) = route[m + 1 - (n + 1)]
    BY <1>1
  <2>1. n <= m /\ Stood(target, walk, n) = route[m + 1 - n]
    BY <1>1, <1>7
  <2>2. n + 1 \in 1 .. k /\ (n + 1) - 1 = n
    BY <1>1
  <2>3. walk.chain[n + 1] = jump[route[m + 1 - n]]
    BY <1>5, <2>1, <2>2
  <2>4. m + 1 - n \in 1 .. m + 1
    BY <1>1, <2>1
  <2>5. walk.chain[n + 1] = IF m + 1 - n = 1 THEN none ELSE route[(m + 1 - n) - 1]
    BY <1>4, <2>3, <2>4
  <2>6. walk.chain[n + 1] # none
    BY <1>2, <2>2 DEF ids
  <2>7. m + 1 - n # 1 /\ walk.chain[n + 1] = route[(m + 1 - n) - 1]
    BY <2>5, <2>6
  <2>8. (m + 1 - n) - 1 = m + 1 - (n + 1) /\ n + 1 <= m
    BY <1>1, <2>1, <2>7
  <2>9. Stood(target, walk, n + 1) = walk.chain[n + 1]
    BY DEF Stood
  <2>10. QED  BY <2>7, <2>8, <2>9
<1>8. Nat \subseteq S
  <2> HIDE DEF S
  <2>1. QED  BY <1>6, <1>7, SetInduction
<1>9. k \in S /\ \A i \in 0 .. k : i \in S /\ i <= k
  BY <1>1, <1>8
<1>10. k <= m /\ \A i \in 0 .. k : Stood(target, walk, i) = route[m + 1 - i]
  BY <1>1, <1>9
<1>11. QED  BY <1>10 DEF k, m, route

(* Where the walk stands, and where that host is reached through.          *)
LEMMA StandsOn ==
  ASSUME NEW jump, NEW target \in DOMAIN jump, NEW none, none \notin DOMAIN jump,
         NEW maxHops \in Nat, NEW walk \in Walks(jump), Followed(jump, target, walk),
         NEW hops \in Seq(DOMAIN jump), IsChain(jump, target, none, maxHops, hops),
         jump[walk.at] # none
  PROVE  /\ Len(walk.chain) < Len(hops) /\ Len(hops) <= maxHops
         /\ jump[walk.at] \in DOMAIN jump /\ jump[walk.at] # target
         /\ ~Contains(walk.chain, jump[walk.at])
<1> DEFINE m == Len(hops)  k == Len(walk.chain)  route == Append(hops, target)
<1>1. m \in Nat /\ k \in Nat
  BY LenProperties DEF Walks
<1>2. /\ k <= m /\ walk.at = route[m + 1 - k]
      /\ \A i \in 0 .. k : Stood(target, walk, i) = route[m + 1 - i]
  <2>1. k <= m /\ \A i \in 0 .. k : Stood(target, walk, i) = route[m + 1 - i]
    BY WalksBack
  <2>2. walk.at = Stood(target, walk, k) /\ k \in 0 .. k
    BY <1>1 DEF Followed
  <2> HIDE DEF k, m, route
  <2>3. QED  BY <2>1, <2>2
<1>3. Len(route) = m + 1 /\ route[m + 1] = target /\ DOMAIN route = 1 .. m + 1
  <2>1. route \in Seq(DOMAIN jump) /\ Len(route) = m + 1 /\ route[m + 1] = target
    BY AppendProperties
  <2>2. QED  BY <2>1, LenProperties
<1>4. /\ m <= maxHops
      /\ \A i \in 1 .. m + 1 : /\ route[i] \in DOMAIN jump
                               /\ jump[route[i]] = IF i = 1 THEN none ELSE route[i - 1]
      /\ \A i, j \in 1 .. m + 1 : route[i] = route[j] => i = j
  BY <1>3 DEF IsChain
<1> HIDE DEF route, m, k
<1>5. m + 1 - k \in 1 .. m + 1
  BY <1>1, <1>2
<1>6. m + 1 - k # 1 /\ jump[walk.at] = route[(m + 1 - k) - 1]
  BY <1>2, <1>4, <1>5
<1>7. k < m /\ m - k \in 1 .. m + 1 /\ (m + 1 - k) - 1 = m - k
  BY <1>1, <1>2, <1>6
<1>8. jump[walk.at] = route[m - k] /\ jump[walk.at] \in DOMAIN jump
  BY <1>4, <1>6, <1>7
<1>9. jump[walk.at] # target
  BY <1>1, <1>3, <1>4, <1>7, <1>8
<1>10. ~Contains(walk.chain, jump[walk.at])
  <2> SUFFICES ASSUME NEW i \in 1 .. k, walk.chain[i] = jump[walk.at] PROVE FALSE
    BY DEF Contains, k
  <2>1. walk.chain[i] = route[m + 1 - i]
    BY <1>1, <1>2 DEF Stood
  <2>2. m + 1 - i \in 1 .. m + 1 /\ m + 1 - i # m - k
    BY <1>1, <1>2
  <2>3. QED  BY <1>4, <1>7, <1>8, <2>1, <2>2
<1>11. QED  BY <1>4, <1>7, <1>8, <1>9, <1>10 DEF k, m

LEMMA TurnsRight ==
  ASSUME NEW jump, NEW target \in DOMAIN jump, NEW none, none \notin DOMAIN jump,
         NEW maxHops \in Nat, NEW walk, Right(jump, target, none, maxHops, walk)
  PROVE  /\ Right(jump, target, none, maxHops, Turn(jump, target, none, maxHops, walk))
         /\ ~Turn(jump, target, none, maxHops, walk).over =>
              ~walk.over /\ Len(Turn(jump, target, none, maxHops, walk).chain) = Len(walk.chain) + 1
<1> DEFINE next == jump[walk.at]  now == Turn(jump, target, none, maxHops, walk)  k == Len(walk.chain)
<1> HIDE DEF k
<1>1. walk \in Walks(jump) /\ walk.at \in DOMAIN jump /\ walk.chain \in Seq(DOMAIN jump) /\ k \in Nat
  BY LenProperties DEF Right, Walks, k
<1>r. /\ Followed(jump, target, walk) /\ k <= maxHops
      /\ walk.error # "" => walk.over /\ NoChain(jump, target, none, maxHops)
  BY DEF Right, k
<1>2. CASE walk.over
  BY <1>2 DEF Turn
<1>3. CASE ~walk.over /\ next = none
  <2>1. now = Stop(walk, "")
    BY <1>1, <1>3 DEF Turn
  <2>2. now \in Walks(jump) /\ now.at = walk.at /\ now.chain = walk.chain /\ now.over /\ now.error = ""
    BY <1>1, <2>1 DEF Stop, Walks
  <2>3. Followed(jump, target, now)
    BY <1>r, <2>2 DEF Followed, Stood
  <2>4. QED  BY <1>3, <1>r, <2>2, <2>3 DEF Right, k
<1>4. CASE /\ ~walk.over /\ next # none
           /\ \/ next = target \/ Contains(walk.chain, next) \/ next \notin DOMAIN jump
              \/ k = maxHops
  <2>1. \E why \in {"loop", "deleted", "deep"} : now = Stop(walk, why)
    BY <1>1, <1>4 DEF Turn, k
  <2>2. /\ now \in Walks(jump) /\ now.at = walk.at /\ now.chain = walk.chain
        /\ now.over /\ now.error # ""
    BY <1>1, <2>1 DEF Stop, Walks
  <2>3. Followed(jump, target, now)
    BY <1>r, <2>2 DEF Followed, Stood
  <2>4. NoChain(jump, target, none, maxHops)
    <3> SUFFICES ASSUME NEW hops \in Seq(DOMAIN jump), IsChain(jump, target, none, maxHops, hops)
                 PROVE  FALSE
      BY DEF NoChain
    <3>1. /\ k < Len(hops) /\ Len(hops) <= maxHops /\ next \in DOMAIN jump /\ next # target
          /\ ~Contains(walk.chain, next)
      BY <1>1, <1>4, <1>r, StandsOn DEF k
    <3>2. Len(hops) \in Nat
      BY LenProperties
    <3>3. QED  BY <1>1, <1>4, <3>1, <3>2
  <2>5. QED  BY <1>4, <1>r, <2>2, <2>3, <2>4 DEF Right, k
<1>5. CASE /\ ~walk.over /\ next # none /\ next # target /\ ~Contains(walk.chain, next)
           /\ next \in DOMAIN jump /\ k # maxHops
  <2> DEFINE chain == Append(walk.chain, next)
  <2>1. now = [walk EXCEPT !.at = next, !.chain = chain]
    BY <1>1, <1>5 DEF Turn, k
  <2>2. /\ chain \in Seq(DOMAIN jump) /\ Len(chain) = k + 1 /\ chain[k + 1] = next
        /\ \A i \in 1 .. k : chain[i] = walk.chain[i]
    BY <1>1, <1>5, AppendProperties DEF k
  <2> HIDE DEF chain
  <2>3. /\ now \in Walks(jump) /\ now.at = next /\ now.chain = chain
        /\ now.over = walk.over /\ now.error = walk.error
    BY <1>1, <1>5, <2>1, <2>2 DEF Walks
  <2>4. \A i \in 0 .. k : Stood(target, now, i) = Stood(target, walk, i)
    BY <1>1, <2>2, <2>3 DEF Stood
  <2>5. Followed(jump, target, now)
    <3>1. now.at = Stood(target, now, Len(now.chain))
      BY <1>1, <2>2, <2>3 DEF Stood
    <3>2. ASSUME NEW i \in 1 .. k + 1
          PROVE  chain[i] # target /\ chain[i] = jump[Stood(target, now, i - 1)]
      <4>1. CASE i = k + 1
        <5>1. i - 1 = k /\ k \in 0 .. k
          BY <1>1, <4>1
        <5>2. Stood(target, now, i - 1) = walk.at
          BY <1>r, <2>4, <5>1 DEF Followed, k
        <5>3. QED  BY <1>5, <2>2, <4>1, <5>2
      <4>2. CASE i \in 1 .. k
        <5>1. Stood(target, now, i - 1) = Stood(target, walk, i - 1)
          BY <1>1, <2>4, <4>2
        <5>2. QED  BY <1>r, <2>2, <4>2, <5>1 DEF Followed, k
      <4>3. QED  BY <1>1, <4>1, <4>2
    <3>3. \A i \in 1 .. k : chain[i] # next
      BY <1>5, <2>2 DEF Contains, k
    <3>4. ASSUME NEW i \in 1 .. k + 1, NEW j \in 1 .. k + 1, chain[i] = chain[j] PROVE i = j
      <4>1. CASE i \in 1 .. k /\ j \in 1 .. k
        BY <1>r, <2>2, <3>4, <4>1 DEF Followed, k
      <4>2. CASE i = k + 1 \/ j = k + 1
        BY <1>1, <2>2, <3>3, <3>4, <4>2
      <4>3. QED  BY <1>1, <4>1, <4>2
    <3>5. QED  BY <2>2, <2>3, <3>1, <3>2, <3>4 DEF Followed
  <2>6. k + 1 <= maxHops
    <3>1. \A a, b \in Nat : a <= b /\ a # b => a + 1 <= b
      OBVIOUS
    <3>2. k \in Nat /\ k <= maxHops /\ k # maxHops
      BY <1>1, <1>5, <1>r
    <3>3. QED  BY <3>1, <3>2
  <2>7. QED  BY <1>5, <1>r, <2>2, <2>3, <2>5, <2>6 DEF Right, k
<1>6. QED  BY <1>2, <1>3, <1>4, <1>5

(* resolve finds the chain of jump hosts where there is one and says so    *)
(* where there is none, whatever is saved.                                 *)
LEMMA ChainIsFound ==
  ASSUME NEW jump, NEW target \in DOMAIN jump, NEW none, none \notin DOMAIN jump,
         NEW maxHops \in Nat
  PROVE  Resolves(jump, target, none, maxHops)
<1> DEFINE ids == DOMAIN jump
           W == {w \in Walks(jump) : Right(jump, target, none, maxHops, w)}
           Goes(w) == Turn(jump, target, none, maxHops, w)
           F == [w \in W |-> Goes(w)]
           walk == CHOOSE g : g = [n \in 0 .. maxHops + 1 |->
                     IF n = 0 THEN Outset(target) ELSE Goes(g[n - 1])]
<1>0. /\ Outset(target).at = target /\ Outset(target).chain = <<>> /\ Len(<<>>) = 0
      /\ ~Outset(target).over /\ Outset(target).error = ""
  BY DEF Outset
<1>1. Outset(target) \in W
  <2>1. <<>> \in Seq(DOMAIN jump) /\ Len(<<>>) <= maxHops
    BY EmptySeq
  <2>2. Outset(target) \in Walks(jump)
    BY <2>1 DEF Outset, Walks
  <2>3. Followed(jump, target, Outset(target))
    <3>0. 1 .. 0 = {}
      OBVIOUS
    <3>1. Len(Outset(target).chain) = 0
      BY <1>0, Zenon
    <3>2. Outset(target).at = Stood(target, Outset(target), 0)
      BY <1>0 DEF Stood
    <3>3. QED  BY <3>0, <3>1, <3>2 DEF Followed
  <2>4. QED  BY <1>0, <2>1, <2>2, <2>3 DEF Right
<1>2. \A w \in W : Goes(w) \in W
  BY TurnsRight DEF Right
<1>3. walk = [n \in 0 .. maxHops + 1 |->
                IF n = 0 THEN Outset(target) ELSE Goes(walk[n - 1])]
  <2>1. F \in [W -> W]
    BY <1>2
  <2> HIDE DEF W
  <2> DEFINE N == maxHops + 1
  <2>2. N \in Nat
    OBVIOUS
  <2> HIDE DEF N
  <2>3. PICK g \in [0 .. N -> W] :
          g[0] = Outset(target) /\ \A n \in 1 .. N : g[n] = F[g[n - 1]]
    <3> HIDE DEF F
    <3>1. Iterated(W, F, Outset(target), N)
      BY <1>1, <2>1, <2>2, Iterates
    <3>2. QED  BY <3>1 DEF Iterated
  <2>4. \A n \in 1 .. N : g[n] = Goes(g[n - 1])
    <3>1. \A n \in 1 .. N : n - 1 \in 0 .. N
      BY <2>2
    <3>2. QED  BY <2>3, <3>1
  <2>5. g = [n \in 0 .. N |-> IF n = 0 THEN Outset(target) ELSE Goes(g[n - 1])]
    <3>1. \A n \in 0 .. N : n # 0 => n \in 1 .. N
      BY <2>2
    <3> HIDE DEF Goes
    <3>2. QED  BY <2>3, <2>4, <3>1
  <2>6. QED  BY <2>5 DEF N
<1> HIDE DEF walk
(* Each turn adds a hop, or the walk is over.                              *)
<1>4. \A n \in 0 .. maxHops + 1 :
        walk[n] \in W /\ (walk[n].over \/ Len(walk[n].chain) = n)
  <2> DEFINE S == {n \in Nat : n <= maxHops + 1 =>
                     walk[n] \in W /\ (walk[n].over \/ Len(walk[n].chain) = n)}
  <2>1. 0 \in S
    <3>1. walk[0] = Outset(target)
      BY <1>3
    <3>2. walk[0] \in W /\ Len(walk[0].chain) = 0
      BY <1>0, <1>1, <3>1
    <3> HIDE DEF W
    <3>3. QED  BY <3>2
  <2>2. ASSUME NEW n \in Nat, n \in S PROVE n + 1 \in S
    <3> SUFFICES ASSUME n + 1 <= maxHops + 1
                 PROVE  walk[n + 1] \in W /\ (walk[n + 1].over \/ Len(walk[n + 1].chain) = n + 1)
      OBVIOUS
    <3>1. walk[n] \in W /\ (walk[n].over \/ Len(walk[n].chain) = n)
      BY <2>2
    <3>2. walk[n + 1] = Goes(walk[n])
      BY <1>3
    <3>3. walk[n + 1] \in W /\ (~walk[n + 1].over => Len(walk[n + 1].chain) = n + 1)
      BY <1>2, <3>1, <3>2, TurnsRight
    <3>4. QED  BY <3>3
  <2>3. Nat \subseteq S
    <3> HIDE DEF S
    <3>1. QED  BY <2>1, <2>2, SetInduction
  <2>4. QED  BY <2>3
<1> DEFINE end == walk[maxHops + 1]  k == Len(end.chain)
<1>5. /\ end \in Walks(jump) /\ Right(jump, target, none, maxHops, end)
      /\ end.chain \in Seq(ids) /\ k \in Nat /\ k <= maxHops /\ end.over
  <2>1. end \in W /\ (end.over \/ k = maxHops + 1)
    BY <1>4
  <2>2. end.chain \in Seq(ids) /\ k \in Nat /\ k <= maxHops
    BY <2>1, LenProperties DEF Walks, Right
  <2>3. QED  BY <2>1, <2>2
<1> DEFINE found == Resolve(jump, target, none, maxHops)
<1>6. found.error = end.error /\ found.hops = Reverse(end.chain)
  BY DEF Resolve, walk
<1> HIDE DEF end, found, Goes, F
<1>7. CASE end.error # ""
  <2>1. NoChain(jump, target, none, maxHops)
    BY <1>5, <1>7 DEF Right
  <2>2. \A n \in 0 .. maxHops : [1 .. n -> ids] \subseteq Seq(ids)
    BY SeqDef
  <2>3. QED  BY <1>6, <1>7, <2>1, <2>2 DEF Resolves, NoChain, found
<1>8. CASE end.error = ""
  <2> DEFINE hops == Reverse(end.chain)  route == Append(hops, target)
  <2>1. /\ hops \in Seq(ids) /\ Len(hops) = k
        /\ \A i \in 1 .. k : hops[i] = end.chain[(k - i) + 1]
    <3>1. hops = [i \in 1 .. k |-> end.chain[(k - i) + 1]]
      BY DEF Reverse
    <3>2. \A i \in 1 .. k : end.chain[(k - i) + 1] \in ids
      BY <1>5, ElementOfSeq
    <3>3. hops \in [1 .. k -> ids]
      BY <3>1, <3>2
    <3>4. hops \in Seq(ids) /\ Len(hops) \in Nat /\ DOMAIN hops = 1 .. Len(hops)
      BY <1>5, <3>3, SeqDef, LenProperties
    <3>5. Len(hops) = k
      BY <1>5, <3>3, <3>4
    <3>6. QED  BY <3>1, <3>4, <3>5
  <2> HIDE DEF hops
  <2>2. /\ route \in Seq(ids) /\ Len(route) = k + 1 /\ DOMAIN route = 1 .. k + 1
        /\ route[k + 1] = target /\ \A i \in 1 .. k : route[i] = hops[i]
    <3>1. /\ route \in Seq(ids) /\ Len(route) = k + 1
          /\ route[k + 1] = target /\ \A i \in 1 .. k : route[i] = hops[i]
      BY <2>1, AppendProperties
    <3>2. QED  BY <3>1, LenProperties
  <2> HIDE DEF route
  <2>3. \A i \in 1 .. k + 1 : route[i] = Stood(target, end, (k + 1) - i)
    <3> SUFFICES ASSUME NEW i \in 1 .. k + 1 PROVE route[i] = Stood(target, end, (k + 1) - i)
      OBVIOUS
    <3>1. CASE i = k + 1
      BY <1>5, <2>2, <3>1 DEF Stood
    <3>2. CASE i # k + 1
      <4>1. i \in 1 .. k /\ (k + 1) - i # 0 /\ (k + 1) - i = (k - i) + 1
        BY <1>5, <3>2
      <4>2. QED  BY <2>1, <2>2, <4>1 DEF Stood
    <3>3. QED  BY <3>1, <3>2
  <2>4. Followed(jump, target, end) /\ jump[end.at] = none
    BY <1>5, <1>8 DEF Right
  <2>5. ASSUME NEW i \in 1 .. k + 1
        PROVE  jump[route[i]] = IF i = 1 THEN none ELSE route[i - 1]
    <3>1. CASE i = 1
      <4>1. (k + 1) - i = k
        BY <1>5, <3>1
      <4>2. QED  BY <2>3, <2>4, <3>1, <4>1 DEF Followed
    <3>2. CASE i # 1
      <4>1. /\ i - 1 \in 1 .. k + 1 /\ (k + 1) - (i - 1) = ((k + 1) - i) + 1
            /\ ((k + 1) - i) + 1 \in 1 .. k /\ (((k + 1) - i) + 1) - 1 = (k + 1) - i
        BY <1>5, <3>2
      <4> DEFINE j == ((k + 1) - i) + 1
      <4>2. route[i - 1] = Stood(target, end, j) /\ j # 0
        BY <1>5, <2>3, <4>1
      <4>3. route[i - 1] = end.chain[j]
        BY <4>2 DEF Stood
      <4>4. end.chain[j] = jump[Stood(target, end, j - 1)]
        BY <2>4, <4>1 DEF Followed
      <4>5. QED  BY <2>3, <3>2, <4>1, <4>3, <4>4
    <3>3. QED  BY <3>1, <3>2
  <2>6. ASSUME NEW i \in 1 .. k + 1, NEW j \in 1 .. k + 1, route[i] = route[j]
        PROVE  i = j
    <3> DEFINE a == (k + 1) - i  b == (k + 1) - j
    <3>1. a \in 0 .. k /\ b \in 0 .. k /\ (a = b => i = j)
      BY <1>5
    <3>2. Stood(target, end, a) = Stood(target, end, b)
      BY <2>3, <2>6
    <3> HIDE DEF a, b
    <3>3. a = b
      BY <1>5, <2>4, <3>1, <3>2 DEF Stood, Followed
    <3>4. QED  BY <3>1, <3>3
  <2>7. \A i \in DOMAIN route : route[i] \in DOMAIN jump
    BY <2>2, ElementOfSeq
  <2>8. IsChain(jump, target, none, maxHops, hops)
    BY <1>5, <2>1, <2>2, <2>5, <2>6, <2>7 DEF IsChain, route
  <2>9. QED  BY <1>6, <1>8, <2>8 DEF Resolves, hops, found
<1>9. QED  BY <1>7, <1>8

-----------------------------------------------------------------------------
(* The calls.                                                              *)

CallRecords ==
  [stage : {"idle", "chain", "dial", "learn", "auth", "account"}, host : Hosts \cup {NoHost},
   todo : Seq(Hosts), own : Passwords \cup {NoPassword}, offer : Passwords \cup {NoPassword},
   key : Keys \cup {NoKey}, sure : BOOLEAN, trust : BOOLEAN, remember : BOOLEAN]

Typed ==
  /\ saved \in Layouts
  /\ known \in [Hosts -> SUBSET Keys]
  /\ vault \in [Hosts -> Passwords \cup {NoPassword}]
  /\ call \in [Calls -> CallRecords]
  /\ refused \subseteq Hosts \X Passwords \X {"target", "hop"}
  /\ overlapped \subseteq Hosts

(* A call goes through saved hosts and ends at its own, for which it has a *)
(* password if one is needed.                                              *)
Underway(c) == call[c].stage \in {"chain", "dial", "learn", "auth"}

OnItsWay(c) ==
  Underway(c) =>
    LET todo == call[c].todo  host == call[c].host IN
    /\ todo \in Seq(DOMAIN saved) /\ Len(todo) >= 1 /\ todo[Len(todo)] = host
    /\ saved[host].method = "password" => call[c].own \in Passwords

HopHasOffer(c) ==
  call[c].stage \in {"dial", "auth"} /\ ~AtTarget(c) /\ saved[Peer(c)].method = "password"
    => call[c].offer \in Passwords

(* What known_hosts says of a key, as long as nobody learnt a key of the   *)
(* host at the same time: it is the only one of its algorithm, or there is *)
(* none of it.                                                             *)
Sole(h, k) == file = "kept" /\ h \notin overlapped => Recorded(h, k) = {k}
Fresh(h, k) == file = "kept" /\ h \notin overlapped => Recorded(h, k) = {}

(* A call that is about to authenticate does so to a key that is known, or *)
(* that was consented to; one that is about to learn a key was told to.    *)
KeyIsSure(c) ==
  call[c].stage = "auth" =>
    /\ call[c].key \in Keys
    /\ call[c].sure \/ (call[c].trust /\ AtTarget(c))
    /\ Sole(Peer(c), call[c].key)

KeyIsNew(c) ==
  call[c].stage = "learn" =>
    /\ call[c].key \in Keys /\ call[c].trust /\ AtTarget(c)
    /\ Fresh(Peer(c), call[c].key)

Sound(c) == OnItsWay(c) /\ HopHasOffer(c) /\ KeyIsSure(c) /\ KeyIsNew(c)

LearnAlone ==
  \A c, d \in Calls :
    c # d /\ call[c].stage = "learn" /\ call[d].stage = "learn" /\ Peer(c) = Peer(d)
      => Peer(c) \in overlapped

SentRight ==
  \A s \in sent : /\ s.host \in Hosts /\ s.key \in Keys /\ s.allowed
                  /\ Sole(s.host, s.key)

(* The inductive invariant.                                                *)
CInv == Typed /\ (\A c \in Calls : Sound(c)) /\ LearnAlone /\ SentRight /\ RefusedNotKept

(* What a step of a call undoes neither for what was sent nor for others.  *)
Grows == \A h \in Hosts, k \in Keys : Sole(h, k) => Sole(h, k)'

Spares(c) ==
  \A d \in Calls, h \in Hosts, k \in Keys :
    d # c /\ call[d].stage = "learn" /\ Peer(d) = h /\ Fresh(h, k) => Fresh(h, k)'

-----------------------------------------------------------------------------
LEMMA LastAppended ==
  ASSUME NEW S, NEW s \in Seq(S), NEW x \in S
  PROVE  /\ Append(s, x) \in Seq(S) /\ Len(Append(s, x)) >= 1
         /\ Append(s, x)[Len(Append(s, x))] = x
<1>1. Len(s) \in Nat
  BY LenProperties
<1>2. Append(s, x) \in Seq(S) /\ Len(Append(s, x)) = Len(s) + 1
  BY AppendProperties
<1>3. Append(s, x)[Len(s) + 1] = x
  BY AppendProperties
<1>4. QED  BY <1>1, <1>2, <1>3

LEMMA LastOfTail ==
  ASSUME NEW S, NEW s \in Seq(S), Len(s) >= 1, Len(s) # 1
  PROVE  /\ Tail(s) \in Seq(S) /\ Len(Tail(s)) >= 1
         /\ Tail(s)[Len(Tail(s))] = s[Len(s)]
<1>1. Len(s) \in Nat /\ Len(s) > 1
  <2>1. Len(s) \in Nat  BY LenProperties
  <2>2. \A n \in Nat : n >= 1 /\ n # 1 => n > 1  OBVIOUS
  <2>3. QED  BY <2>1, <2>2
<1>2. s # <<>>
  BY <1>1, EmptySeq
<1>3. Tail(s) \in Seq(S) /\ Len(Tail(s)) = Len(s) - 1
  BY <1>2, HeadTailProperties
<1>4. \A i \in 1 .. Len(Tail(s)) : Tail(s)[i] = s[i + 1]
  BY <1>2, HeadTailProperties
<1>5. (Len(s) - 1) \in 1 .. Len(Tail(s)) /\ (Len(s) - 1) + 1 = Len(s)
  BY <1>1, <1>3
<1>6. Tail(s)[Len(s) - 1] = s[Len(s)]
  BY <1>4, <1>5
<1>7. QED  BY <1>1, <1>3, <1>6

LEMMA SavedAreHosts == ASSUME ConnectAssumption, Typed PROVE DOMAIN saved \subseteq Hosts
BY DEF ConnectAssumption, Typed

(* Where a call is going, and where it is now, is saved.                   *)
LEMMA PeerSaved ==
  ASSUME ConnectAssumption, Typed, NEW c \in Calls, OnItsWay(c), Underway(c)
  PROVE  /\ Peer(c) \in DOMAIN saved /\ Peer(c) \in Hosts
         /\ call[c].host \in DOMAIN saved /\ call[c].host \in Hosts
         /\ AtTarget(c) => Peer(c) = call[c].host
<1>1. /\ call[c].todo \in Seq(DOMAIN saved) /\ Len(call[c].todo) >= 1
      /\ call[c].todo[Len(call[c].todo)] = call[c].host
  BY DEF OnItsWay
<1>2. call[c].host \in DOMAIN saved /\ Head(call[c].todo) \in DOMAIN saved
  BY <1>1
<1>3. Len(call[c].todo) = 1 => Head(call[c].todo) = call[c].host
  BY <1>1
<1>4. QED  BY <1>2, <1>3, SavedAreHosts DEF Peer, AtTarget

LEMMA Unmoved ==
  ASSUME UNCHANGED <<file, known, overlapped>>
  PROVE  Grows /\ \A c \in Calls : Spares(c)
BY DEF Grows, Spares, Sole, Fresh, Recorded

(* A step of one call leaves the others sound.                             *)
LEMMA OthersSound ==
  ASSUME ConnectAssumption, CInv, NEW c \in Calls, UNCHANGED saved, Grows, Spares(c),
         call' = [call EXCEPT ![c] = call'[c]], Sound(c)'
  PROVE  \A d \in Calls : Sound(d)'
<1> SUFFICES ASSUME NEW d \in Calls, d # c PROVE Sound(d)'
  OBVIOUS
<1>1. call'[d] = call[d] /\ Sound(d)
  BY DEF CInv, Typed
<1>2. OnItsWay(d)' /\ HopHasOffer(d)'
  BY <1>1 DEF Sound, OnItsWay, HopHasOffer, Underway, AtTarget, Peer
<1>3. Peer(d)' = Peer(d) /\ AtTarget(d)' = AtTarget(d)
  BY <1>1 DEF Peer, AtTarget
<1>4. ASSUME call[d].stage \in {"learn", "auth"} PROVE Peer(d) \in Hosts
  BY <1>1, <1>4, PeerSaved DEF CInv, Sound, Underway
<1>5. KeyIsSure(d)'
  <2> SUFFICES ASSUME call[d].stage = "auth"
               PROVE  /\ call[d].key \in Keys /\ (call[d].sure \/ (call[d].trust /\ AtTarget(d)))
                      /\ Sole(Peer(d), call[d].key)'
    BY <1>1, <1>3 DEF KeyIsSure
  <2>1. /\ call[d].key \in Keys /\ (call[d].sure \/ (call[d].trust /\ AtTarget(d)))
        /\ Sole(Peer(d), call[d].key)
    BY <1>1 DEF Sound, KeyIsSure
  <2>2. ASSUME NEW h \in Hosts, NEW k \in Keys, h = Peer(d), k = call[d].key
        PROVE  Sole(Peer(d), call[d].key)'
    <3>1. Sole(h, k)'
      BY <2>1, <2>2 DEF Grows
    <3>2. h = Peer(d)' /\ k = call'[d].key
      BY <1>1, <1>3, <2>2
    <3>3. QED  BY <3>1, <3>2 DEF Sole
  <2>3. QED  BY <1>4, <2>1, <2>2
<1>6. KeyIsNew(d)'
  <2> SUFFICES ASSUME call[d].stage = "learn"
               PROVE  /\ call[d].key \in Keys /\ call[d].trust /\ AtTarget(d)
                      /\ Fresh(Peer(d), call[d].key)'
    BY <1>1, <1>3 DEF KeyIsNew
  <2>1. /\ call[d].key \in Keys /\ call[d].trust /\ AtTarget(d)
        /\ Fresh(Peer(d), call[d].key)
    BY <1>1 DEF Sound, KeyIsNew
  <2>2. ASSUME NEW h \in Hosts, NEW k \in Keys, h = Peer(d), k = call[d].key
        PROVE  Fresh(Peer(d), call[d].key)'
    <3>1. Fresh(h, k)'
      BY <2>1, <2>2 DEF Spares
    <3>2. h = Peer(d)' /\ k = call'[d].key
      BY <1>1, <1>3, <2>2
    <3>3. QED  BY <3>1, <3>2 DEF Fresh
  <2>3. QED  BY <1>4, <2>1, <2>2
<1>7. QED  BY <1>2, <1>5, <1>6 DEF Sound

LEMMA AloneStays ==
  ASSUME CInv, NEW c \in Calls, call' = [call EXCEPT ![c] = call'[c]],
         call'[c].stage # "learn", UNCHANGED overlapped
  PROVE  LearnAlone'
<1> SUFFICES ASSUME NEW d \in Calls, NEW e \in Calls, d # e,
                    call'[d].stage = "learn", call'[e].stage = "learn", Peer(d)' = Peer(e)'
             PROVE  Peer(d)' \in overlapped
  BY DEF LearnAlone
<1>1. call'[d] = call[d] /\ call'[e] = call[e]
  BY DEF CInv, Typed
<1>2. Peer(d)' = Peer(d) /\ Peer(e)' = Peer(e)
  BY <1>1 DEF Peer
<1>3. QED  BY <1>1, <1>2 DEF CInv, LearnAlone

LEMMA SentStays ==
  ASSUME CInv, UNCHANGED sent, Grows PROVE SentRight'
<1> SUFFICES ASSUME NEW s \in sent
             PROVE  s.host \in Hosts /\ s.key \in Keys /\ s.allowed /\ Sole(s.host, s.key)'
  BY DEF SentRight
<1>1. s.host \in Hosts /\ s.key \in Keys /\ s.allowed /\ Sole(s.host, s.key)
  BY DEF CInv, SentRight
<1>2. QED  BY <1>1 DEF Grows

(* A password that is dropped was not refused: there is none.              *)
LEMMA DroppedNotRefused ==
  ASSUME ConnectAssumption, CInv, NEW c \in Calls, Fail(c), NEW r,
         r \subseteq Hosts \X Passwords \X {"target", "hop"}, refused' = r,
         \A h \in Hosts, p \in Passwords :
            <<h, p, "target">> \in r /\ <<h, p, "target">> \notin refused
              => h = call[c].host /\ Drops(c)
  PROVE  RefusedNotKept' /\ vault' \in [Hosts -> Passwords \cup {NoPassword}]
<1>1. vault' \in [Hosts -> Passwords \cup {NoPassword}]
  BY DEF Fail, Forget, CInv, Typed
<1>2. ASSUME NEW h \in Hosts PROVE <<h, vault'[h], "target">> \notin r
  <2>1. CASE Drops(c) /\ h = call[c].host
    BY <2>1 DEF Fail, Forget, CInv, Typed, ConnectAssumption
  <2>2. CASE ~(Drops(c) /\ h = call[c].host)
    <3>1. vault'[h] = vault[h]
      BY <2>2 DEF Fail, Forget, CInv, Typed
    <3>2. QED  BY <1>1, <2>2, <3>1 DEF CInv, RefusedNotKept, ConnectAssumption
  <2>3. QED  BY <2>1, <2>2
<1>3. QED  BY <1>1, <1>2 DEF RefusedNotKept

LEMMA IdleSound ==
  ASSUME NEW c \in Calls, CInv, call' = [call EXCEPT ![c] = Idle]
  PROVE  /\ Sound(c)' /\ call' = [call EXCEPT ![c] = call'[c]]
         /\ call' \in [Calls -> CallRecords] /\ call'[c].stage # "learn"
<1>1. Idle \in CallRecords
  BY DEF Idle, CallRecords
<1>2. call'[c] = Idle /\ call' = [call EXCEPT ![c] = call'[c]]
  BY DEF CInv, Typed
<1>3. Sound(c)'
  BY <1>2 DEF Sound, OnItsWay, Underway, HopHasOffer, KeyIsSure, KeyIsNew, Idle
<1>4. QED  BY <1>1, <1>2, <1>3 DEF CInv, Typed, Idle

-----------------------------------------------------------------------------
LEMMA InitCInv == ASSUME ConnectAssumption, Init PROVE CInv
<1>1. Typed
  BY DEF Init, Typed, Idle, CallRecords
<1>2. \A c \in Calls : Sound(c)
  BY DEF Init, Sound, OnItsWay, Underway, HopHasOffer, KeyIsSure, KeyIsNew, Idle
<1>3. LearnAlone /\ SentRight /\ RefusedNotKept
  BY DEF Init, LearnAlone, SentRight, RefusedNotKept, Idle
<1>4. QED  BY <1>1, <1>2, <1>3 DEF CInv

LEMMA ConnectKeeps ==
  ASSUME ConnectAssumption, CInv, NEW c \in Calls, NEW h \in Hosts,
         NEW typed \in Passwords \cup {NoPassword}, NEW remember \in BOOLEAN,
         NEW trust \in BOOLEAN, Connect(c, h, typed, remember, trust)
  PROVE  CInv'
<1> DEFINE chain == Resolve(Jumps, h, NoHost, MaxHops)
           todo == Append(chain.hops, h)
<1>1. h \in DOMAIN saved /\ CanOffer(h, typed) /\ chain.error = ""
  BY DEF Connect
<1>2. UNCHANGED <<saved, file, known, vault, sent, refused, overlapped>>
  BY DEF Connect
<1>3. chain.hops \in Seq(DOMAIN saved)
  <2>1. DOMAIN Jumps = DOMAIN saved
    BY DEF Jumps
  <2>2. Resolves(Jumps, h, NoHost, MaxHops)
    <3>1. NoHost \notin DOMAIN Jumps /\ MaxHops \in Nat
      BY <2>1, SavedAreHosts DEF ConnectAssumption, CInv
    <3>2. h \in DOMAIN Jumps
      BY <1>1, <2>1
    <3>3. QED  BY <3>1, <3>2, ChainIsFound
  <2>3. QED  BY <1>1, <2>1, <2>2 DEF Resolves, IsChain
<1> HIDE DEF chain
<1>4. todo \in Seq(DOMAIN saved) /\ Len(todo) >= 1 /\ todo[Len(todo)] = h
  <2> DEFINE ids == DOMAIN saved  hops == chain.hops
  <2>1. h \in ids /\ hops \in Seq(ids)
    BY <1>1, <1>3
  <2> HIDE DEF ids, hops
  <2>2. /\ Append(hops, h) \in Seq(ids) /\ Len(Append(hops, h)) >= 1
        /\ Append(hops, h)[Len(Append(hops, h))] = h
    BY <2>1, LastAppended
  <2>3. QED  BY <2>2 DEF ids, hops
<1>5. todo \in Seq(Hosts)
  BY <1>4, SavedAreHosts DEF CInv
<1>6. /\ Offer(h, typed) \in Passwords \cup {NoPassword}
      /\ saved[h].method = "password" => Offer(h, typed) \in Passwords
  BY <1>1 DEF Offer, CanOffer, CInv, Typed
<1>7. call' = [call EXCEPT ![c] =
        [stage |-> "chain", host |-> h, todo |-> todo, own |-> Offer(h, typed),
         offer |-> NoPassword, key |-> NoKey, sure |-> FALSE, trust |-> trust,
         remember |-> remember]]
  BY DEF Connect, chain
<1> HIDE DEF todo
<1>8. /\ call' \in [Calls -> CallRecords] /\ call' = [call EXCEPT ![c] = call'[c]]
      /\ call'[c].stage = "chain" /\ call'[c].todo = todo /\ call'[c].host = h
      /\ call'[c].own = Offer(h, typed)
  <2> DEFINE now == [stage |-> "chain", host |-> h, todo |-> todo, own |-> Offer(h, typed),
                     offer |-> NoPassword, key |-> NoKey, sure |-> FALSE, trust |-> trust,
                     remember |-> remember]
  <2>1. /\ now \in CallRecords /\ now.stage = "chain" /\ now.todo = todo /\ now.host = h
        /\ now.own = Offer(h, typed)
    BY <1>5, <1>6 DEF CallRecords
  <2>2. call' = [call EXCEPT ![c] = now] /\ call \in [Calls -> CallRecords]
    BY <1>7 DEF CInv, Typed
  <2> HIDE DEF now
  <2>3. QED  BY <2>1, <2>2
<1>9. Sound(c)'
  BY <1>2, <1>4, <1>6, <1>8 DEF Sound, OnItsWay, Underway, HopHasOffer, KeyIsSure, KeyIsNew
<1>10. \A d \in Calls : Sound(d)'
  BY <1>2, <1>8, <1>9, Unmoved, OthersSound
<1>11. QED
  BY <1>2, <1>8, <1>10, Unmoved, AloneStays, SentStays DEF CInv, Typed, RefusedNotKept

LEMMA NextHopKeeps ==
  ASSUME ConnectAssumption, CInv, NEW c \in Calls, NextHop(c) PROVE CInv'
<1> DEFINE o == IF AtTarget(c) THEN call[c].offer ELSE Offer(Peer(c), NoPassword)
<1>1. UNCHANGED <<saved, file, known, vault, sent, refused, overlapped>>
  BY DEF NextHop
<1>2. call[c].stage = "chain" /\ Sound(c) /\ Peer(c) \in Hosts
  BY PeerSaved DEF NextHop, CInv, Sound, Underway
<1>3. Offer(Peer(c), NoPassword) \in Passwords \cup {NoPassword}
  BY <1>2 DEF Offer, CInv, Typed
<1>4. ~AtTarget(c) /\ saved[Peer(c)].method = "password" => Offer(Peer(c), NoPassword) \in Passwords
  BY <1>3 DEF NextHop, CanOffer
<1>5. /\ call' \in [Calls -> CallRecords] /\ call' = [call EXCEPT ![c] = call'[c]]
      /\ call'[c].stage = "dial" /\ call'[c].todo = call[c].todo
      /\ call'[c].host = call[c].host /\ call'[c].own = call[c].own
      /\ call'[c].offer = o
  <2>1. o \in Passwords \cup {NoPassword}
    BY <1>3 DEF CInv, Typed, CallRecords
  <2>2. call' = [call EXCEPT ![c].stage = "dial", ![c].offer = o]
    BY DEF NextHop
  <2> HIDE DEF o
  <2> DEFINE now == [call[c] EXCEPT !.stage = "dial", !.offer = o]
  <2>3. call[c] \in CallRecords
    BY DEF CInv, Typed
  <2>4. /\ now \in CallRecords /\ now.stage = "dial" /\ now.offer = o
        /\ now.todo = call[c].todo /\ now.host = call[c].host /\ now.own = call[c].own
    BY <2>1, <2>3 DEF CallRecords
  <2>5. call' = [call EXCEPT ![c] = now] /\ call \in [Calls -> CallRecords]
    BY <2>2 DEF CInv, Typed
  <2> HIDE DEF now
  <2>6. QED  BY <2>4, <2>5
<1>6. Sound(c)'
  BY <1>1, <1>2, <1>4, <1>5
     DEF Sound, OnItsWay, Underway, HopHasOffer, KeyIsSure, KeyIsNew, AtTarget, Peer
<1>7. \A d \in Calls : Sound(d)'
  BY <1>1, <1>5, <1>6, Unmoved, OthersSound
<1>8. QED
  BY <1>1, <1>5, <1>7, Unmoved, AloneStays, SentStays DEF CInv, Typed, RefusedNotKept

(* A call that ends without having sent anything.                          *)
LEMMA EndKeeps ==
  ASSUME ConnectAssumption, CInv, NEW c \in Calls,
         UNCHANGED <<saved, file, known, sent, refused, overlapped>>,
         Fail(c) \/ (call' = [call EXCEPT ![c] = Idle] /\ UNCHANGED vault)
  PROVE  CInv'
<1>1. /\ Sound(c)' /\ call' = [call EXCEPT ![c] = call'[c]]
      /\ call' \in [Calls -> CallRecords] /\ call'[c].stage # "learn"
  BY IdleSound DEF Fail
<1>2. \A d \in Calls : Sound(d)'
  BY <1>1, Unmoved, OthersSound
<1>3. RefusedNotKept' /\ vault' \in [Hosts -> Passwords \cup {NoPassword}]
  <2>1. CASE Fail(c)
    BY <2>1, DroppedNotRefused DEF CInv, Typed
  <2>2. CASE UNCHANGED vault
    BY <2>2 DEF CInv, Typed, RefusedNotKept
  <2>3. QED  BY <2>1, <2>2
<1>4. QED
  BY <1>1, <1>2, <1>3, Unmoved, AloneStays, SentStays DEF CInv, Typed

(* What a call becomes when its host's key has been looked at.             *)
LEMMA KeyLookedAt ==
  ASSUME CInv, NEW c \in Calls, NEW stage \in {"learn", "auth"}, NEW k \in Keys,
         NEW sure \in BOOLEAN,
         call' = [call EXCEPT ![c] = [call[c] EXCEPT !.stage = stage, !.key = k, !.sure = sure]]
  PROVE  /\ call' \in [Calls -> CallRecords] /\ call' = [call EXCEPT ![c] = call'[c]]
         /\ call'[c].stage = stage /\ call'[c].todo = call[c].todo
         /\ call'[c].host = call[c].host /\ call'[c].own = call[c].own
         /\ call'[c].offer = call[c].offer /\ call'[c].trust = call[c].trust
         /\ call'[c].key = k /\ call'[c].sure = sure
<1> DEFINE now == [call[c] EXCEPT !.stage = stage, !.key = k, !.sure = sure]
<1>1. call[c] \in CallRecords
  BY DEF CInv, Typed
<1>2. /\ now \in CallRecords /\ now.stage = stage /\ now.key = k /\ now.sure = sure
      /\ now.todo = call[c].todo /\ now.host = call[c].host /\ now.own = call[c].own
      /\ now.offer = call[c].offer /\ now.trust = call[c].trust
  BY <1>1 DEF CallRecords
<1>3. call' = [call EXCEPT ![c] = now] /\ call \in [Calls -> CallRecords]
  BY DEF CInv, Typed
<1> HIDE DEF now
<1>4. QED  BY <1>2, <1>3

LEMMA KeyMatchesKeeps ==
  ASSUME ConnectAssumption, CInv, NEW c \in Calls, NEW k \in Keys, KeyMatches(c, k)
  PROVE  CInv'
<1>1. UNCHANGED <<saved, file, known, vault, sent, refused, overlapped>>
  BY DEF KeyMatches
<1>2. Sound(c) /\ Peer(c) \in Hosts /\ call[c].stage = "dial" /\ WasKnown(Peer(c), k)
  BY PeerSaved DEF KeyMatches, CInv, Sound, Underway
<1>3. /\ call' \in [Calls -> CallRecords] /\ call' = [call EXCEPT ![c] = call'[c]]
      /\ call'[c].stage = "auth" /\ call'[c].todo = call[c].todo
      /\ call'[c].host = call[c].host /\ call'[c].own = call[c].own
      /\ call'[c].offer = call[c].offer /\ call'[c].trust = call[c].trust
      /\ call'[c].key = k /\ call'[c].sure = TRUE
  <2>1. call' = [call EXCEPT ![c] = [call[c] EXCEPT !.stage = "auth", !.key = k, !.sure = TRUE]]
    BY DEF KeyMatches, CInv, Typed, CallRecords
  <2>2. QED  BY <2>1, KeyLookedAt
<1>4. OnItsWay(c)' /\ HopHasOffer(c)'
  BY <1>1, <1>2, <1>3 DEF Sound, OnItsWay, Underway, HopHasOffer, AtTarget, Peer
<1>5. Sole(Peer(c), call[c].key)'
  BY <1>1, <1>2, <1>3 DEF WasKnown, Sole, Recorded, Peer
<1>6. Sound(c)'
  BY <1>3, <1>4, <1>5 DEF Sound, KeyIsSure, KeyIsNew
<1>7. \A d \in Calls : Sound(d)'
  BY <1>1, <1>3, <1>6, Unmoved, OthersSound
<1>8. QED
  BY <1>1, <1>3, <1>7, Unmoved, AloneStays, SentStays DEF CInv, Typed, RefusedNotKept

LEMMA KeyConsentedKeeps ==
  ASSUME ConnectAssumption, CInv, NEW c \in Calls, NEW k \in Keys, KeyConsented(c, k)
  PROVE  CInv'
<1>1. UNCHANGED <<saved, file, known, vault, sent, refused>>
  BY DEF KeyConsented
<1>2. /\ Sound(c) /\ Peer(c) \in Hosts /\ call[c].stage = "dial"
      /\ Unknown(Peer(c), k) /\ call[c].trust /\ AtTarget(c)
  BY PeerSaved DEF KeyConsented, Consent, CInv, Sound, Underway
<1>3. /\ overlapped \subseteq overlapped' /\ overlapped' \subseteq Hosts
      /\ Learning(Peer(c)) # {} => Peer(c) \in overlapped'
  BY <1>2 DEF KeyConsented, CInv, Typed
<1>4. /\ call' \in [Calls -> CallRecords] /\ call' = [call EXCEPT ![c] = call'[c]]
      /\ call'[c].stage = "learn" /\ call'[c].todo = call[c].todo
      /\ call'[c].host = call[c].host /\ call'[c].own = call[c].own
      /\ call'[c].offer = call[c].offer /\ call'[c].trust = call[c].trust
      /\ call'[c].key = k
  <2> DEFINE sure == call[c].sure
  <2>1. sure \in BOOLEAN /\ call[c] \in CallRecords
    BY DEF CInv, Typed, CallRecords
  <2>2. call' = [call EXCEPT ![c] = [call[c] EXCEPT !.stage = "learn", !.key = k, !.sure = sure]]
    <3>1. call' = [call EXCEPT ![c] = [call[c] EXCEPT !.stage = "learn", !.key = k]]
      BY DEF KeyConsented, CInv, Typed
    <3>2. [call[c] EXCEPT !.stage = "learn", !.key = k]
            = [call[c] EXCEPT !.stage = "learn", !.key = k, !.sure = sure]
      BY <2>1 DEF CallRecords
    <3>3. QED  BY <3>1, <3>2
  <2> HIDE DEF sure
  <2>3. QED  BY <2>1, <2>2, KeyLookedAt
<1>5. Grows /\ Spares(c)
  BY <1>1, <1>3 DEF Grows, Spares, Sole, Fresh, Recorded
<1>6. OnItsWay(c)' /\ HopHasOffer(c)'
  BY <1>1, <1>2, <1>4 DEF Sound, OnItsWay, Underway, HopHasOffer, AtTarget, Peer
<1>7. Fresh(Peer(c), call[c].key)'
  <2>1. file = "kept" => Recorded(Peer(c), k) = {}
    BY <1>2 DEF Unknown, WasKnown, Changed
  <2>2. QED  BY <1>1, <1>4, <2>1 DEF Fresh, Recorded, Peer
<1>8. Sound(c)'
  BY <1>2, <1>4, <1>6, <1>7 DEF Sound, KeyIsSure, KeyIsNew, AtTarget
<1>9. \A d \in Calls : Sound(d)'
  BY <1>1, <1>4, <1>5, <1>8, OthersSound
<1>10. \A d \in Calls : Peer(d)' = Peer(d)
  BY <1>4 DEF Peer, CInv, Typed
<1>11. \A d \in Calls : d # c => call'[d] = call[d]
  BY <1>4 DEF CInv, Typed
<1>12. LearnAlone'
  <2> SUFFICES ASSUME NEW d \in Calls, NEW e \in Calls, d # e, call'[d].stage = "learn",
                      call'[e].stage = "learn", Peer(d) = Peer(e)
               PROVE  Peer(d) \in overlapped'
    BY <1>10 DEF LearnAlone
  <2>1. CASE d # c /\ e # c
    BY <1>3, <1>11, <2>1 DEF CInv, LearnAlone
  <2>2. CASE d = c
    BY <1>3, <1>11, <2>2 DEF Learning
  <2>3. CASE e = c
    BY <1>3, <1>11, <2>3 DEF Learning
  <2>4. QED  BY <2>1, <2>2, <2>3
<1>13. QED
  BY <1>1, <1>3, <1>4, <1>5, <1>9, <1>12, SentStays DEF CInv, Typed, RefusedNotKept

(* A line that is added is the only one of its algorithm, and touches no   *)
(* other algorithm's.                                                      *)
LEMMA LineAdded ==
  ASSUME ConnectAssumption, CInv, NEW c \in Calls, NEW k \in Keys, NEW host \in Hosts,
         call[c].stage = "learn", Peer(c) = host, Fresh(host, k), UNCHANGED <<file, overlapped>>,
         known' = IF file = "kept" THEN [known EXCEPT ![host] = @ \cup {k}] ELSE known
  PROVE  Grows /\ Spares(c) /\ Sole(host, k)'
<1>1. ASSUME NEW h \in Hosts, NEW j \in Keys
      PROVE  /\ h # host \/ file # "kept" => Recorded(h, j)' = Recorded(h, j)
             /\ file = "kept" /\ Algorithm[j] # Algorithm[k]
                  => Recorded(h, j)' = Recorded(h, j)
             /\ file = "kept" /\ Algorithm[j] = Algorithm[k]
                  => Recorded(host, j)' = Recorded(host, k) \cup {k}
             /\ Algorithm[j] = Algorithm[k] => Recorded(host, j) = Recorded(host, k)
  BY DEF Recorded, CInv, Typed
<1>2. Sole(host, k)'
  BY <1>1 DEF Sole, Fresh
<1>3. ASSUME NEW h \in Hosts, NEW j \in Keys, Sole(h, j) PROVE Sole(h, j)'
  <2>1. CASE h # host \/ file # "kept" \/ Algorithm[j] # Algorithm[k]
    BY <1>1, <1>3, <2>1 DEF Sole
  <2>2. CASE h = host /\ file = "kept" /\ Algorithm[j] = Algorithm[k]
    BY <1>1, <1>3, <2>2 DEF Sole, Fresh
  <2>3. QED  BY <2>1, <2>2
<1>4. ASSUME NEW d \in Calls, NEW h \in Hosts, NEW j \in Keys, d # c,
             call[d].stage = "learn", Peer(d) = h, Fresh(h, j)
      PROVE  Fresh(h, j)'
  <2>1. CASE h = host
    BY <1>4, <2>1 DEF Fresh, CInv, LearnAlone
  <2>2. CASE h # host
    BY <1>1, <1>4, <2>2 DEF Fresh
  <2>3. QED  BY <2>1, <2>2
<1>5. QED  BY <1>2, <1>3, <1>4 DEF Grows, Spares

LEMMA KeyLearnedKeeps ==
  ASSUME ConnectAssumption, CInv, NEW c \in Calls, KeyLearned(c),
         NEW h \in Hosts, h = Peer(c), NEW k \in Keys, k = call[c].key
  PROVE  CInv'
<1>1. UNCHANGED <<saved, file, vault, sent, refused, overlapped>> /\ call[c].stage = "learn"
  BY DEF KeyLearned
<1>2. /\ Sound(c) /\ Peer(c) \in Hosts /\ k \in Keys /\ call[c].trust /\ AtTarget(c)
      /\ Fresh(Peer(c), k)
  BY <1>1, PeerSaved DEF CInv, Sound, Underway, KeyIsNew
<1>3. /\ known' = (IF file = "kept" THEN [known EXCEPT ![h] = @ \cup {k}] ELSE known)
      /\ known' \in [Hosts -> SUBSET Keys]
  BY <1>2 DEF KeyLearned, CInv, Typed
<1>4. /\ call' \in [Calls -> CallRecords] /\ call' = [call EXCEPT ![c] = call'[c]]
      /\ call'[c].stage = "auth" /\ call'[c].todo = call[c].todo
      /\ call'[c].host = call[c].host /\ call'[c].own = call[c].own
      /\ call'[c].offer = call[c].offer /\ call'[c].trust = call[c].trust
      /\ call'[c].key = k
  <2> DEFINE now == [call[c] EXCEPT !.stage = "auth"]
  <2>1. call[c] \in CallRecords
    BY DEF CInv, Typed
  <2>2. /\ now \in CallRecords /\ now.stage = "auth" /\ now.key = call[c].key
        /\ now.todo = call[c].todo /\ now.host = call[c].host /\ now.own = call[c].own
        /\ now.offer = call[c].offer /\ now.trust = call[c].trust
    BY <2>1 DEF CallRecords
  <2>3. call' = [call EXCEPT ![c] = now] /\ call \in [Calls -> CallRecords]
    BY DEF KeyLearned, CInv, Typed
  <2> HIDE DEF now
  <2>4. QED  BY <2>2, <2>3
<1>5. Fresh(h, k)
  BY <1>2
<1>6. Grows /\ Spares(c) /\ Sole(h, k)'
  BY <1>1, <1>3, <1>5, LineAdded
<1>7. OnItsWay(c)' /\ HopHasOffer(c)'
  BY <1>1, <1>2, <1>4 DEF Sound, OnItsWay, Underway, HopHasOffer, AtTarget, Peer
<1>8. Sole(Peer(c), call[c].key)'
  <2>1. Peer(c)' = Peer(c) /\ call'[c].key = k
    BY <1>4 DEF Peer
  <2>2. QED  BY <1>6, <2>1 DEF Sole
<1>9. Sound(c)'
  BY <1>2, <1>4, <1>7, <1>8 DEF Sound, KeyIsSure, KeyIsNew, AtTarget
<1>10. \A d \in Calls : Sound(d)'
  BY <1>1, <1>4, <1>6, <1>9, OthersSound
<1>11. QED
  BY <1>1, <1>3, <1>4, <1>6, <1>10, AloneStays, SentStays DEF CInv, Typed, RefusedNotKept

-----------------------------------------------------------------------------
(* What is sent goes to a key that is sure.                                *)
LEMMA SendRight ==
  ASSUME ConnectAssumption, CInv, NEW c \in Calls, call[c].stage = "auth", Send(c),
         UNCHANGED <<file, known, overlapped>>
  PROVE  SentRight'
<1>1. Peer(c) \in Hosts /\ (AtTarget(c) => Peer(c) = call[c].host)
  BY PeerSaved DEF CInv, Sound, Underway
<1>2. KeyIsSure(c)
  BY DEF CInv, Sound
<1>3. call[c].sure \/ (call[c].trust /\ Peer(c) = call[c].host)
  BY <1>1, <1>2 DEF KeyIsSure
<1> DEFINE allowed == call[c].sure \/ (call[c].trust /\ Peer(c) = call[c].host)
           now == [host |-> Peer(c), key |-> call[c].key, allowed |-> allowed]
<1>4. /\ sent' \subseteq sent \cup {now}
      /\ now.host = Peer(c) /\ now.key = call[c].key /\ now.allowed = allowed
  BY DEF Send
<1>5. allowed
  BY <1>3
<1> HIDE DEF allowed, now
<1>6. now.host \in Hosts /\ now.key \in Keys /\ now.allowed /\ Sole(now.host, now.key)
  BY <1>1, <1>2, <1>4, <1>5 DEF KeyIsSure
<1>7. \A h \in Hosts, k \in Keys : Sole(h, k) => Sole(h, k)'
  BY Unmoved DEF Grows
<1>8. QED
  BY <1>4, <1>6, <1>7 DEF CInv, SentRight

(* What a server is asked about is a password.                             *)
LEMMA SecretIsPassword ==
  ASSUME ConnectAssumption, CInv, NEW c \in Calls, call[c].stage = "auth",
         saved[Peer(c)].method = "password"
  PROVE  Secret(c) \in Passwords
<1>1. Sound(c) /\ (AtTarget(c) => Peer(c) = call[c].host)
  BY PeerSaved DEF CInv, Sound, Underway
<1>2. QED
  BY <1>1 DEF Sound, OnItsWay, Underway, HopHasOffer, Secret

LEMMA AcceptedKeeps ==
  ASSUME ConnectAssumption, CInv, NEW c \in Calls, Accepted(c) PROVE CInv'
<1>1. /\ UNCHANGED <<saved, file, known, overlapped>> /\ call[c].stage = "auth"
      /\ Send(c) /\ Note(c, TRUE)
  BY DEF Accepted
<1>2. Sound(c) /\ Peer(c) \in Hosts /\ (AtTarget(c) => Peer(c) = call[c].host)
  BY <1>1, PeerSaved DEF CInv, Sound, Underway
<1>3. Tail(call[c].todo) \in Seq(Hosts)
  <2>1. call[c].todo \in Seq(Hosts) /\ call[c].todo # <<>>
    BY <1>1, <1>2 DEF CInv, Typed, CallRecords, Sound, OnItsWay, Underway
  <2>2. QED  BY <2>1
<1>4. /\ call' \in [Calls -> CallRecords] /\ call' = [call EXCEPT ![c] = call'[c]]
      /\ call'[c].stage # "learn"
      /\ call'[c].stage = IF AtTarget(c) THEN "account" ELSE "chain"
      /\ call'[c].todo = Tail(call[c].todo)
      /\ call'[c].host = call[c].host /\ call'[c].own = call[c].own
  <2> DEFINE stage == IF AtTarget(c) THEN "account" ELSE "chain"
  <2> DEFINE now == [call[c] EXCEPT !.stage = stage, !.todo = Tail(call[c].todo),
                                    !.offer = NoPassword, !.key = NoKey, !.sure = FALSE]
  <2>1. stage \in {"account", "chain"}
    OBVIOUS
  <2>2. call[c] \in CallRecords
    BY DEF CInv, Typed
  <2>3. call' = [call EXCEPT ![c] = now] /\ call \in [Calls -> CallRecords]
    BY <2>2 DEF Accepted, CInv, Typed, CallRecords
  <2> HIDE DEF stage
  <2>4. /\ now \in CallRecords /\ now.stage = stage /\ now.todo = Tail(call[c].todo)
        /\ now.host = call[c].host /\ now.own = call[c].own
    BY <1>3, <2>1, <2>2 DEF CallRecords
  <2> HIDE DEF now
  <2>5. QED  BY <2>3, <2>4 DEF stage
<1>5. Sound(c)'
  <2>1. CASE AtTarget(c)
    BY <1>4, <2>1 DEF Sound, OnItsWay, Underway, HopHasOffer, KeyIsSure, KeyIsNew
  <2>2. CASE ~AtTarget(c)
    <3>1. /\ Tail(call[c].todo) \in Seq(DOMAIN saved) /\ Len(Tail(call[c].todo)) >= 1
          /\ Tail(call[c].todo)[Len(Tail(call[c].todo))] = call[c].host
      BY <1>1, <1>2, <2>2, LastOfTail DEF Sound, OnItsWay, Underway, AtTarget
    <3>2. QED
      BY <1>1, <1>2, <1>4, <2>2, <3>1
         DEF Sound, OnItsWay, Underway, HopHasOffer, KeyIsSure, KeyIsNew
  <2>3. QED  BY <2>1, <2>2
<1>6. \A d \in Calls : Sound(d)'
  BY <1>1, <1>4, <1>5, Unmoved, OthersSound
<1>7. refused' \subseteq refused
  BY <1>1 DEF Note
<1>8. RefusedNotKept' /\ vault' \in [Hosts -> Passwords \cup {NoPassword}]
  <2>1. CASE AtTarget(c) /\ call[c].remember /\ saved[call[c].host].method = "password"
    <3>1. saved[Peer(c)].method = "password" /\ Secret(c) \in Passwords
      BY <1>1, <1>2, <2>1, SecretIsPassword
    <3>2. vault' = [vault EXCEPT ![Peer(c)] = Secret(c)]
      BY <1>2, <2>1 DEF Accepted, Remember
    <3>3. <<Peer(c), Secret(c), "target">> \notin refused'
      BY <1>1, <3>1 DEF Note
    <3>4. QED
      BY <1>2, <1>7, <3>1, <3>2, <3>3 DEF CInv, Typed, RefusedNotKept
  <2>2. CASE ~(AtTarget(c) /\ call[c].remember /\ saved[call[c].host].method = "password")
    BY <1>7, <2>2 DEF Accepted, CInv, Typed, RefusedNotKept
  <2>3. QED  BY <2>1, <2>2
<1>9. QED
  BY <1>1, <1>4, <1>6, <1>7, <1>8, AloneStays, SendRight DEF CInv, Typed

LEMMA RejectedKeeps ==
  ASSUME ConnectAssumption, CInv, NEW c \in Calls, Rejected(c) PROVE CInv'
<1>1. /\ UNCHANGED <<saved, file, known, overlapped>> /\ call[c].stage = "auth"
      /\ Send(c) /\ Note(c, FALSE) /\ Fail(c)
  BY DEF Rejected
<1>2. Peer(c) \in Hosts /\ (AtTarget(c) => Peer(c) = call[c].host)
  BY <1>1, PeerSaved DEF CInv, Sound, Underway
<1>3. /\ Sound(c)' /\ call' = [call EXCEPT ![c] = call'[c]]
      /\ call' \in [Calls -> CallRecords] /\ call'[c].stage # "learn"
  BY <1>1, IdleSound DEF Fail
<1>4. \A d \in Calls : Sound(d)'
  BY <1>1, <1>3, Unmoved, OthersSound
<1>5. refused' \subseteq Hosts \X Passwords \X {"target", "hop"}
  <2>1. CASE saved[Peer(c)].method = "password"
    <3>1. Secret(c) \in Passwords
      BY <1>1, <2>1, SecretIsPassword
    <3>2. QED  BY <1>1, <1>2, <2>1, <3>1 DEF Note, CInv, Typed
  <2>2. CASE saved[Peer(c)].method # "password"
    BY <1>1, <2>2 DEF Note, CInv, Typed
  <2>3. QED  BY <2>1, <2>2
<1>6. \A h \in Hosts, p \in Passwords :
        <<h, p, "target">> \in refused' /\ <<h, p, "target">> \notin refused
          => h = call[c].host /\ Drops(c)
  BY <1>1, <1>2 DEF Note, Drops
<1>7. RefusedNotKept' /\ vault' \in [Hosts -> Passwords \cup {NoPassword}]
  BY <1>1, <1>5, <1>6, DroppedNotRefused
<1>8. QED
  BY <1>1, <1>3, <1>4, <1>5, <1>7, AloneStays, SendRight DEF CInv, Typed

-----------------------------------------------------------------------------
LEMMA RestKept ==
  ASSUME CInv, UNCHANGED <<saved, file, known, call, sent, overlapped>>
  PROVE  (\A c \in Calls : Sound(c)') /\ LearnAlone' /\ SentRight'
BY DEF CInv, Sound, OnItsWay, Underway, HopHasOffer, KeyIsSure, KeyIsNew, Sole, Fresh, Recorded,
       AtTarget, Peer, LearnAlone, SentRight

LEMMA StepKeepsCInv == ASSUME ConnectAssumption, CInv, [Next]_vars PROVE CInv'
<1>1. ASSUME NEW c \in Calls, NEW h \in Hosts, NEW typed \in Passwords \cup {NoPassword},
             NEW remember \in BOOLEAN, NEW trust \in BOOLEAN,
             Connect(c, h, typed, remember, trust)
      PROVE  CInv'
  BY <1>1, ConnectKeeps
<1>2. ASSUME NEW c \in Calls, NextHop(c) PROVE CInv'
  BY <1>2, NextHopKeeps
<1>3. ASSUME NEW c \in Calls,
             HopWithout(c) \/ DialFails(c) \/ NothingToSend(c) \/ Return(c)
      PROVE  CInv'
  BY <1>3, EndKeeps DEF HopWithout, DialFails, NothingToSend, Return
<1>4. ASSUME NEW c \in Calls, NEW k \in Keys, KeyRefused(c, k) PROVE CInv'
  BY <1>4, EndKeeps DEF KeyRefused
<1>5. ASSUME NEW c \in Calls,
             KeyLearned(c) \/ \E k \in Keys : KeyMatches(c, k) \/ KeyConsented(c, k)
      PROVE  CInv'
  <2>1. CASE KeyLearned(c)
    <3>1. Peer(c) \in Hosts /\ call[c].key \in Keys
      BY <2>1, PeerSaved DEF KeyLearned, CInv, Sound, Underway, KeyIsNew
    <3>2. QED  BY <2>1, <3>1, KeyLearnedKeeps
  <2>2. QED  BY <1>5, <2>1, KeyMatchesKeeps, KeyConsentedKeeps
<1>6. ASSUME NEW c \in Calls, Accepted(c) PROVE CInv'
  BY <1>6, AcceptedKeeps
<1>7. ASSUME NEW c \in Calls, Rejected(c) PROVE CInv'
  BY <1>7, RejectedKeeps
<1>8. ASSUME NEW h \in Hosts, ForgetPassword(h) PROVE CInv'
  <2>1. /\ UNCHANGED <<saved, file, known, call, sent, refused, overlapped>>
        /\ vault' = [vault EXCEPT ![h] = NoPassword]
    BY <1>8 DEF ForgetPassword, Forget
  <2>2. Typed' /\ RefusedNotKept'
    BY <2>1 DEF CInv, Typed, RefusedNotKept, ConnectAssumption
  <2>3. QED  BY <2>1, <2>2, RestKept DEF CInv
<1>9. ASSUME NEW h \in Hosts, NEW p \in Passwords, ChangePassword(h, p) PROVE CInv'
  <2>1. UNCHANGED <<saved, file, known, vault, call, sent, overlapped>> /\ refused' \subseteq refused
    BY <1>9 DEF ChangePassword
  <2>2. QED  BY <2>1, RestKept DEF CInv, Typed, RefusedNotKept
<1>10. CASE UNCHANGED vars
  <2>1. UNCHANGED <<saved, file, known, vault, call, sent, refused, overlapped>>
    BY <1>10 DEF vars
  <2>2. QED  BY <2>1, RestKept DEF CInv, Typed, RefusedNotKept
<1>11. QED
  BY <1>1, <1>2, <1>3, <1>4, <1>5, <1>6, <1>7, <1>8, <1>9, <1>10 DEF Next

-----------------------------------------------------------------------------
(* What CInv leaves out of the types.                                      *)
Outline ==
  /\ file \in {"kept", "unreadable"}
  /\ accepts \in [Hosts -> Passwords] /\ changes \in 0 .. MaxChanges
  /\ sent \subseteq [host : Hosts, key : Keys, allowed : BOOLEAN]
  /\ \A c \in Calls : call[c].stage # "idle" => call[c].host \in Hosts

LEMMA TypesFollow == ASSUME ConnectAssumption, CInv, Outline PROVE TypeOK
<1>1. DOMAIN saved \subseteq Hosts /\ saved \in [DOMAIN saved -> Records]
  BY DEF CInv, Typed, ConnectAssumption
<1>2. ASSUME NEW c \in Calls
      PROVE  /\ call[c].stage \in {"idle", "chain", "dial", "learn", "auth", "account"}
             /\ call[c].stage \in {"chain", "dial", "learn", "auth"} => call[c].todo # <<>>
  <2>1. call[c].stage \in {"idle", "chain", "dial", "learn", "auth", "account"}
    BY DEF CInv, Typed, CallRecords
  <2>2. ASSUME call[c].stage \in {"chain", "dial", "learn", "auth"}, call[c].todo = <<>> PROVE FALSE
    <3>1. Len(call[c].todo) >= 1
      BY <2>2 DEF CInv, Sound, OnItsWay, Underway
    <3>2. Len(<<>>) = 0
      BY EmptySeq
    <3>3. QED  BY <2>2, <3>1, <3>2
  <2>3. QED  BY <2>1, <2>2
<1>3. QED  BY <1>1, <1>2 DEF TypeOK, Outline, CInv, Typed

LEMMA SendOutlined ==
  ASSUME ConnectAssumption, CInv, Outline, NEW c \in Calls, call[c].stage = "auth", Send(c)
  PROVE  sent' \subseteq [host : Hosts, key : Keys, allowed : BOOLEAN]
<1>1. Peer(c) \in Hosts /\ call[c].key \in Keys
  BY PeerSaved DEF CInv, Sound, Underway, KeyIsSure
<1> DEFINE allowed == call[c].sure \/ (call[c].trust /\ Peer(c) = call[c].host)
<1>2. allowed \in BOOLEAN
  OBVIOUS
<1>3. sent' \subseteq sent \cup {[host |-> Peer(c), key |-> call[c].key, allowed |-> allowed]}
  BY DEF Send
<1> HIDE DEF allowed
<1>4. QED  BY <1>1, <1>2, <1>3 DEF Outline

LEMMA StepKeepsOutline ==
  ASSUME ConnectAssumption, CInv, Outline, [Next]_vars PROVE Outline'
<1>1. ASSUME UNCHANGED <<file, accepts, changes>>,
             sent' \subseteq [host : Hosts, key : Keys, allowed : BOOLEAN],
             NEW c \in Calls, call' = [call EXCEPT ![c] = call'[c]],
             call'[c].stage # "idle" => call'[c].host \in Hosts
      PROVE  Outline'
  <2>1. ASSUME NEW d \in Calls, call'[d].stage # "idle" PROVE call'[d].host \in Hosts
    <3>1. CASE d = c
      BY <1>1, <2>1, <3>1
    <3>2. CASE d # c
      <4>1. call'[d] = call[d]
        BY <1>1, <3>2 DEF CInv, Typed
      <4>2. QED  BY <2>1, <4>1 DEF Outline
    <3>3. QED  BY <3>1, <3>2
  <2>2. QED  BY <1>1, <2>1 DEF Outline
<1>2. ASSUME UNCHANGED <<file, accepts, changes>>,
             sent' \subseteq [host : Hosts, key : Keys, allowed : BOOLEAN],
             NEW c \in Calls, call' = [call EXCEPT ![c] = Idle]
      PROVE  Outline'
  <2>1. call'[c] = Idle /\ Idle.stage = "idle"
    BY <1>2 DEF CInv, Typed, Idle
  <2>2. QED  BY <1>1, <1>2, <2>1
<1>3. ASSUME NEW c \in Calls, NEW h \in Hosts, NEW typed \in Passwords \cup {NoPassword},
             NEW remember \in BOOLEAN, NEW trust \in BOOLEAN,
             Connect(c, h, typed, remember, trust)
      PROVE  Outline'
  <2>1. call' = [call EXCEPT ![c] = call'[c]] /\ call'[c].host = h
    BY <1>3 DEF Connect, CInv, Typed
  <2>2. UNCHANGED <<file, accepts, changes, sent>>
    BY <1>3 DEF Connect
  <2>3. QED  BY <1>1, <2>1, <2>2 DEF Outline
<1>4. ASSUME NEW c \in Calls,
             \/ NextHop(c) \/ KeyLearned(c)
             \/ \E k \in Keys : KeyMatches(c, k) \/ KeyConsented(c, k)
      PROVE  Outline'
  <2>1. call[c] \in CallRecords /\ call \in [Calls -> CallRecords] /\ call[c].stage # "idle"
    BY <1>4 DEF NextHop, KeyLearned, KeyMatches, KeyConsented, CInv, Typed
  <2>2. ASSUME NEW s, NEW o, call' = [call EXCEPT ![c].stage = s, ![c].offer = o]
        PROVE  call' = [call EXCEPT ![c] = call'[c]] /\ call'[c].host = call[c].host
    <3> DEFINE now == [call[c] EXCEPT !.stage = s, !.offer = o]
    <3>1. now.host = call[c].host
      BY <2>1 DEF CallRecords
    <3>2. call' = [call EXCEPT ![c] = now]
      BY <2>2
    <3> HIDE DEF now
    <3>3. QED  BY <2>1, <3>1, <3>2
  <2>3. ASSUME NEW now, now.host = call[c].host, call' = [call EXCEPT ![c] = now]
        PROVE  call' = [call EXCEPT ![c] = call'[c]] /\ call'[c].host = call[c].host
    BY <2>1, <2>3
  <2>4. UNCHANGED <<file, accepts, changes, sent>>
    BY <1>4 DEF NextHop, KeyLearned, KeyMatches, KeyConsented
  <2>5. call' = [call EXCEPT ![c] = call'[c]] /\ call'[c].host = call[c].host
    <3>1. CASE NextHop(c)
      BY <2>2, <3>1 DEF NextHop
    <3>2. CASE KeyLearned(c)
      <4> DEFINE now == [call[c] EXCEPT !.stage = "auth"]
      <4>1. now.host = call[c].host
        BY <2>1 DEF CallRecords
      <4>2. call' = [call EXCEPT ![c] = now]
        BY <2>1, <3>2 DEF KeyLearned
      <4> HIDE DEF now
      <4>3. QED  BY <2>3, <4>1, <4>2
    <3>3. ASSUME NEW k \in Keys, KeyMatches(c, k)
          PROVE  call' = [call EXCEPT ![c] = call'[c]] /\ call'[c].host = call[c].host
      <4> DEFINE now == [call[c] EXCEPT !.stage = "auth", !.key = k, !.sure = TRUE]
      <4>1. now.host = call[c].host
        BY <2>1 DEF CallRecords
      <4>2. call' = [call EXCEPT ![c] = now]
        BY <2>1, <3>3 DEF KeyMatches
      <4> HIDE DEF now
      <4>3. QED  BY <2>3, <4>1, <4>2
    <3>4. ASSUME NEW k \in Keys, KeyConsented(c, k)
          PROVE  call' = [call EXCEPT ![c] = call'[c]] /\ call'[c].host = call[c].host
      <4> DEFINE now == [call[c] EXCEPT !.stage = "learn", !.key = k]
      <4>1. now.host = call[c].host
        BY <2>1 DEF CallRecords
      <4>2. call' = [call EXCEPT ![c] = now]
        BY <2>1, <3>4 DEF KeyConsented
      <4> HIDE DEF now
      <4>3. QED  BY <2>3, <4>1, <4>2
    <3>5. QED  BY <1>4, <3>1, <3>2, <3>3, <3>4
  <2>6. QED  BY <1>1, <2>1, <2>4, <2>5 DEF Outline
<1>5. ASSUME NEW c \in Calls,
             \/ HopWithout(c) \/ DialFails(c) \/ NothingToSend(c) \/ Return(c)
             \/ \E k \in Keys : KeyRefused(c, k)
      PROVE  Outline'
  <2>1. /\ call' = [call EXCEPT ![c] = Idle]
        /\ UNCHANGED <<file, accepts, changes, sent>>
    BY <1>5 DEF HopWithout, DialFails, NothingToSend, Return, KeyRefused, Fail
  <2>2. QED  BY <1>2, <2>1 DEF Outline
<1>6. ASSUME NEW c \in Calls, Accepted(c) PROVE Outline'
  <2>1. /\ call' = [call EXCEPT ![c] = call'[c]] /\ call'[c].host = call[c].host
        /\ call[c].stage = "auth"
    BY <1>6 DEF Accepted, CInv, Typed, CallRecords
  <2>2. UNCHANGED <<file, accepts, changes>> /\ Send(c)
    BY <1>6 DEF Accepted
  <2>3. call'[c].host \in Hosts
    BY <2>1 DEF Outline
  <2>4. sent' \subseteq [host : Hosts, key : Keys, allowed : BOOLEAN]
    BY <2>1, <2>2, SendOutlined
  <2>5. QED  BY <1>1, <2>1, <2>2, <2>3, <2>4
<1>7. ASSUME NEW c \in Calls, Rejected(c) PROVE Outline'
  <2>1. call' = [call EXCEPT ![c] = Idle] /\ call[c].stage = "auth"
    BY <1>7 DEF Rejected, Fail
  <2>2. UNCHANGED <<file, accepts, changes>> /\ Send(c)
    BY <1>7 DEF Rejected
  <2>3. sent' \subseteq [host : Hosts, key : Keys, allowed : BOOLEAN]
    BY <2>1, <2>2, SendOutlined
  <2>4. QED  BY <1>2, <2>1, <2>2, <2>3
<1>8. ASSUME NEW h \in Hosts, ForgetPassword(h) PROVE Outline'
  BY <1>8 DEF ForgetPassword, Outline
<1>9. ASSUME NEW h \in Hosts, NEW p \in Passwords, ChangePassword(h, p) PROVE Outline'
  BY <1>9 DEF ChangePassword, Outline, ConnectAssumption
<1>10. CASE UNCHANGED vars
  BY <1>10 DEF vars, Outline
<1>11. QED
  BY <1>3, <1>4, <1>5, <1>6, <1>7, <1>8, <1>9, <1>10 DEF Next

LEMMA InitOutline == ASSUME ConnectAssumption, Init PROVE Outline
BY DEF Init, Outline, Idle, ConnectAssumption

-----------------------------------------------------------------------------
(* Every call under way goes through saved hosts to its own, and has a key *)
(* that is sure before it sends anything.                                  *)
THEOREM ConnectInductive == ASSUME ConnectAssumption PROVE Spec => []CInv
<1>1. Init => CInv  BY InitCInv
<1>2. CInv /\ [Next]_vars => CInv'  BY StepKeepsCInv
<1>3. QED  BY <1>1, <1>2, PTL DEF Spec

(* Every variable keeps its type, and a call that has been anywhere has    *)
(* somewhere left to go until it is through (connect_host).                *)
THEOREM ConnectTypes == ASSUME ConnectAssumption PROVE Spec => []TypeOK
<1>1. Init => CInv /\ Outline  BY InitCInv, InitOutline
<1>2. CInv /\ Outline /\ [Next]_vars => (CInv /\ Outline)'
  BY StepKeepsCInv, StepKeepsOutline
<1>3. CInv /\ Outline => TypeOK  BY TypesFollow
<1>4. QED  BY <1>1, <1>2, <1>3, PTL DEF Spec

(* No credential leaves the machine for a key that was neither known nor   *)
(* consented to for that very host, and no host is sent anything under two *)
(* keys of one algorithm but by calls that consented to them at once, for  *)
(* any chain of jump hosts and any number of calls at once                 *)
(* (check_server_key, open_jump_chain, connect_host).                      *)
THEOREM NothingSentToStrangers == ASSUME ConnectAssumption PROVE Spec => []KeyBeforeCredential
<1>1. CInv => KeyBeforeCredential  BY DEF CInv, SentRight, Sole, KeyBeforeCredential
<1>2. QED  BY <1>1, ConnectInductive, PTL

(* A password its server has refused at the end of a chain is not kept,    *)
(* whatever other calls remember meanwhile (connect_host, SecretVault).    *)
THEOREM RefusedIsForgotten == ASSUME ConnectAssumption PROVE Spec => []RefusedNotKept
<1>1. CInv => RefusedNotKept  BY DEF CInv
<1>2. QED  BY <1>1, ConnectInductive, PTL
=============================================================================
