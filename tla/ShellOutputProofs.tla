-------------------------- MODULE ShellOutputProofs --------------------------
(***************************************************************************)
(* Proofs about ShellOutput, for any bytes, programs and exit codes.       *)
(*                                                                         *)
(* The idea: decoding a part of a text and then the rest, with what was    *)
(* left pending before it, gives the same characters as decoding all of    *)
(* it, because what a text begins with does not change when more comes     *)
(* after it, unless it is a character cut off.  So however the bytes are   *)
(* cut, what was decoded and what is pending and unread make the text of   *)
(* what was written; and a message that is taken from one place is put     *)
(* into the next.                                                          *)
(*                                                                         *)
(* Lossy, Valid and Carried are recursive functions; that there are such   *)
(* functions is shown by the lemmas of Recursion.                          *)
(***************************************************************************)
EXTENDS ShellOutput, Recursion, TLAPS, SequenceTheorems

-----------------------------------------------------------------------------
(* What a text begins with.                                                *)
LEMMA WidthIs == \A b : Width(b) \in Nat
BY DEF Width

LEMMA FitsIs ==
  ASSUME NEW s \in Seq(Bytes)
  PROVE  /\ Fits(s) \in 0 .. Len(s) /\ Begins(s, Fits(s))
         /\ \A k \in Fits(s) + 1 .. Len(s) : ~Begins(s, k)
<1> DEFINE T == {Len(s) - k : k \in {n \in 0 .. Len(s) : Begins(s, n)}}
<1>1. Len(s) \in Nat /\ Begins(s, 0)
  BY DEF Begins
<1>2. T \subseteq Nat /\ Len(s) - 0 \in T
  BY <1>1
<1>3. PICK m \in T : \A n \in T : m <= n
  BY <1>2, Least
<1>4. PICK n \in 0 .. Len(s) : Begins(s, n) /\ m = Len(s) - n
  OBVIOUS
<1>5. ASSUME NEW k \in n + 1 .. Len(s) PROVE ~Begins(s, k)
  <2>1. SUFFICES ASSUME Begins(s, k) PROVE FALSE
    OBVIOUS
  <2>2. Len(s) - k \in T /\ Len(s) - k < m
    BY <1>1, <1>4, <2>1
  <2>3. Len(s) - k \in Int /\ m \in Int
    BY <1>1, <1>4
  <2> HIDE DEF T
  <2>4. m <= Len(s) - k
    BY <1>3, <2>2
  <2>5. QED  BY <2>2, <2>3, <2>4
<1>6. QED  BY <1>4, <1>5 DEF Fits

LEMMA FitsOnly ==
  ASSUME NEW s \in Seq(Bytes), NEW n \in 0 .. Len(s), Begins(s, n),
         \A k \in n + 1 .. Len(s) : ~Begins(s, k)
  PROVE  Fits(s) = n
<1>1. /\ Fits(s) \in 0 .. Len(s) /\ Begins(s, Fits(s))
      /\ \A k \in Fits(s) + 1 .. Len(s) : ~Begins(s, k)
  BY FitsIs
<1>2. Len(s) \in Nat
  OBVIOUS
<1>3. ~(Fits(s) < n) /\ ~(n < Fits(s))
  BY <1>1, <1>2
<1>4. QED  BY <1>1, <1>2, <1>3

LEMMA BeginsLess ==
  ASSUME NEW s, NEW n \in Nat, NEW k \in 0 .. n, Begins(s, n) PROVE Begins(s, k)
BY WidthIs DEF Begins

(* How much of a text that does not end in a character cut off is taken.   *)
LEMMA RestIs ==
  ASSUME NEW s \in Seq(Bytes), s # <<>>
  PROVE  \E m \in 1 .. Len(s) :
           /\ m = IF Fits(s) = 0 THEN 1 ELSE Fits(s)
           /\ Rest(s) = SubSeq(s, m + 1, Len(s))
           /\ Rest(s) \in Seq(Bytes) /\ Len(Rest(s)) = Len(s) - m
           /\ \A i \in 1 .. Len(s) - m : Rest(s)[i] = s[m + i]
<1> DEFINE m == IF Fits(s) = 0 THEN 1 ELSE Fits(s)
<1>1. Len(s) \in Nat \ {0} /\ Fits(s) \in 0 .. Len(s)
  BY FitsIs, EmptySeq
<1>2. m \in 1 .. Len(s) /\ m + 1 \in Int /\ Len(s) \in Int
  BY <1>1
<1> HIDE DEF m
<1>3. Rest(s) = SubSeq(s, m + 1, Len(s))
  BY DEF Rest, m
<1>4. \A i \in m + 1 .. Len(s) : s[i] \in Bytes
  BY <1>2, ElementOfSeq
<1>5. /\ Rest(s) \in Seq(Bytes) /\ Len(Rest(s)) = Len(s) - m
      /\ \A i \in 1 .. Len(s) - (m + 1) + 1 : Rest(s)[i] = s[m + 1 + i - 1]
  BY <1>2, <1>3, <1>4, SubSeqProperties
<1>6. \A i \in 1 .. Len(s) - m : Rest(s)[i] = s[m + i]
  BY <1>2, <1>5
<1>7. QED  BY <1>2, <1>3, <1>5, <1>6 DEF m

(* What comes later changes nothing of what a text begins with, unless it  *)
(* is a character cut off.                                                 *)
LEMMA BeginsSame ==
  ASSUME NEW s \in Seq(Bytes), s # <<>>, ~Cut(s), NEW t \in Seq(Bytes)
  PROVE  /\ s \o t \in Seq(Bytes) /\ s \o t # <<>> /\ (s \o t)[1] = s[1]
         /\ Fits(s \o t) = Fits(s) /\ (IsWhole(s \o t) <=> IsWhole(s)) /\ ~Cut(s \o t)
<1> DEFINE u == s \o t  f == Fits(s)
<1>1. /\ u \in Seq(Bytes) /\ Len(u) = Len(s) + Len(t)
      /\ \A i \in 1 .. Len(s) : u[i] = s[i]
      /\ Len(s) \in Nat \ {0} /\ Len(t) \in Nat
  BY ConcatProperties, EmptySeq
<1>2. f \in 0 .. Len(s) /\ Begins(s, f) /\ \A k \in f + 1 .. Len(s) : ~Begins(s, k)
  BY FitsIs
<1>3. u # <<>> /\ u[1] = s[1]
  BY <1>1, EmptySeq
<1> HIDE DEF u, f
<1>4. \A k \in 0 .. Len(s) : Begins(u, k) <=> Begins(s, k)
  <2>1. ASSUME NEW k \in 0 .. Len(s) PROVE \A i \in 2 .. k : u[i] = s[i]
    BY <1>1
  <2>2. ASSUME NEW k \in 0 .. Len(s) PROVE Begins(u, k) <=> Begins(s, k)
    BY <1>3, <2>1 DEF Begins
  <2>3. QED  BY <2>2
<1>5. ASSUME NEW k \in f + 1 .. Len(u) PROVE ~Begins(u, k)
  <2>1. SUFFICES ASSUME Begins(u, k) PROVE FALSE
    OBVIOUS
  <2>2. k \in Nat /\ f + 1 \in 0 .. k
    BY <1>1, <1>2
  <2>3. Begins(u, f + 1)
    BY <2>1, <2>2, BeginsLess
  <2>4. CASE f < Len(s)
    BY <1>1, <1>2, <1>4, <2>3, <2>4
  <2>5. CASE f = Len(s)
    <3>1. f = Width(s[1])
      BY <1>1, <2>5 DEF Cut, IsWhole, f
    <3>2. QED  BY <1>2, <1>3, <2>3, <3>1 DEF Begins
  <2>6. QED  BY <1>1, <1>2, <2>4, <2>5
<1>6. Fits(u) = f
  BY <1>1, <1>2, <1>4, <1>5, FitsOnly
<1>7. IsWhole(u) <=> IsWhole(s)
  BY <1>3, <1>6 DEF IsWhole, f
<1>8. ~Cut(u)
  BY <1>1, <1>2, <1>6, <1>7 DEF Cut, f
<1>9. QED  BY <1>1, <1>3, <1>6, <1>7, <1>8 DEF u, f

LEMMA RestSame ==
  ASSUME NEW s \in Seq(Bytes), s # <<>>, ~Cut(s), NEW t \in Seq(Bytes)
  PROVE  First(s \o t) = First(s) /\ Rest(s \o t) = Rest(s) \o t
<1> DEFINE u == s \o t
<1>1. /\ u \in Seq(Bytes) /\ u # <<>> /\ Fits(u) = Fits(s) /\ (IsWhole(u) <=> IsWhole(s))
  BY BeginsSame
<1>2. /\ Len(u) = Len(s) + Len(t) /\ Len(s) \in Nat /\ Len(t) \in Nat
      /\ \A i \in 1 .. Len(s) + Len(t) : u[i] = IF i <= Len(s) THEN s[i] ELSE t[i - Len(s)]
  BY ConcatProperties
<1>3. First(u) = First(s)
  <2>1. CASE IsWhole(s)
    <3>1. Fits(s) \in 1 .. Len(s) /\ 1 \in 1 .. Len(s)
      BY <1>2, <2>1, FitsIs DEF IsWhole
    <3>2. SubSeq(u, 1, Fits(s)) = SubSeq(s, 1, Fits(s))
      BY <3>1, SubSeqOfConcat1
    <3>3. QED  BY <1>1, <2>1, <3>2 DEF First
  <2>2. CASE ~IsWhole(s)
    BY <1>1, <2>2 DEF First
  <2>3. QED  BY <2>1, <2>2
<1>4. Rest(u) = Rest(s) \o t
  <2>1. PICK m \in 1 .. Len(s) :
          /\ m = IF Fits(s) = 0 THEN 1 ELSE Fits(s)
          /\ Rest(s) \in Seq(Bytes) /\ Len(Rest(s)) = Len(s) - m
          /\ \A i \in 1 .. Len(s) - m : Rest(s)[i] = s[m + i]
    BY RestIs
  <2>2. PICK n \in 1 .. Len(u) :
          /\ n = IF Fits(u) = 0 THEN 1 ELSE Fits(u)
          /\ Rest(u) \in Seq(Bytes) /\ Len(Rest(u)) = Len(u) - n
          /\ \A i \in 1 .. Len(u) - n : Rest(u)[i] = u[n + i]
    BY <1>1, RestIs
  <2>3. m = n
    BY <1>1, <2>1, <2>2
  <2> DEFINE v == Rest(s) \o t
  <2>4. /\ v \in Seq(Bytes) /\ Len(v) = Len(s) - m + Len(t)
        /\ \A i \in 1 .. Len(s) - m + Len(t) :
             v[i] = IF i <= Len(s) - m THEN Rest(s)[i] ELSE t[i - (Len(s) - m)]
    <3> DEFINE r == Rest(s)
    <3>1. r \in Seq(Bytes) /\ Len(r) = Len(s) - m
      BY <2>1
    <3> HIDE DEF r
    <3>2. /\ r \o t \in Seq(Bytes) /\ Len(r \o t) = Len(r) + Len(t)
          /\ \A i \in 1 .. Len(r) + Len(t) :
               (r \o t)[i] = IF i <= Len(r) THEN r[i] ELSE t[i - Len(r)]
      BY <3>1, ConcatProperties
    <3>3. QED  BY <3>1, <3>2 DEF r
  <2> HIDE DEF u, v
  <2>5. Len(v) = Len(Rest(u))
    BY <1>2, <2>1, <2>2, <2>3, <2>4
  <2>6. ASSUME NEW i \in 1 .. Len(v) PROVE v[i] = Rest(u)[i]
    <3>1. m \in Nat /\ m <= Len(s) /\ i \in Nat /\ 1 <= i /\ i <= Len(s) - m + Len(t)
      BY <1>2, <2>4, <2>6
    <3>2. i \in 1 .. Len(u) - m /\ m + i \in 1 .. Len(s) + Len(t)
      BY <1>2, <3>1
    <3>3. Rest(u)[i] = u[m + i]
      BY <2>2, <2>3, <3>2
    <3>4. CASE i <= Len(s) - m
      <4>1. i \in 1 .. Len(s) - m /\ m + i <= Len(s)
        BY <1>2, <3>1, <3>4
      <4>2. Rest(s)[i] = s[m + i] /\ u[m + i] = s[m + i]
        BY <1>2, <2>1, <3>2, <4>1
      <4>3. v[i] = Rest(s)[i]
        BY <1>2, <2>4, <2>6, <3>1, <3>4
      <4>4. QED  BY <3>3, <4>2, <4>3
    <3>5. CASE ~(i <= Len(s) - m)
      <4>1. ~(m + i <= Len(s)) /\ m + i - Len(s) = i - (Len(s) - m)
        BY <1>2, <3>1, <3>5
      <4>2. u[m + i] = t[i - (Len(s) - m)]
        BY <1>2, <3>2, <4>1
      <4>3. v[i] = t[i - (Len(s) - m)]
        BY <1>2, <2>4, <2>6, <3>1, <3>5
      <4>4. QED  BY <3>3, <4>2, <4>3
    <3>6. QED  BY <3>4, <3>5
  <2>7. v = Rest(u)
    BY <2>2, <2>4, <2>5, <2>6, SeqEqual
  <2>8. QED  BY <2>7 DEF v
<1>5. QED  BY <1>3, <1>4

-----------------------------------------------------------------------------
(* The text of a sequence of bytes, and what of it is valid.               *)
Chars == Seq(Bytes) \cup {Bad}

LEMMA FirstIs ==
  ASSUME NEW s \in Seq(Bytes) PROVE First(s) \in Chars
<1>1. CASE IsWhole(s)
  <2>1. Fits(s) \in 0 .. Len(s) /\ Len(s) \in Nat
    BY FitsIs
  <2>2. \A i \in 1 .. Fits(s) : s[i] \in Bytes
    BY <2>1, ElementOfSeq
  <2>3. SubSeq(s, 1, Fits(s)) \in Seq(Bytes)
    BY <2>1, <2>2, SubSeqProperties
  <2>4. QED  BY <1>1, <2>3 DEF First, Chars
<1>2. CASE ~IsWhole(s)
  BY <1>2 DEF First, Chars
<1>3. QED  BY <1>1, <1>2

LEMMA OneMore ==
  ASSUME NEW c \in Chars, NEW x \in Seq(Chars) PROVE <<c>> \o x \in Seq(Chars)
<1>1. <<c>> \in Seq(Chars)
  OBVIOUS
<1>2. QED  BY <1>1, ConcatProperties

Sizes == [s \in Seq(Bytes) |-> Len(s)]
Ends == {s \in Seq(Bytes) : s = <<>> \/ Cut(s)}
Broken == {s \in Seq(Bytes) : ~IsWhole(s)}

LEMMA TextsShrink ==
  /\ Sized(Seq(Bytes), Sizes, Ends, [s \in Seq(Bytes) \ Ends |-> Rest(s)])
  /\ Sized(Seq(Bytes), Sizes, Broken, [s \in Seq(Bytes) \ Broken |-> Rest(s)])
<1>1. ASSUME NEW s \in Seq(Bytes), s # <<>>
      PROVE  Rest(s) \in Seq(Bytes) /\ Sizes[Rest(s)] < Sizes[s]
  <2>1. PICK m \in 1 .. Len(s) : Rest(s) \in Seq(Bytes) /\ Len(Rest(s)) = Len(s) - m
    BY <1>1, RestIs
  <2>2. Len(s) \in Nat
    OBVIOUS
  <2>3. QED  BY <2>1, <2>2 DEF Sizes
<1>2. \A s \in (Seq(Bytes) \ Ends) \cup (Seq(Bytes) \ Broken) : s # <<>>
  BY DEF Ends, Broken, IsWhole
<1>3. Sizes \in [Seq(Bytes) -> Nat] /\ Ends \subseteq Seq(Bytes) /\ Broken \subseteq Seq(Bytes)
  BY DEF Sizes, Ends, Broken
<1>4. QED  BY <1>1, <1>2, <1>3 DEF Sized

LEMMA LossyIs ==
  ASSUME NEW s \in Seq(Bytes)
  PROVE  Lossy[s] = IF s = <<>> \/ Cut(s) THEN <<>> ELSE <<First(s)>> \o Lossy[Rest(s)]
<1> DEFINE T == Seq(Chars)
           rest == [x \in Seq(Bytes) \ Ends |-> Rest(x)]
           base == [x \in Ends |-> <<>>]
           G == [p \in Seq(Bytes) \X T |-> <<First(p[1])>> \o p[2]]
           Body(f) == [x \in Seq(Bytes) |->
                         IF x = <<>> \/ Cut(x) THEN <<>> ELSE <<First(x)>> \o f[Rest(x)]]
<1>1. Sized(Seq(Bytes), Sizes, Ends, rest)
  BY TextsShrink
<1>2. base \in [Ends -> T] /\ G \in [Seq(Bytes) \X T -> T]
  BY FirstIs, OneMore, EmptySeq
<1>3. PICK f \in [Seq(Bytes) -> T] : Recursive(f, Seq(Bytes), Ends, base, rest, G)
  <2> HIDE DEF T, rest, base, G
  <2>1. QED  BY <1>1, <1>2, Recurses
<1>4. ASSUME NEW x \in Seq(Bytes)
      PROVE  f[x] = IF x = <<>> \/ Cut(x) THEN <<>> ELSE <<First(x)>> \o f[Rest(x)]
  <2>1. f[x] = IF x \in Ends THEN base[x] ELSE G[<<x, f[rest[x]]>>]
    BY <1>3 DEF Recursive
  <2>2. CASE x \in Ends
    BY <2>1, <2>2 DEF Ends
  <2>3. CASE x \notin Ends
    <3>1. rest[x] = Rest(x) /\ Rest(x) \in Seq(Bytes)
      BY <1>1, <2>3 DEF Sized
    <3>2. f[Rest(x)] \in T
      BY <3>1
    <3>3. QED  BY <2>1, <2>3, <3>1, <3>2 DEF Ends
  <2>4. QED  BY <2>2, <2>3
<1>5. f = Body(f)
  BY <1>4
<1>6. Lossy = CHOOSE g : g = Body(g)
  BY DEF Lossy
<1> HIDE DEF Body
<1>7. Lossy = Body(Lossy)
  BY <1>5, <1>6
<1>8. QED  BY <1>7 DEF Body

LEMMA RestShorter ==
  ASSUME NEW s \in Seq(Bytes), s # <<>>
  PROVE  Rest(s) \in Seq(Bytes) /\ Sizes[Rest(s)] < Sizes[s]
<1>1. PICK m \in 1 .. Len(s) : Rest(s) \in Seq(Bytes) /\ Len(Rest(s)) = Len(s) - m
  BY RestIs
<1>2. Len(s) \in Nat
  OBVIOUS
<1>3. QED  BY <1>1, <1>2 DEF Sizes

LEMMA LossyTyped == \A s \in Seq(Bytes) : Lossy[s] \in Seq(Chars)
<1> DEFINE S == {s \in Seq(Bytes) : Lossy[s] \in Seq(Chars)}
<1>1. ASSUME NEW s \in Seq(Bytes), \A t \in Seq(Bytes) : Sizes[t] < Sizes[s] => t \in S
      PROVE  s \in S
  <2>1. CASE s = <<>> \/ Cut(s)
    BY <2>1, LossyIs, EmptySeq
  <2>2. CASE ~(s = <<>> \/ Cut(s))
    <3>1. Lossy[Rest(s)] \in Seq(Chars)
      BY <1>1, <2>2, RestShorter
    <3>2. Lossy[s] = <<First(s)>> \o Lossy[Rest(s)]
      BY <2>2, LossyIs
    <3>3. QED  BY <3>1, <3>2, FirstIs, OneMore
  <2>3. QED  BY <2>1, <2>2
<1>2. Sizes \in [Seq(Bytes) -> Nat]
  BY DEF Sizes
<1> HIDE DEF S
<1>3. Seq(Bytes) \subseteq S
  <2>1. Inherits(Seq(Bytes), Sizes, S)
    BY <1>1 DEF Inherits
  <2>2. QED  BY <1>2, <2>1, BySize
<1>4. QED  BY <1>3 DEF S

ValidBody(f) ==
  [x \in Seq(Bytes) |->
     IF IsWhole(x) THEN [text |-> <<First(x)>> \o f[Rest(x)].text, rest |-> f[Rest(x)].rest]
                   ELSE [text |-> <<>>, rest |-> x]]

LEMMA ValidIs ==
  ASSUME NEW s \in Seq(Bytes)
  PROVE  Valid[s] =
           IF IsWhole(s)
             THEN [text |-> <<First(s)>> \o Valid[Rest(s)].text, rest |-> Valid[Rest(s)].rest]
             ELSE [text |-> <<>>, rest |-> s]
<1> DEFINE T == [text : Seq(Chars), rest : Seq(Bytes)]
           rest == [x \in Seq(Bytes) \ Broken |-> Rest(x)]
           base == [x \in Broken |-> [text |-> <<>>, rest |-> x]]
           G == [p \in Seq(Bytes) \X T |->
                   [text |-> <<First(p[1])>> \o p[2].text, rest |-> p[2].rest]]
<1>1. Sized(Seq(Bytes), Sizes, Broken, rest)
  BY TextsShrink
<1>2. base \in [Broken -> T] /\ G \in [Seq(Bytes) \X T -> T]
  <2>1. base \in [Broken -> T]
    BY EmptySeq DEF Broken
  <2>2. ASSUME NEW x \in Seq(Bytes), NEW v \in T
        PROVE  [text |-> <<First(x)>> \o v.text, rest |-> v.rest] \in T
    BY FirstIs, OneMore
  <2>3. QED  BY <2>1, <2>2
<1>3. PICK f \in [Seq(Bytes) -> T] : Recursive(f, Seq(Bytes), Broken, base, rest, G)
  <2> HIDE DEF T, rest, base, G
  <2>1. QED  BY <1>1, <1>2, Recurses
<1>4. ASSUME NEW x \in Seq(Bytes)
      PROVE  f[x] =
               IF IsWhole(x)
                 THEN [text |-> <<First(x)>> \o f[Rest(x)].text, rest |-> f[Rest(x)].rest]
                 ELSE [text |-> <<>>, rest |-> x]
  <2>1. f[x] = IF x \in Broken THEN base[x] ELSE G[<<x, f[rest[x]]>>]
    BY <1>3 DEF Recursive
  <2>2. CASE x \in Broken
    BY <2>1, <2>2 DEF Broken
  <2>3. CASE x \notin Broken
    <3>1. rest[x] = Rest(x) /\ Rest(x) \in Seq(Bytes)
      BY <1>1, <2>3 DEF Sized
    <3>2. f[Rest(x)] \in T
      BY <3>1
    <3>3. f[x] = G[<<x, f[Rest(x)]>>]
      BY <2>1, <2>3, <3>1
    <3>4. G[<<x, f[Rest(x)]>>]
            = [text |-> <<First(x)>> \o f[Rest(x)].text, rest |-> f[Rest(x)].rest]
      BY <3>2
    <3>5. QED  BY <2>3, <3>3, <3>4 DEF Broken
  <2>4. QED  BY <2>2, <2>3
<1>5. f = ValidBody(f)
  BY <1>4 DEF ValidBody
<1>6. Valid = CHOOSE g : g = ValidBody(g)
  BY DEF Valid, ValidBody
<1>7. Valid = ValidBody(Valid)
  BY <1>5, <1>6
<1>8. QED  BY <1>7 DEF ValidBody

LEMMA ValidOfBroken ==
  ASSUME NEW s \in Seq(Bytes), ~IsWhole(s) PROVE Valid[s].text = <<>> /\ Valid[s].rest = s
<1>1. Valid[s] = [text |-> <<>>, rest |-> s]
  BY ValidIs
<1>2. QED  BY <1>1

LEMMA ValidOfWhole ==
  ASSUME NEW s \in Seq(Bytes), IsWhole(s)
  PROVE  /\ Valid[s].text = <<First(s)>> \o Valid[Rest(s)].text
         /\ Valid[s].rest = Valid[Rest(s)].rest
<1>1. Valid[s] = [text |-> <<First(s)>> \o Valid[Rest(s)].text, rest |-> Valid[Rest(s)].rest]
  BY ValidIs
<1>2. QED  BY <1>1

Regrouped(a, b, c) == a \o (b \o c) = (a \o b) \o c

LEMMA Regroup == \A X : \A a, b, c \in Seq(X) : Regrouped(a, b, c)
<1>1. ASSUME NEW X, NEW a \in Seq(X), NEW b \in Seq(X), NEW c \in Seq(X)
      PROVE  Regrouped(a, b, c)
  <2>1. (a \o b) \o c = a \o (b \o c)
    BY ConcatAssociative
  <2>2. QED  BY <2>1 DEF Regrouped
<1>2. QED  BY <1>1

(* What has been taken as valid stands before the text of what is left,    *)
(* whatever comes after.                                                   *)
LEMMA ValidKeeps ==
  \A s \in Seq(Bytes) :
    /\ Valid[s].text \in Seq(Chars) /\ Valid[s].rest \in Seq(Bytes) /\ ~IsWhole(Valid[s].rest)
    /\ \A t \in Seq(Bytes) : Lossy[s \o t] = Valid[s].text \o Lossy[Valid[s].rest \o t]
<1> DEFINE Kept(s) ==
             /\ Valid[s].text \in Seq(Chars) /\ Valid[s].rest \in Seq(Bytes)
             /\ ~IsWhole(Valid[s].rest)
             /\ \A t \in Seq(Bytes) : Lossy[s \o t] = Valid[s].text \o Lossy[Valid[s].rest \o t]
           S == {s \in Seq(Bytes) : Kept(s)}
<1>1. ASSUME NEW s \in Seq(Bytes), \A t \in Seq(Bytes) : Sizes[t] < Sizes[s] => t \in S
      PROVE  s \in S
  <2>1. CASE ~IsWhole(s)
    <3>1. Valid[s].text = <<>> /\ Valid[s].rest = s
      BY <2>1, ValidOfBroken
    <3>2. ASSUME NEW t \in Seq(Bytes) PROVE Lossy[s \o t] = <<>> \o Lossy[s \o t]
      <4>1. s \o t \in Seq(Bytes)
        BY ConcatProperties
      <4>2. Lossy[s \o t] \in Seq(Chars)
        BY <4>1, LossyTyped
      <4>3. QED  BY <4>2, ConcatEmptySeq
    <3>3. QED  BY <2>1, <3>1, <3>2, EmptySeq
  <2>2. CASE IsWhole(s)
    <3> DEFINE r == Rest(s)
    <3>1. s # <<>> /\ ~Cut(s)
      BY <2>2 DEF IsWhole, Cut
    <3>2. r \in Seq(Bytes) /\ Kept(r)
      BY <1>1, <3>1, RestShorter
    <3>3. Valid[s].text = <<First(s)>> \o Valid[r].text /\ Valid[s].rest = Valid[r].rest
      BY <2>2, ValidOfWhole
    <3>4. Valid[s].text \in Seq(Chars)
      BY <3>2, <3>3, FirstIs, OneMore
    <3>5. ASSUME NEW t \in Seq(Bytes)
          PROVE  Lossy[s \o t] = Valid[s].text \o Lossy[Valid[s].rest \o t]
      <4>1. /\ s \o t \in Seq(Bytes) /\ s \o t # <<>> /\ ~Cut(s \o t)
            /\ First(s \o t) = First(s) /\ Rest(s \o t) = r \o t
        BY <3>1, BeginsSame, RestSame
      <4>2. Lossy[s \o t] = <<First(s)>> \o Lossy[r \o t]
        BY <4>1, LossyIs
      <4>3. Lossy[r \o t] = Valid[r].text \o Lossy[Valid[r].rest \o t]
        BY <3>2
      <4>4. Valid[r].text \in Seq(Chars) /\ Lossy[Valid[r].rest \o t] \in Seq(Chars)
        BY <3>2, ConcatProperties, LossyTyped
      <4>5. <<First(s)>> \in Seq(Chars)
        BY FirstIs
      <4>6. <<First(s)>> \o (Valid[r].text \o Lossy[Valid[r].rest \o t])
              = (<<First(s)>> \o Valid[r].text) \o Lossy[Valid[r].rest \o t]
        <5>1. Regrouped(<<First(s)>>, Valid[r].text, Lossy[Valid[r].rest \o t])
          BY <4>4, <4>5, Regroup
        <5>2. QED  BY <5>1 DEF Regrouped
      <4>7. QED  BY <3>3, <4>2, <4>3, <4>6
    <3>6. QED  BY <3>2, <3>3, <3>4, <3>5
  <2>3. QED  BY <2>1, <2>2
<1>2. Sizes \in [Seq(Bytes) -> Nat]
  BY DEF Sizes
<1> HIDE DEF S
<1>3. Seq(Bytes) \subseteq S
  <2>1. Inherits(Seq(Bytes), Sizes, S)
    BY <1>1 DEF Inherits
  <2>2. QED  BY <1>2, <2>1, BySize
<1>4. QED  BY <1>3 DEF S

(* Decoding a packet and later what was left pending with whatever comes   *)
(* after it gives the characters of all the bytes together, wherever the   *)
(* packet was cut and whatever of it was invalid (Decoder::push).          *)
THEOREM DecodeKeeps ==
  ASSUME NEW s \in Seq(Bytes)
  PROVE  /\ Decode(s).text \in Seq(Chars) /\ Decode(s).pending \in Seq(Bytes)
         /\ \A t \in Seq(Bytes) :
              Lossy[s \o t] = Decode(s).text \o Lossy[Decode(s).pending \o t]
<1> DEFINE v == Valid[s]
<1>1. /\ v.text \in Seq(Chars) /\ v.rest \in Seq(Bytes) /\ ~IsWhole(v.rest)
      /\ \A t \in Seq(Bytes) : Lossy[s \o t] = v.text \o Lossy[v.rest \o t]
  BY ValidKeeps
<1> HIDE DEF v
<1>2. CASE v.rest = <<>> \/ Cut(v.rest)
  <2>1. Decode(s).text = v.text /\ Decode(s).pending = v.rest
    BY <1>2 DEF Decode, v
  <2>2. QED  BY <1>1, <2>1
<1>3. CASE ~(v.rest = <<>> \/ Cut(v.rest))
  <2> DEFINE r == v.rest
  <2>1. Decode(s).text = Append(v.text, Bad) /\ Decode(s).pending = Rest(r)
    BY <1>3 DEF Decode, v
  <2>2. r # <<>> /\ ~Cut(r) /\ r \in Seq(Bytes) /\ Rest(r) \in Seq(Bytes) /\ First(r) = Bad
    BY <1>1, <1>3, RestShorter DEF First
  <2>3. Bad \in Chars /\ <<Bad>> \in Seq(Chars)
    BY DEF Chars
  <2>4. Append(v.text, Bad) = v.text \o <<Bad>> /\ Append(v.text, Bad) \in Seq(Chars)
    BY <1>1, <2>3, AppendIsConcat, AppendProperties
  <2>5. ASSUME NEW t \in Seq(Bytes)
        PROVE  Lossy[s \o t] = Append(v.text, Bad) \o Lossy[Rest(r) \o t]
    <3>1. /\ r \o t \in Seq(Bytes) /\ r \o t # <<>> /\ ~Cut(r \o t)
          /\ First(r \o t) = Bad /\ Rest(r \o t) = Rest(r) \o t
      BY <2>2, BeginsSame, RestSame
    <3>2. Lossy[r \o t] = <<Bad>> \o Lossy[Rest(r) \o t]
      BY <3>1, LossyIs
    <3>3. Lossy[Rest(r) \o t] \in Seq(Chars)
      BY <2>2, ConcatProperties, LossyTyped
    <3>4. v.text \o (<<Bad>> \o Lossy[Rest(r) \o t])
            = (v.text \o <<Bad>>) \o Lossy[Rest(r) \o t]
      <4>1. Regrouped(v.text, <<Bad>>, Lossy[Rest(r) \o t])
        BY <1>1, <2>3, <3>3, Regroup
      <4>2. QED  BY <4>1 DEF Regrouped
    <3>5. QED  BY <1>1, <2>4, <3>2, <3>4
  <2>6. QED  BY <2>1, <2>2, <2>4, <2>5
<1>4. QED  BY <1>2, <1>3

-----------------------------------------------------------------------------
(* What messages carry, one after the other.                               *)
Adds(f, messages, o) ==
  f[0] = <<>> /\ \A i \in 1 .. Len(messages) : f[i] = f[i - 1] \o Part(messages[i], o)

AllParts(M, o, X) == \A m \in M : Part(m, o) \in Seq(X)

LEMMA CarriedIs ==
  ASSUME NEW X, NEW o, NEW M, AllParts(M, o, X), NEW messages \in Seq(M)
  PROVE  \E f \in [0 .. Len(messages) -> Seq(X)] :
           Adds(f, messages, o) /\ Carried(messages, o) = f[Len(messages)]
<1> DEFINE N == Len(messages)
           D == 0 .. N
           T == Seq(X)
           size == [i \in D |-> i]
           rest == [i \in D \ {0} |-> i - 1]
           base == [i \in {0} |-> <<>>]
           G == [p \in D \X T |-> IF p[1] = 0 THEN <<>> ELSE p[2] \o Part(messages[p[1]], o)]
           Body(f) == [i \in 0 .. N |-> IF i = 0 THEN <<>> ELSE f[i - 1] \o Part(messages[i], o)]
<1>1. N \in Nat /\ \A i \in 1 .. N : messages[i] \in M
  BY ElementOfSeq
<1> HIDE DEF N
<1>2. Sized(D, size, {0}, rest)
  BY <1>1 DEF Sized
<1>3. base \in [{0} -> T] /\ G \in [D \X T -> T]
  <2>1. <<>> \in T
    BY EmptySeq
  <2>2. ASSUME NEW i \in D, NEW x \in T, i # 0 PROVE x \o Part(messages[i], o) \in T
    <3>1. Part(messages[i], o) \in T
      BY <1>1, <2>2 DEF AllParts
    <3>2. QED  BY <3>1, ConcatProperties
  <2>3. QED  BY <2>1, <2>2
<1>4. PICK f \in [D -> T] : Recursive(f, D, {0}, base, rest, G)
  <2> HIDE DEF D, T, size, rest, base, G
  <2>1. QED  BY <1>2, <1>3, Recurses
<1>5. ASSUME NEW i \in 1 .. N PROVE f[i] = f[i - 1] \o Part(messages[i], o)
  <2>1. i \in D /\ i # 0 /\ i - 1 \in D /\ f[i - 1] \in T
    BY <1>1
  <2>2. f[i] = G[<<i, f[i - 1]>>]
    BY <1>4, <2>1 DEF Recursive
  <2>3. QED  BY <2>1, <2>2
<1>6. f[0] = <<>>
  BY <1>1, <1>4 DEF Recursive
<1>7. f = Body(f)
  <2>1. \A i \in 0 .. N : f[i] = IF i = 0 THEN <<>> ELSE f[i - 1] \o Part(messages[i], o)
    <3>1. ASSUME NEW i \in 0 .. N
          PROVE  f[i] = IF i = 0 THEN <<>> ELSE f[i - 1] \o Part(messages[i], o)
      <4>1. CASE i = 0
        BY <1>6, <4>1
      <4>2. CASE i # 0
        <5>1. i \in 1 .. N
          BY <1>1, <4>2
        <5>2. f[i] = f[i - 1] \o Part(messages[i], o)
          BY <1>5, <5>1
        <5>3. QED  BY <4>2, <5>2
      <4>3. QED  BY <4>1, <4>2
    <3>2. QED  BY <3>1
  <2>2. f = [i \in 0 .. N |-> f[i]]
    OBVIOUS
  <2>3. QED  BY <2>1, <2>2
<1> DEFINE upTo == CHOOSE g : g = Body(g)
<1> HIDE DEF Body
<1>8. upTo = Body(upTo)
  BY <1>7
<1>9. Carried(messages, o) = upTo[N]
  BY DEF Carried, N, Body
<1> HIDE DEF upTo
<1>10. upTo[0] = <<>> /\ \A i \in 1 .. N : upTo[i] = upTo[i - 1] \o Part(messages[i], o)
  <2>1. ASSUME NEW i \in 0 .. N
        PROVE  upTo[i] = IF i = 0 THEN <<>> ELSE upTo[i - 1] \o Part(messages[i], o)
    <3>1. upTo[i] = Body(upTo)[i]
      BY <1>8
    <3>2. QED  BY <3>1 DEF Body
  <2>2. upTo[0] = <<>>
    BY <1>1, <2>1
  <2>3. ASSUME NEW i \in 1 .. N PROVE upTo[i] = upTo[i - 1] \o Part(messages[i], o)
    <3>1. i \in 0 .. N /\ i # 0
      BY <1>1
    <3>2. QED  BY <2>1, <3>1
  <2>4. QED  BY <2>2, <2>3
<1>11. upTo = f
  <2> DEFINE S == {i \in D : upTo[i] = f[i]}
  <2>1. ASSUME NEW i \in D, \A j \in D : size[j] < size[i] => j \in S PROVE i \in S
    <3>1. CASE i = 0
      BY <1>6, <1>10, <3>1
    <3>2. CASE i # 0
      <4>1. i \in 1 .. N /\ i - 1 \in D /\ i - 1 < i
        BY <1>1, <3>2
      <4>2. upTo[i - 1] = f[i - 1]
        BY <2>1, <4>1
      <4>3. QED  BY <1>5, <1>10, <4>1, <4>2
    <3>3. QED  BY <3>1, <3>2
  <2>2. size \in [D -> Nat]
    BY <1>1
  <2>3. D \subseteq S
    <3> HIDE DEF D, S, size
    <3>1. Inherits(D, size, S)
      BY <2>1 DEF Inherits
    <3>2. QED  BY <2>2, <3>1, BySize
  <2>4. \A i \in 0 .. N : upTo[i] = f[i]
    BY <2>3
  <2>5. upTo = [i \in 0 .. N |-> upTo[i]]
    BY <1>8 DEF Body
  <2>6. QED  BY <2>4, <2>5
<1>12. QED  BY <1>4, <1>5, <1>6, <1>9, <1>11 DEF Adds, N


LEMMA UpToHere ==
  ASSUME NEW N \in Nat, NEW S, 0 \in S, \A i \in 1 .. N : i - 1 \in S => i \in S
  PROVE  0 .. N \subseteq S
<1> DEFINE D == 0 .. N
           size == [i \in D |-> i]
<1>1. ASSUME NEW i \in D, \A j \in D : size[j] < size[i] => j \in S PROVE i \in S
  <2>1. CASE i = 0
    BY <2>1
  <2>2. CASE i # 0
    <3>1. i \in 1 .. N /\ i - 1 \in D /\ size[i - 1] < size[i]
      BY <2>2
    <3>2. QED  BY <1>1, <3>1
  <2>3. QED  BY <2>1, <2>2
<1>2. size \in [D -> Nat]
  OBVIOUS
<1> HIDE DEF D, size
<1>3. D \subseteq S
  <2>1. Inherits(D, size, S)
    BY <1>1 DEF Inherits
  <2>2. QED  BY <1>2, <2>1, BySize
<1>4. QED  BY <1>3 DEF D

LEMMA CarriedTyped ==
  ASSUME NEW X, NEW o, NEW M, AllParts(M, o, X), NEW messages \in Seq(M)
  PROVE  Carried(messages, o) \in Seq(X)
<1>1. Len(messages) \in Nat
  OBVIOUS
<1>2. QED  BY <1>1, CarriedIs

Sums(messages, o, X) ==
  \E f \in [0 .. Len(messages) -> Seq(X)] :
    Adds(f, messages, o) /\ Carried(messages, o) = f[Len(messages)]

LEMMA CarriedSums ==
  \A X, o, M : AllParts(M, o, X) => \A messages \in Seq(M) : Sums(messages, o, X)
<1>1. ASSUME NEW X, NEW o, NEW M, AllParts(M, o, X), NEW messages \in Seq(M)
      PROVE  Sums(messages, o, X)
  <2>1. \E f \in [0 .. Len(messages) -> Seq(X)] :
          Adds(f, messages, o) /\ Carried(messages, o) = f[Len(messages)]
    BY <1>1, CarriedIs
  <2>2. QED  BY <2>1 DEF Sums
<1>2. QED  BY <1>1

LEMMA CarriedNothing == \A o : Carried(<<>>, o) = <<>>
<1>1. ASSUME NEW o PROVE Carried(<<>>, o) = <<>>
  <2> DEFINE e == <<>>
             M == {}
             X == {}
  <2>1. AllParts(M, o, X) /\ e \in Seq(M) /\ Len(e) = 0
    BY EmptySeq DEF AllParts
  <2> HIDE DEF e, M, X
  <2>2. PICK f \in [0 .. Len(e) -> Seq(X)] : Adds(f, e, o) /\ Carried(e, o) = f[Len(e)]
    <3>1. Sums(e, o, X)
      BY <2>1, CarriedSums
    <3>2. QED  BY <3>1 DEF Sums
  <2>3. Carried(e, o) = <<>>
    BY <2>1, <2>2 DEF Adds
  <2>4. QED  BY <2>3 DEF e
<1>2. QED  BY <1>1

LEMMA CarriedAppend ==
  ASSUME NEW X, NEW o, NEW M, AllParts(M, o, X), NEW messages \in Seq(M), NEW m \in M
  PROVE  Carried(Append(messages, m), o) = Carried(messages, o) \o Part(m, o)
<1> DEFINE longer == Append(messages, m)
           N == Len(messages)
<1>1. /\ longer \in Seq(M) /\ Len(longer) = N + 1 /\ longer[N + 1] = m
      /\ \A i \in 1 .. N : longer[i] = messages[i]
      /\ N \in Nat
  BY AppendProperties
<1> HIDE DEF longer, N
<1>2. PICK f \in [0 .. N -> Seq(X)] : Adds(f, messages, o) /\ Carried(messages, o) = f[N]
  BY CarriedIs DEF N
<1>3. PICK g \in [0 .. N + 1 -> Seq(X)] : Adds(g, longer, o) /\ Carried(longer, o) = g[N + 1]
  <2>1. \E g \in [0 .. Len(longer) -> Seq(X)] :
          Adds(g, longer, o) /\ Carried(longer, o) = g[Len(longer)]
    <3>1. Sums(longer, o, X)
      BY <1>1, CarriedSums
    <3>2. QED  BY <3>1 DEF Sums
  <2>2. QED  BY <1>1, <2>1
<1> DEFINE S == {i \in 0 .. N : f[i] = g[i]}
<1>4. 0 \in S
  BY <1>1, <1>2, <1>3 DEF Adds
<1>5. ASSUME NEW i \in 1 .. N, i - 1 \in S PROVE i \in S
  <2>1. i \in 1 .. N + 1 /\ i \in 0 .. N
    BY <1>1
  <2>2. f[i] = f[i - 1] \o Part(messages[i], o)
    BY <1>2 DEF Adds, N
  <2>3. g[i] = g[i - 1] \o Part(longer[i], o)
    <3>1. i \in 1 .. Len(longer)
      BY <1>1, <2>1
    <3>2. QED  BY <1>3, <3>1 DEF Adds
  <2>4. f[i - 1] = g[i - 1] /\ longer[i] = messages[i]
    BY <1>1, <1>5
  <2>5. QED  BY <2>1, <2>2, <2>3, <2>4
<1>6. 0 .. N \subseteq S
  <2> HIDE DEF S
  <2>1. QED  BY <1>1, <1>4, <1>5, UpToHere
<1>7. f[N] = g[N]
  BY <1>1, <1>6
<1>8. g[N + 1] = g[N] \o Part(m, o)
  <2>1. N + 1 \in 1 .. N + 1 /\ N + 1 - 1 = N
    BY <1>1
  <2>2. N + 1 \in 1 .. Len(longer)
    BY <1>1
  <2>3. g[N + 1] = g[N] \o Part(longer[N + 1], o)
    <3>1. PICK i \in 1 .. Len(longer) : i = N + 1 /\ i - 1 = N
      BY <1>1, <2>2
    <3>2. g[i] = g[i - 1] \o Part(longer[i], o)
      BY <1>3, <3>1 DEF Adds
    <3>3. QED  BY <3>1, <3>2
  <2>4. QED  BY <1>1, <2>1, <2>3
<1>9. QED  BY <1>2, <1>3, <1>7, <1>8 DEF longer

LEMMA CarriedFirst ==
  ASSUME NEW X, NEW o, NEW M, AllParts(M, o, X), NEW messages \in Seq(M), messages # <<>>
  PROVE  Carried(messages, o) = Part(Head(messages), o) \o Carried(Tail(messages), o)
<1> DEFINE shorter == Tail(messages)
           first == Head(messages)
           N == Len(shorter)
<1>1. /\ first = messages[1] /\ first \in M /\ shorter \in Seq(M) /\ N \in Nat
      /\ Len(messages) = N + 1 /\ \A i \in 1 .. N : shorter[i] = messages[i + 1]
  <2>1. /\ Head(messages) \in M /\ Tail(messages) \in Seq(M)
        /\ Len(Tail(messages)) = Len(messages) - 1 /\ Len(messages) \in Nat \ {0}
        /\ \A i \in 1 .. Len(Tail(messages)) : Tail(messages)[i] = messages[i + 1]
    BY HeadTailProperties, EmptySeq
  <2>2. first = messages[1]
    OBVIOUS
  <2>3. QED  BY <2>1, <2>2
<1> HIDE DEF shorter, first, N
<1>2. PICK f \in [0 .. N + 1 -> Seq(X)] : Adds(f, messages, o) /\ Carried(messages, o) = f[N + 1]
  <2>1. \E f \in [0 .. Len(messages) -> Seq(X)] :
          Adds(f, messages, o) /\ Carried(messages, o) = f[Len(messages)]
    BY CarriedIs
  <2>2. QED  BY <1>1, <2>1
<1>3. PICK g \in [0 .. N -> Seq(X)] : Adds(g, shorter, o) /\ Carried(shorter, o) = g[N]
  BY <1>1, CarriedIs DEF N
<1> DEFINE a == Part(first, o)
           S == {i \in 0 .. N : f[i + 1] = a \o g[i]}
<1>4. a \in Seq(X)
  BY <1>1 DEF AllParts
<1> HIDE DEF a
<1>5. 0 \in S
  <2>1. f[0] = <<>> /\ g[0] = <<>>
    BY <1>2, <1>3 DEF Adds
  <2>2. 1 \in 1 .. N + 1 /\ 1 - 1 = 0
    BY <1>1
  <2>3. f[1] = f[0] \o Part(messages[1], o)
    <3>1. 1 \in 1 .. Len(messages)
      BY <1>1, <2>2
    <3>2. f[1] = f[1 - 1] \o Part(messages[1], o)
      BY <1>2, <3>1 DEF Adds
    <3>3. QED  BY <2>2, <3>2
  <2>4. f[1] = <<>> \o a
    BY <1>1, <2>1, <2>3 DEF a
  <2>5. f[1] = a /\ a \o g[0] = a
    BY <1>4, <2>1, <2>4, ConcatEmptySeq
  <2>6. 0 \in 0 .. N /\ 0 + 1 = 1
    BY <1>1
  <2>7. QED  BY <2>5, <2>6
<1>6. ASSUME NEW i \in 1 .. N, i - 1 \in S PROVE i \in S
  <2> DEFINE p == Part(messages[i + 1], o)
  <2>1. i \in 0 .. N /\ i + 1 \in 1 .. N + 1 /\ i + 1 - 1 = i /\ i - 1 + 1 = i /\ i - 1 \in 0 .. N
    BY <1>1
  <2>2. f[i + 1] = f[i] \o p
    <3>1. i + 1 \in 1 .. Len(messages)
      BY <1>1, <2>1
    <3>2. f[i + 1] = f[i] \o p
      <4>1. PICK j \in 1 .. Len(messages) : j = i + 1 /\ j - 1 = i
        BY <1>1, <3>1
      <4>2. f[j] = f[j - 1] \o Part(messages[j], o)
        BY <1>2, <4>1 DEF Adds
      <4>3. QED  BY <4>1, <4>2
    <3>3. QED  BY <3>2
  <2>3. g[i] = g[i - 1] \o p
    <3>1. i \in 1 .. Len(shorter)
      BY DEF N
    <3>2. g[i] = g[i - 1] \o Part(shorter[i], o)
      BY <1>3, <3>1 DEF Adds
    <3>3. QED  BY <1>1, <3>2
  <2>4. f[i] = a \o g[i - 1]
    BY <1>6, <2>1
  <2>5. p \in Seq(X) /\ g[i - 1] \in Seq(X)
    <3>1. messages[i + 1] \in M
      BY <1>1, <2>1, ElementOfSeq
    <3>2. QED  BY <1>3, <2>1, <3>1 DEF AllParts
  <2> HIDE DEF p
  <2>6. (a \o g[i - 1]) \o p = a \o (g[i - 1] \o p)
    <3>1. Regrouped(a, g[i - 1], p)
      BY <1>4, <2>5, Regroup
    <3>2. QED  BY <3>1 DEF Regrouped
  <2>7. f[i + 1] = a \o g[i]
    BY <2>2, <2>3, <2>4, <2>6
  <2>8. QED  BY <2>1, <2>7
<1>7. 0 .. N \subseteq S
  <2> HIDE DEF S
  <2>1. QED  BY <1>1, <1>5, <1>6, UpToHere
<1>8. f[N + 1] = a \o g[N]
  BY <1>1, <1>7
<1>9. QED  BY <1>2, <1>3, <1>8 DEF a, first, shorter

-----------------------------------------------------------------------------
(* How a step moves text along.                                            *)
LEMMA Joined ==
  /\ \A a, b \in Seq(Bytes) : a \o b \in Seq(Bytes)
  /\ \A a, b \in Seq(Chars) : a \o b \in Seq(Chars)
BY ConcatProperties

LEMMA NothingMore ==
  /\ \A a \in Seq(Bytes) : a \o <<>> = a /\ <<>> \o a = a
  /\ \A a \in Seq(Chars) : a \o <<>> = a /\ <<>> \o a = a
  /\ <<>> \in Seq(Bytes) /\ <<>> \in Seq(Chars)
BY ConcatEmptySeq, EmptySeq

(* D, the decoded text, and P, the pending bytes, with C, the bytes unread,*)
(* make the text of W, those written, whatever is written next.            *)
Makes(D, P, C, W) ==
  \A t \in Seq(Bytes) : D \o Lossy[(P \o C) \o t] = Lossy[W \o t]

LEMMA WriteMoves ==
  ASSUME NEW D \in Seq(Chars), NEW P \in Seq(Bytes), NEW C \in Seq(Bytes),
         NEW W \in Seq(Bytes), NEW x \in Seq(Bytes), Makes(D, P, C, W)
  PROVE  Makes(D, P, C \o x, W \o x)
<1>1. ASSUME NEW t \in Seq(Bytes)
      PROVE  D \o Lossy[(P \o (C \o x)) \o t] = Lossy[(W \o x) \o t]
  <2>1. x \o t \in Seq(Bytes)
    BY Joined
  <2>2. D \o Lossy[(P \o C) \o (x \o t)] = Lossy[W \o (x \o t)]
    BY <2>1, Zenon DEF Makes
  <2>3. (P \o C) \o (x \o t) = ((P \o C) \o x) \o t
    <3>1. Regrouped(P \o C, x, t)
      BY Joined, Regroup
    <3>2. QED  BY <3>1 DEF Regrouped
  <2>4. P \o (C \o x) = (P \o C) \o x
    <3>1. Regrouped(P, C, x)
      BY Regroup
    <3>2. QED  BY <3>1 DEF Regrouped
  <2>5. W \o (x \o t) = (W \o x) \o t
    <3>1. Regrouped(W, x, t)
      BY Regroup
    <3>2. QED  BY <3>1 DEF Regrouped
  <2>6. (P \o (C \o x)) \o t = (P \o C) \o (x \o t)
    BY <2>3, <2>4, Zenon
  <2>7. QED  BY <2>2, <2>5, <2>6, Zenon
<1>2. QED  BY <1>1, Zenon DEF Makes

LEMMA ReadMoves ==
  ASSUME NEW D \in Seq(Chars), NEW P \in Seq(Bytes), NEW C \in Seq(Bytes),
         NEW W \in Seq(Bytes), NEW x \in Seq(Bytes), Makes(D, P, x \o C, W)
  PROVE  Makes(D \o Decode(P \o x).text, Decode(P \o x).pending, C, W)
<1> DEFINE d == Decode(P \o x).text
           p == Decode(P \o x).pending
<1>1. P \o x \in Seq(Bytes)
  BY Joined
<1>2. /\ d \in Seq(Chars) /\ p \in Seq(Bytes)
      /\ \A t \in Seq(Bytes) : Lossy[(P \o x) \o t] = d \o Lossy[p \o t]
  BY <1>1, DecodeKeeps, Zenon
<1> HIDE DEF d, p
<1>3. ASSUME NEW t \in Seq(Bytes)
      PROVE  (D \o d) \o Lossy[(p \o C) \o t] = Lossy[W \o t]
  <2>1. C \o t \in Seq(Bytes) /\ x \o C \in Seq(Bytes) /\ p \o (C \o t) \in Seq(Bytes)
    BY <1>2, Joined
  <2>2. Lossy[p \o (C \o t)] \in Seq(Chars)
    BY <2>1, LossyTyped
  <2>3. D \o Lossy[(P \o (x \o C)) \o t] = Lossy[W \o t]
    BY Zenon DEF Makes
  <2>4. (P \o (x \o C)) \o t = (P \o x) \o (C \o t)
    <3>1. P \o (x \o C) = (P \o x) \o C
      <4>1. Regrouped(P, x, C)
        BY Regroup
      <4>2. QED  BY <4>1 DEF Regrouped
    <3>2. (P \o x) \o (C \o t) = ((P \o x) \o C) \o t
      <4>1. Regrouped(P \o x, C, t)
        BY <1>1, Regroup
      <4>2. QED  BY <4>1 DEF Regrouped
    <3>3. QED  BY <3>1, <3>2, Zenon
  <2>5. Lossy[(P \o x) \o (C \o t)] = d \o Lossy[p \o (C \o t)]
    <3>1. C \o t \in Seq(Bytes)
      BY Joined
    <3>2. \A u \in Seq(Bytes) : Lossy[(P \o x) \o u] = d \o Lossy[p \o u]
      BY <1>2
    <3>3. QED  BY <3>1, <3>2, Zenon
  <2>6. D \o (d \o Lossy[p \o (C \o t)]) = (D \o d) \o Lossy[p \o (C \o t)]
    <3>1. d \in Seq(Chars)
      BY <1>2
    <3>2. Regrouped(D, d, Lossy[p \o (C \o t)])
      BY <2>2, <3>1, Regroup
    <3>3. QED  BY <3>2 DEF Regrouped
  <2>7. p \o (C \o t) = (p \o C) \o t
    <3>1. p \in Seq(Bytes)
      BY <1>2
    <3>2. Regrouped(p, C, t)
      BY <3>1, Regroup
    <3>3. QED  BY <3>2 DEF Regrouped
  <2>8. D \o Lossy[(P \o x) \o (C \o t)] = Lossy[W \o t]
    BY <2>3, <2>4, Zenon
  <2>9. (D \o d) \o Lossy[p \o (C \o t)] = Lossy[W \o t]
    BY <2>5, <2>6, <2>8, Zenon
  <2>10. QED  BY <2>7, <2>9, Zenon
<1>4. QED  BY <1>3, Zenon DEF Makes, d, p

(* S shown, T taken, x the next message and C what follows it.             *)
GoesOver(S, T, x, C) == (S \o T) \o (x \o C) = (S \o (T \o x)) \o C

LEMMA TakeMoves ==
  ASSUME NEW S \in Seq(Chars), NEW T \in Seq(Chars), NEW x \in Seq(Chars), NEW C \in Seq(Chars)
  PROVE  GoesOver(S, T, x, C)
<1>1. S \o T \in Seq(Chars)
  BY Joined
<1>2. (S \o T) \o (x \o C) = ((S \o T) \o x) \o C
  <2>1. Regrouped(S \o T, x, C)
    BY <1>1, Regroup
  <2>2. QED  BY <2>1 DEF Regrouped
<1>3. S \o (T \o x) = (S \o T) \o x
  <2>1. Regrouped(S, T, x)
    BY Regroup
  <2>2. QED  BY <2>1 DEF Regrouped
<1>4. QED  BY <1>2, <1>3, Zenon DEF GoesOver

-----------------------------------------------------------------------------
(* The messages under way.                                                 *)
Packets == [of : Outputs, data : Seq(Bytes)]
Texts == [of : Outputs, data : Seq(Chars)]
ExitOf(c) == [of |-> "exit", data |-> <<c>>]
Exits(c) == IF c = None THEN {} ELSE {ExitOf(c)}
Has(messages, m) == \E i \in 1 .. Len(messages) : messages[i] = m

LEMMA PartsOfMessages ==
  ASSUME NEW o \in Outputs, NEW c
  PROVE  AllParts(Packets \cup Exits(c), o, Bytes) /\ AllParts(Texts \cup Exits(c), o, Chars)
<1>1. \A m \in Exits(c) : m.of # o
  BY DEF Exits, ExitOf, Outputs
<1>2. <<>> \in Seq(Bytes) /\ <<>> \in Seq(Chars)
  BY EmptySeq
<1>3. AllParts(Packets \cup Exits(c), o, Bytes)
  BY <1>1, <1>2 DEF AllParts, Part, Packets
<1>4. AllParts(Texts \cup Exits(c), o, Chars)
  BY <1>1, <1>2 DEF AllParts, Part, Texts
<1>5. QED  BY <1>3, <1>4

LEMMA HasMore ==
  ASSUME NEW M, NEW messages \in Seq(M), NEW m \in M
  PROVE  /\ Append(messages, m) \in Seq(M) /\ Has(Append(messages, m), m)
         /\ \A e : Has(messages, e) => Has(Append(messages, m), e)
<1> DEFINE longer == Append(messages, m)  N == Len(messages)
<1>1. /\ longer \in Seq(M) /\ Len(longer) = N + 1 /\ longer[N + 1] = m
      /\ \A i \in 1 .. N : longer[i] = messages[i]
      /\ N \in Nat
  BY AppendProperties
<1> HIDE DEF longer, N
<1>2. N + 1 \in 1 .. Len(longer)
  BY <1>1
<1>3. Has(longer, m)
  BY <1>1, <1>2 DEF Has
<1>4. ASSUME NEW e, NEW i \in 1 .. N, messages[i] = e PROVE Has(longer, e)
  <2>1. i \in 1 .. Len(longer) /\ longer[i] = e
    BY <1>1, <1>4
  <2>2. QED  BY <2>1 DEF Has
<1>5. \A e : Has(messages, e) => Has(longer, e)
  BY <1>4 DEF Has, N
<1>6. QED  BY <1>1, <1>3, <1>5 DEF longer

LEMMA HasLess ==
  ASSUME NEW M, NEW messages \in Seq(M), messages # <<>>, NEW e, Has(messages, e)
  PROVE  Head(messages) = e \/ Has(Tail(messages), e)
<1> DEFINE shorter == Tail(messages)  N == Len(shorter)
<1>1. /\ shorter \in Seq(M) /\ N = Len(messages) - 1 /\ Len(messages) \in Nat
      /\ \A i \in 1 .. N : shorter[i] = messages[i + 1]
  BY HeadTailProperties
<1>2. Head(messages) = messages[1]
  OBVIOUS
<1> HIDE DEF shorter, N
<1>3. PICK i \in 1 .. Len(messages) : messages[i] = e
  BY DEF Has
<1>4. CASE i = 1
  BY <1>2, <1>3, <1>4
<1>5. CASE i # 1
  <2>1. i - 1 \in 1 .. N /\ i - 1 + 1 = i
    BY <1>1, <1>5
  <2>2. shorter[i - 1] = e
    BY <1>1, <1>3, <2>1
  <2>3. QED  BY <2>1, <2>2 DEF Has, shorter, N
<1>6. QED  BY <1>4, <1>5

LEMMA HasNothing == \A e : ~Has(<<>>, e)
<1>1. Len(<<>>) = 0
  BY EmptySeq
<1>2. QED  BY <1>1 DEF Has

LEMMA SameMessages ==
  ASSUME NEW A, NEW B, A \subseteq B PROVE Seq(A) \subseteq Seq(B)
BY SeqMonotonic

LEMMA TakenSomething == \A T : \A f \in [Outputs -> T] : f # NoBatch
<1>1. ASSUME NEW T, NEW f \in [Outputs -> T], f = NoBatch PROVE FALSE
  <2>1. DOMAIN f = Outputs
    OBVIOUS
  <2>2. <<>> \in Seq({}) /\ Len(<<>>) = 0
    BY EmptySeq
  <2>3. DOMAIN NoBatch = 1 .. 0
    BY <2>2, LenProperties DEF NoBatch
  <2>4. "out" \in Outputs /\ "out" \notin 1 .. 0
    BY DEF Outputs
  <2>5. QED  BY <1>1, <2>1, <2>3, <2>4
<1>2. QED  BY <1>1

-----------------------------------------------------------------------------
(* The inductive invariant.                                                *)
Typed ==
  /\ program \in [Outputs -> Seq(Bytes)] /\ wrote \in [Outputs -> Seq(Bytes)]
  /\ pending \in [Outputs -> Seq(Bytes)]
  /\ unread \in Seq(Packets \cup Exits(status)) /\ queue \in Seq(Texts \cup Exits(status))
  /\ batch = NoBatch \/ batch \in [Outputs -> Seq(Chars)]
  /\ shown \in [Outputs -> Seq(Chars)]
  /\ code \in ExitCodes \cup {None} /\ status \in ExitCodes \cup {None}
  /\ ended \in {"no", "channel", "reader", "closed"}

(* What has been decoded, what is pending and what is unread make the text *)
(* of what was written, and go on doing so whatever is written next.       *)
TextGoesOn ==
  \A o \in Outputs : Makes(Decoded(o), pending[o], Carried(unread, o), wrote[o])

(* An exit status that was left is known, or still under way.              *)
StatusGoesOn ==
  /\ code \in {None, status}
  /\ code # status => Has(unread, ExitOf(status)) \/ Has(queue, ExitOf(status))

(* The tasks only end when nothing is left for them.                       *)
EndIsEmpty ==
  /\ ended \in {"reader", "closed"} => unread = <<>>
  /\ ended = "closed" => queue = <<>> /\ batch = NoBatch

OInv == Typed /\ TextGoesOn /\ StatusGoesOn /\ EndIsEmpty

LEMMA DecodedTyped ==
  ASSUME Typed, NEW o \in Outputs
  PROVE  /\ shown[o] \in Seq(Chars) /\ Taken(o) \in Seq(Chars)
         /\ Carried(queue, o) \in Seq(Chars) /\ Carried(unread, o) \in Seq(Bytes)
         /\ Decoded(o) \in Seq(Chars)
<1>1. shown[o] \in Seq(Chars)
  BY DEF Typed
<1>2. Taken(o) \in Seq(Chars)
  BY NothingMore DEF Typed, Taken
<1>3. Carried(queue, o) \in Seq(Chars)
  <2>1. AllParts(Texts \cup Exits(status), o, Chars) /\ queue \in Seq(Texts \cup Exits(status))
    BY PartsOfMessages DEF Typed
  <2>2. QED  BY <2>1, CarriedTyped
<1>4. Carried(unread, o) \in Seq(Bytes)
  <2>1. AllParts(Packets \cup Exits(status), o, Bytes) /\ unread \in Seq(Packets \cup Exits(status))
    BY PartsOfMessages DEF Typed
  <2>2. QED  BY <2>1, CarriedTyped
<1>5. (shown[o] \o Taken(o)) \o Carried(queue, o) \in Seq(Chars)
  <2>1. shown[o] \o Taken(o) \in Seq(Chars)
    BY <1>1, <1>2, Joined
  <2>2. QED  BY <1>3, <2>1, Joined
<1>6. QED  BY <1>1, <1>2, <1>3, <1>4, <1>5, Zenon DEF Decoded

LEMMA InitOInv == ASSUME OutputAssumption, Init PROVE OInv
<1>1. Typed
  <2>1. program \in [Outputs -> Seq(Bytes)]
    BY DEF Init, OutputAssumption, Outputs
  <2>2. Nothing \in [Outputs -> Seq(Bytes)] /\ Nothing \in [Outputs -> Seq(Chars)]
    BY NothingMore DEF Nothing
  <2>3. unread \in Seq(Packets \cup Exits(status)) /\ queue \in Seq(Texts \cup Exits(status))
    BY EmptySeq DEF Init
  <2>4. QED  BY <2>1, <2>2, <2>3 DEF Init, Typed
<1>2. ASSUME NEW o \in Outputs
      PROVE  Makes(Decoded(o), pending[o], Carried(unread, o), wrote[o])
  <2>1. /\ shown[o] = <<>> /\ Taken(o) = <<>> /\ Carried(queue, o) = <<>>
        /\ Carried(unread, o) = <<>> /\ pending[o] = <<>> /\ wrote[o] = <<>>
    BY CarriedNothing DEF Init, Nothing, Taken
  <2>2. <<>> \o <<>> = <<>>
    BY NothingMore
  <2>3. Decoded(o) = <<>>
    BY <2>1, <2>2, Zenon DEF Decoded
  <2>4. ASSUME NEW t \in Seq(Bytes)
        PROVE  <<>> \o Lossy[(<<>> \o <<>>) \o t] = Lossy[<<>> \o t]
    <3>1. <<>> \o t \in Seq(Bytes)
      BY NothingMore
    <3>2. Lossy[<<>> \o t] \in Seq(Chars)
      BY <3>1, LossyTyped
    <3>3. <<>> \o Lossy[<<>> \o t] = Lossy[<<>> \o t]
      BY <3>2, NothingMore
    <3>4. QED  BY <2>2, <3>3
  <2>5. Makes(<<>>, <<>>, <<>>, <<>>)
    BY <2>4 DEF Makes
  <2>6. QED  BY <2>1, <2>3, <2>5
<1>3. StatusGoesOn /\ EndIsEmpty
  BY DEF Init, StatusGoesOn, EndIsEmpty
<1>4. QED  BY <1>1, <1>2, <1>3 DEF OInv, TextGoesOn

-----------------------------------------------------------------------------
(* The steps.                                                              *)
LEMMA WriteKeeps ==
  ASSUME OInv, NEW o \in Outputs, NEW n \in 1 .. Len(program[o]), Write(o, n) PROVE OInv'
<1> DEFINE packet == SubSeq(program[o], 1, n)
           m == [of |-> o, data |-> packet]
<1> USE DEF OInv
<1>1. program[o] \in Seq(Bytes) /\ Len(program[o]) \in Nat
  BY DEF Typed
<1>2. packet \in Seq(Bytes) /\ SubSeq(program[o], n + 1, Len(program[o])) \in Seq(Bytes)
  <2>1. \A i \in 1 .. Len(program[o]) : program[o][i] \in Bytes
    BY <1>1, ElementOfSeq
  <2>2. \A i \in 1 .. n : program[o][i] \in Bytes
    BY <1>1, <2>1
  <2>3. \A i \in n + 1 .. Len(program[o]) : program[o][i] \in Bytes
    BY <1>1, <2>1
  <2>4. n \in Int /\ n + 1 \in Int /\ 1 \in Int /\ Len(program[o]) \in Int
    BY <1>1
  <2>5. packet \in Seq(Bytes)
    BY <2>2, <2>4, SubSeqProperties
  <2>6. QED  BY <2>3, <2>4, <2>5, SubSeqProperties
<1>3. /\ program' = [program EXCEPT ![o] = SubSeq(@, n + 1, Len(@))]
      /\ wrote' = [wrote EXCEPT ![o] = @ \o packet]
      /\ unread' = Append(unread, m) /\ ended = "no"
      /\ UNCHANGED <<pending, queue, batch, shown, code, status, ended>>
  BY DEF Write
<1>4. m \in Packets /\ m.of = o /\ m.data = packet
  BY <1>2 DEF Packets
<1> HIDE DEF packet, m
<1>5. unread \in Seq(Packets \cup Exits(status)) /\ m \in Packets \cup Exits(status)
  BY <1>4 DEF Typed
<1>6. /\ unread' \in Seq(Packets \cup Exits(status))
      /\ \A e : Has(unread, e) => Has(unread', e)
  BY <1>3, <1>5, HasMore
<1>7. Typed'
  <2>1. wrote[o] \o packet \in Seq(Bytes)
    BY <1>2, Joined DEF Typed
  <2>2. wrote' \in [Outputs -> Seq(Bytes)] /\ program' \in [Outputs -> Seq(Bytes)]
    BY <1>2, <1>3, <2>1 DEF Typed
  <2>3. QED  BY <1>3, <1>6, <2>2 DEF Typed
<1>8. ASSUME NEW p \in Outputs
      PROVE  Makes(Decoded(p), pending[p], Carried(unread', p), wrote'[p])
  <2> DEFINE x == Part(m, p)
  <2>1. x \in Seq(Bytes)
    BY <1>2, <1>4, NothingMore DEF Part
  <2>2. Carried(unread', p) = Carried(unread, p) \o x
    <3>1. AllParts(Packets \cup Exits(status), p, Bytes)
      BY PartsOfMessages
    <3>2. QED  BY <1>3, <1>5, <3>1, CarriedAppend
  <2>3. wrote'[p] = wrote[p] \o x
    <3>1. CASE p = o
      BY <1>3, <1>4, <3>1 DEF Part, Typed
    <3>2. CASE p # o
      <4>1. wrote'[p] = wrote[p] /\ wrote[p] \in Seq(Bytes) /\ x = <<>>
        BY <1>3, <1>4, <3>2 DEF Part, Typed
      <4>2. QED  BY <4>1, NothingMore
    <3>3. QED  BY <3>1, <3>2
  <2>4. /\ pending[p] \in Seq(Bytes) /\ wrote[p] \in Seq(Bytes)
        /\ Decoded(p) \in Seq(Chars) /\ Carried(unread, p) \in Seq(Bytes)
    BY DecodedTyped DEF Typed
  <2>5. Makes(Decoded(p), pending[p], Carried(unread, p), wrote[p])
    BY DEF TextGoesOn
  <2> HIDE DEF x
  <2>6. Makes(Decoded(p), pending[p], Carried(unread, p) \o x, wrote[p] \o x)
    BY <2>1, <2>4, <2>5, WriteMoves
  <2>7. QED  BY <2>2, <2>3, <2>6, Zenon
<1>9. TextGoesOn'
  BY <1>3, <1>8 DEF TextGoesOn, Decoded, Taken
<1>10. StatusGoesOn' /\ EndIsEmpty'
  BY <1>3, <1>6 DEF StatusGoesOn, EndIsEmpty
<1>11. QED  BY <1>7, <1>9, <1>10

LEMMA ExitKeeps ==
  ASSUME OutputAssumption, OInv, NEW c \in ExitCodes, Exit(c) PROVE OInv'
<1> DEFINE m == ExitOf(c)
<1> USE DEF OInv
<1>1. /\ status = None /\ status' = c /\ unread' = Append(unread, m) /\ ended = "no"
      /\ UNCHANGED <<program, wrote, pending, queue, batch, shown, code, ended>>
  BY DEF Exit, ExitOf
<1>2. c # None /\ Exits(None) = {} /\ Exits(c) = {m}
  BY DEF OutputAssumption, None, Exits
<1> HIDE DEF m
<1>3. unread \in Seq(Packets \cup Exits(c)) /\ queue \in Seq(Texts \cup Exits(c))
  <2>1. unread \in Seq(Packets \cup {}) /\ queue \in Seq(Texts \cup {})
    BY <1>1, <1>2 DEF Typed
  <2>2. /\ Packets \cup {} \subseteq Packets \cup Exits(c)
        /\ Texts \cup {} \subseteq Texts \cup Exits(c)
    OBVIOUS
  <2>3. QED  BY <2>1, <2>2, SameMessages
<1>4. m \in Packets \cup Exits(c)
  BY <1>2
<1>5. unread' \in Seq(Packets \cup Exits(c)) /\ Has(unread', m)
  BY <1>1, <1>3, <1>4, HasMore
<1>6. Typed'
  BY <1>1, <1>3, <1>5 DEF Typed
<1>7. ASSUME NEW p \in Outputs PROVE Carried(unread', p) = Carried(unread, p)
  <2>1. AllParts(Packets \cup Exits(c), p, Bytes)
    BY PartsOfMessages
  <2>2. Carried(unread', p) = Carried(unread, p) \o Part(m, p)
    BY <1>1, <1>3, <1>4, <2>1, CarriedAppend
  <2>3. Part(m, p) = <<>>
    BY DEF Part, m, ExitOf, Outputs
  <2>4. QED  BY <2>2, <2>3, DecodedTyped, NothingMore
<1>8. TextGoesOn'
  BY <1>1, <1>7 DEF TextGoesOn, Decoded, Taken
<1>9. StatusGoesOn' /\ EndIsEmpty'
  BY <1>1, <1>5 DEF StatusGoesOn, EndIsEmpty, m
<1>10. QED  BY <1>6, <1>8, <1>9

LEMMA ReadKeeps == ASSUME OInv, Read PROVE OInv'
<1> DEFINE m == Head(unread)
           d == Decode(pending[m.of] \o m.data)
<1> USE DEF OInv
<1>1. unread # <<>> /\ unread \in Seq(Packets \cup Exits(status))
  BY DEF Read, Typed
<1>2. m \in Packets \cup Exits(status) /\ unread' \in Seq(Packets \cup Exits(status))
  BY <1>1, HeadTailProperties DEF Read
<1>3. queue \in Seq(Texts \cup Exits(status)) /\ pending \in [Outputs -> Seq(Bytes)]
  BY DEF Typed
<1>4. /\ unread' = Tail(unread)
      /\ UNCHANGED <<program, wrote, batch, shown, code, status, ended>>
  BY DEF Read
<1>5. ASSUME NEW p \in Outputs
      PROVE  Carried(unread, p) = Part(m, p) \o Carried(unread', p)
  <2>1. AllParts(Packets \cup Exits(status), p, Bytes)
    BY PartsOfMessages
  <2>2. QED  BY <1>1, <1>4, <2>1, CarriedFirst
<1>6. ended = "no" \/ ended = "channel"
  BY <1>1 DEF EndIsEmpty, Typed
<1>7. Has(unread, ExitOf(status)) => m = ExitOf(status) \/ Has(unread', ExitOf(status))
  BY <1>1, <1>4, HasLess
<1>8. CASE m \in Exits(status)
  <2>1. m = ExitOf(status) /\ m.of = "exit"
    BY <1>8 DEF Exits, ExitOf
  <2>2. queue' = Append(queue, m) /\ pending' = pending
    BY <2>1 DEF Read
  <2> HIDE DEF m
  <2>3. m \in Texts \cup Exits(status)
    BY <1>8
  <2>4. /\ queue' \in Seq(Texts \cup Exits(status)) /\ Has(queue', m)
    BY <1>3, <2>2, <2>3, HasMore
  <2>5. Typed'
    BY <1>2, <1>4, <2>2, <2>4 DEF Typed
  <2>6. ASSUME NEW p \in Outputs
        PROVE  /\ Carried(unread', p) = Carried(unread, p)
               /\ Carried(queue', p) = Carried(queue, p)
    <3>1. Part(m, p) = <<>>
      BY <2>1 DEF Part, Outputs
    <3>2. Carried(unread, p) = <<>> \o Carried(unread', p)
      BY <1>5, <3>1
    <3>3. Carried(unread', p) \in Seq(Bytes)
      <4>1. AllParts(Packets \cup Exits(status), p, Bytes)
        BY PartsOfMessages
      <4>2. QED  BY <1>2, <4>1, CarriedTyped
    <3>4. Carried(queue', p) = Carried(queue, p) \o Part(m, p)
      <4>1. AllParts(Texts \cup Exits(status), p, Chars)
        BY PartsOfMessages
      <4>2. QED  BY <1>3, <2>2, <2>3, <4>1, CarriedAppend
    <3>5. QED  BY <3>1, <3>2, <3>3, <3>4, DecodedTyped, NothingMore
  <2>7. TextGoesOn'
    BY <1>4, <2>2, <2>6 DEF TextGoesOn, Decoded, Taken
  <2>8. StatusGoesOn'
    BY <1>4, <2>1, <2>4 DEF StatusGoesOn
  <2>9. EndIsEmpty'
    BY <1>4, <1>6 DEF EndIsEmpty
  <2>10. QED  BY <2>5, <2>7, <2>8, <2>9
<1>9. CASE m \in Packets
  <2> HIDE DEF m
  <2>1. m.of \in Outputs /\ m.data \in Seq(Bytes) /\ m.of # "exit"
    BY <1>9 DEF Packets, Outputs
  <2>2. /\ pending' = [pending EXCEPT ![m.of] = d.pending]
        /\ queue' = IF d.text = <<>> THEN queue
                    ELSE Append(queue, [of |-> m.of, data |-> d.text])
    BY <2>1 DEF Read, m
  <2>3. d.text \in Seq(Chars) /\ d.pending \in Seq(Bytes)
    <3>1. pending[m.of] \o m.data \in Seq(Bytes)
      BY <1>3, <2>1, Joined
    <3>2. QED  BY <3>1, DecodeKeeps
  <2> HIDE DEF d
  <2>4. [of |-> m.of, data |-> d.text] \in Texts \cup Exits(status)
    BY <2>1, <2>3 DEF Texts
  <2>5. /\ queue' \in Seq(Texts \cup Exits(status))
        /\ \A e : Has(queue, e) => Has(queue', e)
    BY <1>3, <2>2, <2>4, HasMore
  <2>6. pending' \in [Outputs -> Seq(Bytes)]
    BY <1>3, <2>1, <2>2, <2>3
  <2>7. Typed'
    BY <1>2, <1>4, <2>5, <2>6 DEF Typed
  <2>8. ASSUME NEW p \in Outputs
        PROVE  Carried(queue', p) = Carried(queue, p) \o (IF p = m.of THEN d.text ELSE <<>>)
    <3>1. Carried(queue, p) \in Seq(Chars)
      BY DecodedTyped
    <3>2. CASE d.text = <<>>
      BY <2>2, <3>1, <3>2, NothingMore
    <3>3. CASE d.text # <<>>
      <4> DEFINE e == [of |-> m.of, data |-> d.text]
      <4>1. queue' = Append(queue, e)
        BY <2>2, <3>3
      <4>2. AllParts(Texts \cup Exits(status), p, Chars)
        BY PartsOfMessages
      <4>3. Part(e, p) = IF p = m.of THEN d.text ELSE <<>>
        BY DEF Part
      <4>4. e \in Texts \cup Exits(status)
        BY <2>4
      <4> HIDE DEF e
      <4>5. Carried(queue', p) = Carried(queue, p) \o Part(e, p)
        BY <1>3, <4>1, <4>2, <4>4, CarriedAppend
      <4>6. QED  BY <4>3, <4>5
    <3>4. QED  BY <3>2, <3>3
  <2>9. ASSUME NEW p \in Outputs
        PROVE  Makes(Decoded(p)', pending'[p], Carried(unread', p), wrote[p])
    <3> DEFINE x == IF p = m.of THEN d.text ELSE <<>>
    <3>1. x \in Seq(Chars)
      BY <2>3, NothingMore
    <3>2. Decoded(p)' = Decoded(p) \o x
      <4>1. Decoded(p)' = (shown[p] \o Taken(p)) \o (Carried(queue, p) \o x)
        BY <1>4, <2>8 DEF Decoded, Taken
      <4>2. /\ shown[p] \in Seq(Chars) /\ Taken(p) \in Seq(Chars)
            /\ Carried(queue, p) \in Seq(Chars)
        BY DecodedTyped
      <4>3. shown[p] \o Taken(p) \in Seq(Chars)
        BY <4>2, Joined
      <4> HIDE DEF x
      <4>4. (shown[p] \o Taken(p)) \o (Carried(queue, p) \o x)
              = ((shown[p] \o Taken(p)) \o Carried(queue, p)) \o x
        <5>1. Regrouped(shown[p] \o Taken(p), Carried(queue, p), x)
          BY <3>1, <4>2, <4>3, Regroup
        <5>2. QED  BY <5>1, Zenon DEF Regrouped
      <4>5. QED  BY <4>1, <4>4, Zenon DEF Decoded
    <3>3. /\ Decoded(p) \in Seq(Chars) /\ pending[p] \in Seq(Bytes) /\ wrote[p] \in Seq(Bytes)
          /\ Carried(unread', p) \in Seq(Bytes)
      <4>1. AllParts(Packets \cup Exits(status), p, Bytes)
        BY PartsOfMessages
      <4>2. Carried(unread', p) \in Seq(Bytes)
        BY <1>2, <4>1, CarriedTyped
      <4>3. QED  BY <4>2, DecodedTyped DEF Typed
    <3>4. Makes(Decoded(p), pending[p], Part(m, p) \o Carried(unread', p), wrote[p])
      <4>1. Makes(Decoded(p), pending[p], Carried(unread, p), wrote[p])
        BY DEF TextGoesOn
      <4>2. QED  BY <1>5, <4>1, Zenon
    <3>5. CASE p = m.of
      <4>1. Part(m, p) = m.data /\ x = d.text /\ pending'[p] = d.pending
        BY <1>3, <2>1, <2>2, <3>5 DEF Part
      <4>2. d = Decode(pending[p] \o m.data)
        BY <3>5 DEF d
      <4>3. Makes(Decoded(p), pending[p], m.data \o Carried(unread', p), wrote[p])
        BY <3>4, <4>1, Zenon
      <4>4. Makes(Decoded(p) \o d.text, d.pending, Carried(unread', p), wrote[p])
        <5>1. Makes(Decoded(p) \o Decode(pending[p] \o m.data).text,
                    Decode(pending[p] \o m.data).pending, Carried(unread', p), wrote[p])
          BY <2>1, <3>3, <4>3, ReadMoves
        <5>2. QED  BY <4>2, <5>1, Zenon
      <4>5. QED  BY <3>2, <4>1, <4>4, Zenon
    <3>6. CASE p # m.of
      <4>1. Part(m, p) = <<>> /\ x = <<>> /\ pending'[p] = pending[p]
        BY <1>3, <2>2, <3>6 DEF Part
      <4>2. Decoded(p) \o x = Decoded(p)
        BY <3>3, <4>1, NothingMore
      <4>3. Part(m, p) \o Carried(unread', p) = Carried(unread', p)
        BY <3>3, <4>1, NothingMore
      <4> HIDE DEF x
      <4>4. QED  BY <3>2, <3>4, <4>1, <4>2, <4>3, Zenon
    <3>7. QED  BY <3>5, <3>6
  <2>10. TextGoesOn'
    BY <1>4, <2>9 DEF TextGoesOn
  <2>11. m # ExitOf(status)
    BY <2>1 DEF ExitOf
  <2>12. StatusGoesOn'
    BY <1>4, <1>7, <2>5, <2>11 DEF StatusGoesOn, m
  <2>13. EndIsEmpty'
    BY <1>4, <1>6 DEF EndIsEmpty
  <2>14. QED  BY <2>7, <2>10, <2>12, <2>13
<1>10. QED  BY <1>2, <1>8, <1>9

LEMMA TakeKeeps == ASSUME OutputAssumption, OInv, Take PROVE OInv'
<1> DEFINE m == Head(queue)
           had == IF batch = NoBatch THEN Nothing ELSE batch
<1> USE DEF OInv
<1>1. queue # <<>> /\ queue \in Seq(Texts \cup Exits(status))
  BY DEF Take, Typed
<1>2. m \in Texts \cup Exits(status) /\ queue' \in Seq(Texts \cup Exits(status))
  BY <1>1, HeadTailProperties DEF Take
<1>3. queue' = Tail(queue) /\ UNCHANGED <<program, wrote, unread, pending, shown, status, ended>>
  BY DEF Take
<1>4. /\ had \in [Outputs -> Seq(Chars)] /\ had # NoBatch
      /\ \A p \in Outputs : had[p] = Taken(p)
  <2>1. Nothing \in [Outputs -> Seq(Chars)] /\ \A p \in Outputs : Nothing[p] = <<>>
    BY NothingMore DEF Nothing
  <2>2. had \in [Outputs -> Seq(Chars)]
    BY <2>1 DEF Typed
  <2>3. had # NoBatch
    BY <2>2, TakenSomething
  <2>4. QED  BY <2>1, <2>2, <2>3 DEF Taken
<1>5. Has(queue, ExitOf(status)) => m = ExitOf(status) \/ Has(queue', ExitOf(status))
  BY <1>1, <1>3, HasLess
<1>6. m \in Exits(status) => m = ExitOf(status) /\ m.of = "exit" /\ m.data[1] = status
  BY DEF Exits, ExitOf
<1>7. m \in Texts => m.of \in Outputs /\ m.data \in Seq(Chars) /\ m.of # "exit"
  BY DEF Texts, Outputs
<1>8. IF m.of = "exit" THEN code' = m.data[1] /\ batch' = had
      ELSE code' = code /\ batch' = [had EXCEPT ![m.of] = @ \o m.data]
  BY DEF Take
<1> HIDE DEF m, had
<1>9. /\ batch' \in [Outputs -> Seq(Chars)] /\ batch' # NoBatch
      /\ \A p \in Outputs : batch'[p] = had[p] \o Part(m, p)
  <2>1. CASE m \in Exits(status)
    <3>1. batch' = had
      BY <1>6, <1>8, <2>1
    <3>2. \A p \in Outputs : Part(m, p) = <<>>
      BY <1>6, <2>1 DEF Part, Outputs
    <3>3. \A p \in Outputs : had[p] \o Part(m, p) = had[p]
      BY <1>4, <3>2, NothingMore
    <3>4. QED  BY <1>4, <3>1, <3>3
  <2>2. CASE m \in Texts
    <3>1. batch' = [had EXCEPT ![m.of] = @ \o m.data]
      BY <1>7, <1>8, <2>2
    <3>2. had[m.of] \o m.data \in Seq(Chars)
      BY <1>4, <1>7, <2>2, Joined
    <3>3. batch' \in [Outputs -> Seq(Chars)]
      BY <1>4, <1>7, <2>2, <3>1, <3>2
    <3>4. ASSUME NEW p \in Outputs PROVE batch'[p] = had[p] \o Part(m, p)
      <4>1. CASE p = m.of
        BY <1>4, <3>1, <4>1 DEF Part
      <4>2. CASE p # m.of
        <5>1. batch'[p] = had[p] /\ Part(m, p) = <<>> /\ had[p] \in Seq(Chars)
          BY <1>4, <3>1, <4>2 DEF Part
        <5>2. QED  BY <5>1, NothingMore
      <4>3. QED  BY <4>1, <4>2
    <3>5. batch' # NoBatch
      BY <3>3, TakenSomething
    <3>6. QED  BY <3>3, <3>4, <3>5
  <2>3. QED  BY <1>2, <2>1, <2>2
<1>10. code' \in ExitCodes \cup {None} /\ code' \in {None, status}
  <2>1. CASE m \in Exits(status)
    BY <1>6, <1>8, <2>1 DEF Typed
  <2>2. CASE m \in Texts
    BY <1>7, <1>8, <2>2 DEF Typed, StatusGoesOn
  <2>3. QED  BY <1>2, <2>1, <2>2
<1>11. Typed'
  BY <1>2, <1>3, <1>9, <1>10 DEF Typed
<1>12. ASSUME NEW p \in Outputs PROVE Decoded(p)' = Decoded(p)
  <2>1. Taken(p)' = Taken(p) \o Part(m, p)
    BY <1>4, <1>9 DEF Taken
  <2>2. AllParts(Texts \cup Exits(status), p, Chars)
    BY PartsOfMessages
  <2>3. Carried(queue, p) = Part(m, p) \o Carried(queue', p)
    BY <1>1, <1>3, <2>2, CarriedFirst DEF m
  <2>4. Part(m, p) \in Seq(Chars) /\ Carried(queue', p) \in Seq(Chars)
    <3>1. Part(m, p) \in Seq(Chars)
      BY <1>2, <2>2 DEF AllParts
    <3>2. QED  BY <1>2, <2>2, <3>1, CarriedTyped
  <2>5. shown[p] \in Seq(Chars) /\ Taken(p) \in Seq(Chars)
    BY DecodedTyped
  <2>6. (shown[p] \o Taken(p)) \o (Part(m, p) \o Carried(queue', p))
          = (shown[p] \o (Taken(p) \o Part(m, p))) \o Carried(queue', p)
    <3>1. GoesOver(shown[p], Taken(p), Part(m, p), Carried(queue', p))
      BY <2>4, <2>5, TakeMoves
    <3>2. QED  BY <3>1, Zenon DEF GoesOver
  <2>7. Decoded(p)' = (shown[p] \o Taken(p)') \o Carried(queue', p)
    BY <1>3 DEF Decoded
  <2>8. Decoded(p) = (shown[p] \o Taken(p)) \o Carried(queue, p)
    BY DEF Decoded
  <2>9. QED  BY <2>1, <2>3, <2>6, <2>7, <2>8, Zenon
<1>13. TextGoesOn'
  BY <1>3, <1>12 DEF TextGoesOn
<1>14. StatusGoesOn'
  <2>1. CASE m \in Exits(status)
    BY <1>3, <1>6, <1>8, <2>1 DEF StatusGoesOn
  <2>2. CASE m \in Texts
    <3>1. code' = code /\ m # ExitOf(status)
      BY <1>7, <1>8, <2>2 DEF ExitOf
    <3>2. QED  BY <1>3, <1>5, <3>1 DEF StatusGoesOn
  <2>3. QED  BY <1>2, <2>1, <2>2
<1>15. EndIsEmpty'
  BY <1>1, <1>3 DEF EndIsEmpty
<1>16. QED  BY <1>11, <1>13, <1>14, <1>15

LEMMA EmitKeeps == ASSUME OInv, Emit PROVE OInv'
<1> USE DEF OInv
<1>1. /\ batch # NoBatch /\ batch' = NoBatch
      /\ shown' = [o \in Outputs |-> shown[o] \o batch[o]]
      /\ UNCHANGED <<program, wrote, unread, pending, queue, code, status, ended>>
  BY DEF Emit
<1>2. shown' \in [Outputs -> Seq(Chars)]
  <2>1. \A o \in Outputs : shown[o] \o batch[o] \in Seq(Chars)
    BY <1>1, Joined DEF Typed
  <2>2. QED  BY <1>1, <2>1
<1>3. Typed'
  BY <1>1, <1>2 DEF Typed
<1>4. ASSUME NEW p \in Outputs PROVE Decoded(p)' = Decoded(p)
  <2>1. shown'[p] = shown[p] \o Taken(p) /\ Taken(p)' = <<>>
    BY <1>1 DEF Taken
  <2>2. shown'[p] \in Seq(Chars)
    BY <1>2
  <2>3. shown'[p] \o <<>> = shown'[p]
    BY <2>2, NothingMore
  <2>4. Decoded(p)' = (shown'[p] \o Taken(p)') \o Carried(queue, p)
    BY <1>1 DEF Decoded
  <2>5. Decoded(p) = (shown[p] \o Taken(p)) \o Carried(queue, p)
    BY DEF Decoded
  <2>6. QED  BY <2>1, <2>3, <2>4, <2>5, Zenon
<1>5. TextGoesOn'
  BY <1>1, <1>4 DEF TextGoesOn
<1>6. StatusGoesOn' /\ EndIsEmpty'
  BY <1>1 DEF StatusGoesOn, EndIsEmpty
<1>7. QED  BY <1>3, <1>5, <1>6

LEMMA EndKeeps ==
  ASSUME OInv, ChannelEnds \/ ReaderEnds \/ Closed \/ UNCHANGED vars PROVE OInv'
<1> USE DEF OInv
<1>1. /\ UNCHANGED <<program, wrote, unread, pending, queue, batch, shown, code, status>>
      /\ \/ ended = "no" /\ ended' = "channel"
         \/ unread = <<>> /\ ended' = "reader"
         \/ ended = "reader" /\ queue = <<>> /\ batch = NoBatch /\ ended' = "closed"
         \/ ended' = ended
  BY DEF ChannelEnds, ReaderEnds, Closed, Finished, vars
<1>2. Typed'
  BY <1>1 DEF Typed
<1>3. TextGoesOn' /\ StatusGoesOn'
  BY <1>1 DEF TextGoesOn, StatusGoesOn, Decoded, Taken
<1>4. EndIsEmpty'
  BY <1>1 DEF EndIsEmpty
<1>5. QED  BY <1>2, <1>3, <1>4

LEMMA StepKeepsOInv == ASSUME OutputAssumption, OInv, [Next]_vars PROVE OInv'
<1>1. ASSUME NEW o \in Outputs, NEW n \in 1 .. Len(program[o]), Write(o, n) PROVE OInv'
  BY <1>1, WriteKeeps
<1>2. ASSUME NEW c \in ExitCodes, Exit(c) PROVE OInv'
  BY <1>2, ExitKeeps
<1>3. QED  BY <1>1, <1>2, ReadKeeps, TakeKeeps, EmitKeeps, EndKeeps DEF Next

(* The invariant of the runs follows.                                      *)
LEMMA OInvKeepsText == ASSUME OInv PROVE TypeOK /\ TextIsKept
<1> USE DEF OInv
<1>1. TypeOK
  <2>1. \A m \in Exits(status) : m.of = "exit"
    BY DEF Exits, ExitOf
  <2>2. \A m \in Range(unread) : m \in Packets \cup Exits(status)
    BY DEF Typed, Range
  <2>3. \A m \in Range(queue) : m \in Texts \cup Exits(status)
    BY DEF Typed, Range
  <2>4. \A m \in Range(unread) : m.of \in Outputs \cup {"exit"}
    BY <2>1, <2>2 DEF Packets
  <2>5. \A m \in Range(queue) : m.of \in Outputs \cup {"exit"}
    BY <2>1, <2>3 DEF Texts
  <2>6. QED  BY <2>4, <2>5 DEF Typed, TypeOK
<1>2. ASSUME NEW o \in Outputs
      PROVE  Decoded(o) \o Lossy[pending[o] \o Carried(unread, o)] = Lossy[wrote[o]]
  <2>1. Makes(Decoded(o), pending[o], Carried(unread, o), wrote[o])
    BY DEF TextGoesOn
  <2>2. Decoded(o) \o Lossy[(pending[o] \o Carried(unread, o)) \o <<>>] = Lossy[wrote[o] \o <<>>]
    BY <2>1, NothingMore, Zenon DEF Makes
  <2>3. pending[o] \o Carried(unread, o) \in Seq(Bytes) /\ wrote[o] \in Seq(Bytes)
    BY DecodedTyped, Joined DEF Typed
  <2>4. /\ (pending[o] \o Carried(unread, o)) \o <<>> = pending[o] \o Carried(unread, o)
        /\ wrote[o] \o <<>> = wrote[o]
    BY <2>3, NothingMore, Zenon
  <2>5. QED  BY <2>2, <2>4, Zenon
<1>3. ASSUME ended = "closed" PROVE code = status /\ \A o \in Outputs : shown[o] = Decoded(o)
  <2>1. unread = <<>> /\ queue = <<>> /\ batch = NoBatch
    BY <1>3 DEF EndIsEmpty
  <2>2. code = status
    BY <2>1, HasNothing DEF StatusGoesOn
  <2>3. ASSUME NEW o \in Outputs PROVE shown[o] = Decoded(o)
    <3>1. shown[o] \in Seq(Chars) /\ Taken(o) = <<>> /\ Carried(queue, o) = <<>>
      BY <2>1, CarriedNothing, DecodedTyped DEF Taken
    <3>2. shown[o] \o <<>> = shown[o]
      BY <3>1, NothingMore
    <3>3. Decoded(o) = (shown[o] \o <<>>) \o <<>>
      BY <3>1, Zenon DEF Decoded
    <3>4. QED  BY <3>2, <3>3, Zenon
  <2>4. QED  BY <2>2, <2>3
<1>4. QED  BY <1>1, <1>2, <1>3 DEF TextIsKept

-----------------------------------------------------------------------------
(* Every variable keeps its type; the text decoded, what is pending and    *)
(* what is unread make the text of what was written, whatever is written   *)
(* next; and an exit status is known or still under way.                   *)
THEOREM OutputInductive == ASSUME OutputAssumption PROVE Spec => []OInv
<1>1. Init => OInv  BY InitOInv
<1>2. OInv /\ [Next]_vars => OInv'  BY StepKeepsOInv
<1>3. QED  BY <1>1, <1>2, PTL DEF Spec
=============================================================================
