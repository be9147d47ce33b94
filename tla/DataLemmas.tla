---------------------------- MODULE DataLemmas ----------------------------
(***************************************************************************)
(* Facts about the data of the components, which no specification is       *)
(* needed for.  Sequences that model the linked lists of cutils/list.h:    *)
(* what an insertion and a removal leave at each position and in the set   *)
(* of elements.  Sequences that model messages: what those that are joined *)
(* have at each position.  Functions defined by recursion: that they       *)
(* exist.  The lists of cJSON (JsonList): what an edit leaves of the list  *)
(* it is made to and of the others.  What cJSON prints (JsonPrint) stays   *)
(* inside the buffer, whatever the document, and a string that it parses   *)
(* (JsonString) inside what is allocated for it, whatever the text.        *)
(***************************************************************************)
EXTENDS Integers, SequencesExt, SequenceTheorems, FiniteSetTheorems, WellFoundedInduction, TLAPS

\* InsertAt, list_add_head and list_add_after: the new element is at position
\* i, the others keep their order around it.
LEMMA InsertAtLemma ==
  ASSUME NEW S, NEW s \in Seq(S), NEW e \in S, NEW i \in 1..Len(s)+1
  PROVE  /\ InsertAt(s, i, e) \in Seq(S)
         /\ Len(InsertAt(s, i, e)) = Len(s) + 1
         /\ \A j \in 1..Len(s)+1 :
              InsertAt(s, i, e)[j] = IF j < i THEN s[j]
                                     ELSE IF j = i THEN e ELSE s[j-1]
<1> DEFINE a == SubSeq(s, 1, i-1)
           b == SubSeq(s, i, Len(s))
           c == a \o <<e>>
<1>0. /\ Len(s) \in Nat
      /\ \A j \in 1..Len(s) : s[j] \in S
  BY LenProperties, ElementOfSeq
<1>1. /\ a \in Seq(S) /\ Len(a) = i-1
      /\ \A j \in 1..i-1 : a[j] = s[j]
  <2>1. \A j \in 1..i-1 : s[j] \in S
    BY <1>0
  <2> QED BY <1>0, <2>1, SubSeqProperties
<1>2. /\ b \in Seq(S) /\ Len(b) = Len(s)-i+1
      /\ \A j \in 1..Len(s)-i+1 : b[j] = s[i+j-1]
  <2>1. \A j \in i..Len(s) : s[j] \in S
    BY <1>0
  <2>2. i \in Int /\ Len(s) \in Int
    BY <1>0
  <2> HIDE DEF b
  <2>3. /\ b \in Seq(S)
        /\ Len(b) = IF i <= Len(s) THEN Len(s)-i+1 ELSE 0
        /\ \A j \in 1..Len(s)-i+1 : b[j] = s[i+j-1]
    BY <2>1, <2>2, SubSeqProperties DEF b
  <2> QED BY <2>3, <1>0
<1>3. /\ <<e>> \in Seq(S) /\ Len(<<e>>) = 1 /\ <<e>>[1] = e
  OBVIOUS
<1> HIDE DEF a, b
<1>4. /\ c \in Seq(S) /\ Len(c) = i
      /\ \A j \in 1..i : c[j] = IF j < i THEN s[j] ELSE e
  <2>1. /\ c \in Seq(S) /\ Len(c) = Len(a) + 1
        /\ \A j \in 1..Len(a)+1 : c[j] = IF j <= Len(a) THEN a[j] ELSE <<e>>[j - Len(a)]
    BY <1>1, <1>3, ConcatProperties
  <2> QED BY <1>1, <1>3, <2>1
<1> HIDE DEF c
<1>5. /\ c \o b \in Seq(S) /\ Len(c \o b) = Len(c) + Len(b)
      /\ \A j \in 1..Len(c)+Len(b) : (c \o b)[j] = IF j <= Len(c) THEN c[j] ELSE b[j - Len(c)]
  BY <1>2, <1>4, ConcatProperties
<1>6. InsertAt(s, i, e) = c \o b
  BY DEF InsertAt, a, b, c
<1> QED BY <1>0, <1>2, <1>4, <1>5, <1>6

\* t is s with e put in at position i.
IsInsertion(t, s, i, e) ==
  /\ Len(t) = Len(s) + 1
  /\ \A j \in 1..Len(s)+1 : t[j] = IF j < i THEN s[j] ELSE IF j = i THEN e ELSE s[j-1]

\* The same fact in the form in which a step of a list cites it.
LEMMA InsertAtIs ==
  ASSUME NEW S, NEW s \in Seq(S), NEW e \in S, NEW i \in 1..Len(s)+1
  PROVE  InsertAt(s, i, e) \in Seq(S) /\ IsInsertion(InsertAt(s, i, e), s, i, e)
BY InsertAtLemma DEF IsInsertion

\* RemoveAt, list_remove: the elements after position i move up by one.
LEMMA RemoveAtLemma ==
  ASSUME NEW S, NEW s \in Seq(S), NEW i \in 1..Len(s)
  PROVE  /\ RemoveAt(s, i) \in Seq(S)
         /\ Len(RemoveAt(s, i)) = Len(s) - 1
         /\ \A j \in 1..Len(s)-1 :
              RemoveAt(s, i)[j] = IF j < i THEN s[j] ELSE s[j+1]
<1> DEFINE a == SubSeq(s, 1, i-1)
           b == SubSeq(s, i+1, Len(s))
<1>0. /\ Len(s) \in Nat
      /\ \A j \in 1..Len(s) : s[j] \in S
  BY LenProperties, ElementOfSeq
<1>1. /\ a \in Seq(S) /\ Len(a) = i-1
      /\ \A j \in 1..i-1 : a[j] = s[j]
  <2>1. \A j \in 1..i-1 : s[j] \in S
    BY <1>0
  <2> QED BY <1>0, <2>1, SubSeqProperties
<1>2. /\ b \in Seq(S) /\ Len(b) = Len(s)-i
      /\ \A j \in 1..Len(s)-i : b[j] = s[i+j]
  <2>1. \A j \in i+1..Len(s) : s[j] \in S
    BY <1>0
  <2>2. i+1 \in Int /\ Len(s) \in Int
    BY <1>0
  <2> HIDE DEF b
  <2>3. /\ b \in Seq(S)
        /\ Len(b) = IF i+1 <= Len(s) THEN Len(s)-(i+1)+1 ELSE 0
        /\ \A j \in 1..Len(s)-(i+1)+1 : b[j] = s[i+1+j-1]
    BY <2>1, <2>2, SubSeqProperties DEF b
  <2> QED BY <2>3, <1>0
<1> HIDE DEF a, b
<1>3. /\ a \o b \in Seq(S) /\ Len(a \o b) = Len(a) + Len(b)
      /\ \A j \in 1..Len(a)+Len(b) : (a \o b)[j] = IF j <= Len(a) THEN a[j] ELSE b[j - Len(a)]
  BY <1>1, <1>2, ConcatProperties
<1>4. RemoveAt(s, i) = a \o b
  BY DEF RemoveAt, a, b
<1>5. ASSUME NEW j \in 1..Len(s)-1
      PROVE  (a \o b)[j] = IF j < i THEN s[j] ELSE s[j+1]
  <2>1. CASE j < i
    BY <1>0, <1>1, <1>2, <1>3, <2>1
  <2>2. CASE j >= i
    <3>1. /\ j - (i-1) \in 1..Len(s)-i
          /\ i + (j - (i-1)) = j+1
      BY <1>0, <2>2
    <3>2. (a \o b)[j] = b[j - (i-1)]
      BY <1>0, <1>1, <1>2, <1>3, <2>2
    <3> QED BY <1>2, <2>2, <3>1, <3>2
  <2>3. i \in Int /\ j \in Int
    BY <1>0
  <2>4. j < i \/ j >= i
    BY <2>3
  <2> QED BY <2>1, <2>2, <2>4, Zenon
<1> QED BY <1>0, <1>1, <1>2, <1>3, <1>4, <1>5

\* t is s without what was at position i.
IsRemoval(t, s, i) ==
  /\ Len(t) = Len(s) - 1
  /\ \A j \in 1..Len(s)-1 : t[j] = IF j < i THEN s[j] ELSE s[j+1]

\* The same fact in the form in which a step of a list cites it.
LEMMA RemoveAtIs ==
  ASSUME NEW S, NEW s \in Seq(S), NEW i \in 1..Len(s)
  PROVE  RemoveAt(s, i) \in Seq(S) /\ IsRemoval(RemoveAt(s, i), s, i)
BY RemoveAtLemma DEF IsRemoval

\* Where an element was before the removal.
LEMMA BeforeRemoval ==
  ASSUME NEW s, Len(s) \in Nat, NEW i \in 1..Len(s), NEW t, IsRemoval(t, s, i),
         NEW k \in 1..Len(s)-1
  PROVE  \E k0 \in 1..Len(s) : t[k] = s[k0] /\ k0 = IF k < i THEN k ELSE k+1
<1>1. CASE k < i
  <2>1. t[k] = s[k]
    BY <1>1 DEF IsRemoval
  <2> QED BY <1>1, <2>1
<1>2. CASE ~(k < i)
  <2>1. t[k] = s[k+1]
    BY <1>2 DEF IsRemoval
  <2>2. k+1 \in 1..Len(s)
    OBVIOUS
  <2> QED BY <1>2, <2>1, <2>2
<1> QED BY <1>1, <1>2

\* An insertion adds one element to the set, and keeps elements distinct if the
\* new one is.
LEMMA InsertAtElements ==
  ASSUME NEW S, NEW s \in Seq(S), NEW e \in S, NEW i \in 1..Len(s)+1
  PROVE  /\ ToSet(InsertAt(s, i, e)) = ToSet(s) \cup {e}
         /\ IsInjective(s) /\ e \notin ToSet(s) => IsInjective(InsertAt(s, i, e))
<1> DEFINE t == InsertAt(s, i, e)
<1>1. /\ t \in Seq(S) /\ Len(t) = Len(s) + 1
      /\ \A j \in 1..Len(s)+1 : t[j] = IF j < i THEN s[j] ELSE IF j = i THEN e ELSE s[j-1]
  BY InsertAtLemma
<1>2. Len(s) \in Nat /\ DOMAIN s = 1..Len(s) /\ DOMAIN t = 1..Len(s)+1
  BY <1>1, LenProperties
<1> HIDE DEF t
<1>3. ASSUME NEW j \in 1..Len(s)
      PROVE  \E k \in 1..Len(s)+1 : t[k] = s[j]
  <2>1. CASE j < i
    BY <1>1, <1>2, <2>1
  <2>2. CASE j >= i
    <3>1. j+1 \in 1..Len(s)+1 /\ ~(j+1 < i) /\ j+1 # i /\ (j+1)-1 = j
      BY <1>2, <2>2
    <3>2. t[j+1] = s[j]
      BY <1>1, <3>1
    <3> QED BY <3>1, <3>2
  <2> QED BY <1>2, <2>1, <2>2
<1>4. t[i] = e
  BY <1>1, <1>2
<1>5. ASSUME NEW j \in 1..Len(s)+1
      PROVE  t[j] = e \/ \E k \in 1..Len(s) : t[j] = s[k]
  BY <1>1, <1>2
<1>6. ToSet(t) = ToSet(s) \cup {e}
  <2>1. ToSet(s) \cup {e} \subseteq ToSet(t)
    BY <1>2, <1>3, <1>4 DEF ToSet
  <2>2. ToSet(t) \subseteq ToSet(s) \cup {e}
    BY <1>2, <1>5 DEF ToSet
  <2> QED BY <2>1, <2>2
<1>7. ASSUME IsInjective(s), e \notin ToSet(s)
      PROVE  IsInjective(t)
  <2>1. \A a, b \in 1..Len(s) : s[a] = s[b] => a = b
    BY <1>2, <1>7 DEF IsInjective
  <2>2. \A a \in 1..Len(s) : s[a] # e
    BY <1>2, <1>7 DEF ToSet
  <2>3. ASSUME NEW a \in 1..Len(s)+1, NEW b \in 1..Len(s)+1, t[a] = t[b]
        PROVE  a = b
    BY <1>1, <1>2, <2>1, <2>2, <2>3
  <2> QED BY <1>2, <2>3 DEF IsInjective
<1> QED BY <1>6, <1>7 DEF t

\* A removal takes exactly the removed element out of the set when the elements
\* are distinct, and keeps them distinct.
LEMMA RemoveAtElements ==
  ASSUME NEW S, NEW s \in Seq(S), NEW i \in 1..Len(s)
  PROVE  /\ ToSet(RemoveAt(s, i)) \subseteq ToSet(s)
         /\ \A x \in ToSet(s) : x = s[i] \/ x \in ToSet(RemoveAt(s, i))
         /\ IsInjective(s) => /\ IsInjective(RemoveAt(s, i))
                              /\ s[i] \notin ToSet(RemoveAt(s, i))
<1> DEFINE t == RemoveAt(s, i)
<1>1. /\ t \in Seq(S) /\ Len(t) = Len(s) - 1
      /\ \A j \in 1..Len(s)-1 : t[j] = IF j < i THEN s[j] ELSE s[j+1]
  BY RemoveAtLemma
<1>2. Len(s) \in Nat /\ DOMAIN s = 1..Len(s) /\ DOMAIN t = 1..Len(s)-1
  BY <1>1, LenProperties
<1> HIDE DEF t
<1>3. ASSUME NEW j \in 1..Len(s)-1
      PROVE  \E k \in 1..Len(s) : t[j] = s[k] /\ k # i
  BY <1>1, <1>2
<1>4. ASSUME NEW j \in 1..Len(s), j # i
      PROVE  \E k \in 1..Len(s)-1 : t[k] = s[j]
  <2>1. CASE j < i
    BY <1>1, <1>2, <2>1
  <2>2. CASE j > i
    <3>1. j-1 \in 1..Len(s)-1 /\ ~(j-1 < i) /\ (j-1)+1 = j
      BY <1>2, <2>2
    <3>2. t[j-1] = s[j]
      BY <1>1, <3>1
    <3> QED BY <3>1, <3>2
  <2> QED BY <1>2, <1>4, <2>1, <2>2
<1>5. ToSet(t) \subseteq ToSet(s)
  BY <1>2, <1>3 DEF ToSet
<1>6. \A x \in ToSet(s) : x = s[i] \/ x \in ToSet(t)
  BY <1>2, <1>4 DEF ToSet
<1>7. ASSUME IsInjective(s)
      PROVE  IsInjective(t) /\ s[i] \notin ToSet(t)
  <2>1. \A a, b \in 1..Len(s) : s[a] = s[b] => a = b
    BY <1>2, <1>7 DEF IsInjective
  <2>2. ASSUME NEW a \in 1..Len(s)-1, NEW b \in 1..Len(s)-1, t[a] = t[b]
        PROVE  a = b
    BY <1>1, <1>2, <2>1, <2>2
  <2>3. s[i] \notin ToSet(t)
    BY <1>2, <1>3, <2>1 DEF ToSet
  <2> QED BY <1>2, <2>2, <2>3 DEF IsInjective
<1> QED BY <1>5, <1>6, <1>7 DEF t

\* Taking the first element is a removal at position 1.
LEMMA TailIsRemoveAt ==
  ASSUME NEW S, NEW s \in Seq(S), s # <<>>
  PROVE  /\ 1 \in 1..Len(s) /\ Head(s) = s[1]
         /\ Tail(s) = RemoveAt(s, 1)
<1>1. Len(s) \in Nat /\ Len(s) >= 1 /\ DOMAIN s = 1..Len(s)
  BY LenProperties, EmptySeq
<1>2. /\ Tail(s) \in Seq(S) /\ Len(Tail(s)) = Len(s)-1
      /\ \A j \in 1..Len(s)-1 : Tail(s)[j] = s[j+1]
  BY HeadTailProperties
<1>3. /\ RemoveAt(s, 1) \in Seq(S) /\ Len(RemoveAt(s, 1)) = Len(s)-1
      /\ \A j \in 1..Len(s)-1 : RemoveAt(s, 1)[j] = s[j+1]
  <2>1. 1 \in 1..Len(s)
    BY <1>1
  <2>2. /\ RemoveAt(s, 1) \in Seq(S) /\ Len(RemoveAt(s, 1)) = Len(s)-1
        /\ \A j \in 1..Len(s)-1 :
             RemoveAt(s, 1)[j] = IF j < 1 THEN s[j] ELSE s[j+1]
    BY <2>1, RemoveAtLemma
  <2>3. ASSUME NEW j \in 1..Len(s)-1
        PROVE  RemoveAt(s, 1)[j] = s[j+1]
    <3>1. ~(j < 1)
      BY <1>1
    <3> QED BY <2>2, <3>1, Zenon
  <2> QED BY <2>2, <2>3, Zenon
<1>4. Tail(s) = RemoveAt(s, 1)
  BY <1>1, <1>2, <1>3, SeqEqual
<1> QED BY <1>1, <1>4

-----------------------------------------------------------------------------
(* Recursion, and sequences that are joined                                *)

\* A set of natural numbers that is not empty has a least element.
LEMMA LeastNat ==
  ASSUME NEW T, T \subseteq Nat, T # {}
  PROVE  \E x \in T : \A y \in T : x <= y
<1>1. PICK x \in T : \A y \in T : ~ (<<y, x>> \in OpToRel(<, Nat))
  BY NatLessThanWellFounded, WFMin
<1>2. \A a, b \in Nat : a < b => <<a, b>> \in OpToRel(<, Nat)
  BY DEF OpToRel
<1>3. ASSUME NEW y \in T PROVE x <= y
  <2>1. x \in Nat /\ y \in Nat /\ ~(y < x)
    BY <1>1, <1>2
  <2> QED BY <2>1
<1> QED BY <1>3

\* f is a and then, step by step, what g makes of it.
Iterates(f, V, a, n, g) ==
  f \in [0..n -> V] /\ f[0] = a /\ \A i \in 1..n : f[i] = g[i][f[i-1]]

\* A function that is defined by recursion over 0..n exists.
LEMMA RecursionExists ==
  ASSUME NEW V, NEW a \in V, NEW n \in Nat,
         NEW g \in [1..n -> [V -> V]]
  PROVE  \E f : Iterates(f, V, a, n, g)
<1> DEFINE Has(m) == \E f : Iterates(f, V, a, m, g)
           T == {m \in 0..n : ~Has(m)}
<1>1. SUFFICES ASSUME T # {} PROVE FALSE
  <2>1. n \in T \/ Has(n)
    OBVIOUS
  <2> HIDE DEF T
  <2> QED BY <2>1
<1>2. PICK m \in T : \A y \in T : m <= y
  <2>1. T \subseteq Nat
    OBVIOUS
  <2> HIDE DEF T
  <2> QED BY <1>1, <2>1, LeastNat
<1>3. m \in 0..n /\ ~Has(m)
  OBVIOUS
<1>4. Has(0)
  <2> DEFINE h == [i \in 0..0 |-> a]
  <2>1. h \in [0..0 -> V] /\ h[0] = a /\ \A i \in 1..0 : h[i] = g[i][h[i-1]]
    OBVIOUS
  <2> HIDE DEF h
  <2> QED BY <2>1 DEF Iterates
<1>5. m # 0
  <2> HIDE DEF Has
  <2> QED BY <1>3, <1>4
<1>6. m-1 \in 0..n /\ m-1 \in Nat /\ ~(m <= m-1) /\ m \in 1..n
  BY <1>3, <1>5
<1>7. Has(m-1)
  <2>1. m-1 \in T \/ Has(m-1)
    BY <1>6
  <2> HIDE DEF T, Has
  <2> QED BY <1>2, <1>6, <2>1
<1>8. PICK f \in [0..m-1 -> V] : f[0] = a /\ \A i \in 1..m-1 : f[i] = g[i][f[i-1]]
  BY <1>7 DEF Iterates
<1> DEFINE h == [i \in 0..m |-> IF i = m THEN g[m][f[m-1]] ELSE f[i]]
<1>9. f[m-1] \in V /\ g[m][f[m-1]] \in V
  BY <1>6, <1>8
<1>10. h \in [0..m -> V]
  BY <1>6, <1>9
<1>11. h[0] = a
  BY <1>6, <1>8
<1>12. ASSUME NEW i \in 1..m PROVE h[i] = g[i][h[i-1]]
  <2>1. CASE i = m
    <3>1. h[m] = g[m][f[m-1]] /\ h[m-1] = f[m-1]
      BY <1>6
    <3> HIDE DEF h
    <3> QED BY <2>1, <3>1
  <2>2. CASE i # m
    <3>1. i \in 1..m-1 /\ h[i] = f[i] /\ h[i-1] = f[i-1]
      BY <1>6, <2>2
    <3> HIDE DEF h
    <3> QED BY <1>8, <2>2, <3>1
  <2> QED BY <2>1, <2>2
<1> HIDE DEF h
<1>13. Has(m)
  BY <1>10, <1>11, <1>12 DEF Iterates
<1> QED BY <1>3, <1>13

\* Numbers of which none is less than the one before are in order.
LEMMA Monotone ==
  ASSUME NEW n \in Nat, NEW P \in [0..n -> Nat], \A i \in 1..n : P[i-1] <= P[i]
  PROVE  \A j \in 0..n : \A i \in 0..j : P[i] <= P[j]
<1> DEFINE T == {j \in 0..n : ~ \A i \in 0..j : P[i] <= P[j]}
<1>1. SUFFICES ASSUME T # {} PROVE FALSE
  OBVIOUS
<1>2. PICK m \in T : \A y \in T : m <= y
  <2>1. T \subseteq Nat
    OBVIOUS
  <2> HIDE DEF T
  <2> QED BY <1>1, <2>1, LeastNat
<1>3. m \in 0..n /\ ~ \A i \in 0..m : P[i] <= P[m]
  OBVIOUS
<1>4. m # 0
  BY <1>3
<1>5. m-1 \in 0..n /\ m-1 \in Nat /\ ~(m <= m-1) /\ m \in 1..n
  BY <1>3, <1>4
<1>6. \A i \in 0..m-1 : P[i] <= P[m-1]
  <2>1. m-1 \in T \/ \A i \in 0..m-1 : P[i] <= P[m-1]
    BY <1>5
  <2> HIDE DEF T
  <2> QED BY <1>2, <1>5, <2>1
<1>7. P[m-1] <= P[m] /\ P[m-1] \in Nat /\ P[m] \in Nat
  BY <1>5
<1>8. ASSUME NEW i \in 0..m PROVE P[i] <= P[m]
  <2>1. CASE i = m
    BY <1>7, <2>1
  <2>2. CASE i # m
    <3>1. i \in 0..m-1 /\ P[i] \in Nat
      BY <1>5, <2>2
    <3>2. P[i] <= P[m-1]
      BY <1>6, <3>1
    <3> QED BY <1>7, <3>1, <3>2
  <2> QED BY <2>1, <2>2
<1> QED BY <1>3, <1>8

\* w is u and then v.
IsConcat(w, u, v) ==
  /\ Len(w) = Len(u) + Len(v)
  /\ \A k \in 1..Len(u) : w[k] = u[k]
  /\ \A k \in 1..Len(v) : w[Len(u) + k] = v[k]

\* A concatenation in this form.
LEMMA ConcatIs ==
  ASSUME NEW S, NEW u \in Seq(S), NEW v \in Seq(S)
  PROVE  u \o v \in Seq(S) /\ IsConcat(u \o v, u, v)
<1> DEFINE w == u \o v
           m == Len(u)
           n == Len(v)
<1>1. /\ w \in Seq(S) /\ Len(w) = m + n
      /\ \A i \in 1..m+n : w[i] = IF i <= m THEN u[i] ELSE v[i - m]
  BY ConcatProperties
<1>2. m \in Nat /\ n \in Nat
  BY LenProperties
<1> HIDE DEF w, m, n
<1>3. ASSUME NEW k \in 1..m PROVE w[k] = u[k]
  <2>1. k \in 1..m+n /\ k <= m
    BY <1>2
  <2> QED BY <1>1, <2>1
<1>4. ASSUME NEW k \in 1..n PROVE w[m + k] = v[k]
  <2>1. m + k \in 1..m+n /\ ~(m + k <= m) /\ (m + k) - m = k
    BY <1>2
  <2>2. w[m + k] = v[(m + k) - m]
    BY <1>1, <2>1
  <2> QED BY <2>1, <2>2
<1> QED BY <1>1, <1>3, <1>4 DEF IsConcat, w, m, n

\* What joined sequences have at each position, if at[i] is the length of the first i.
LEMMA FlattenAt ==
  ASSUME NEW S, NEW ss \in Seq(Seq(S)), NEW P \in [0..Len(ss) -> Nat],
         P[0] = 0, \A i \in 1..Len(ss) : P[i] = P[i-1] + Len(ss[i])
  PROVE  /\ FlattenSeq(ss) \in Seq(S) /\ Len(FlattenSeq(ss)) = P[Len(ss)]
         /\ \A i \in 1..Len(ss) : \A j \in 1..Len(ss[i]) : FlattenSeq(ss)[P[i-1]+j] = ss[i][j]
<1> DEFINE n == Len(ss)
<1>0. /\ n = Len(ss) /\ n \in Nat /\ \A i \in 1..n : ss[i] \in Seq(S) /\ Len(ss[i]) \in Nat
      /\ P \in [0..n -> Nat] /\ \A i \in 1..n : P[i] = P[i-1] + Len(ss[i])
  BY LenProperties, ElementOfSeq
<1> HIDE DEF n
<1>1. CASE n = 0
  <2>1. ss = <<>>
    BY <1>0, <1>1, EmptySeq
  <2>2. FlattenSeq(ss) = ss
    BY <1>0, <1>1 DEF FlattenSeq
  <2> QED BY <1>1, <2>1, <2>2
<1>2. CASE n > 0
  <2> DEFINE flatten[i \in 1..n] == IF i = 1 THEN ss[i] ELSE flatten[i-1] \o ss[i]
             g == [i \in 1..n |-> [x \in Seq(S) |-> IF i = 1 THEN ss[i] ELSE x \o ss[i]]]
             Holds(m) == /\ flatten[m] \in Seq(S) /\ Len(flatten[m]) = P[m]
                         /\ \A i \in 1..m : \A j \in 1..Len(ss[i]) : flatten[m][P[i-1]+j] = ss[i][j]
  <2>1. FlattenSeq(ss) = flatten[n]
    BY <1>0, <1>2 DEF FlattenSeq, n
  <2>2. flatten = [i \in 1..n |-> IF i = 1 THEN ss[i] ELSE flatten[i-1] \o ss[i]]
    <3>1. g \in [1..n -> [Seq(S) -> Seq(S)]]
      <4>1. ASSUME NEW i \in 1..n, NEW x \in Seq(S)
            PROVE  (IF i = 1 THEN ss[i] ELSE x \o ss[i]) \in Seq(S)
        BY <1>0, ConcatProperties
      <4> QED BY <4>1
    <3>2. <<>> \in Seq(S)
      OBVIOUS
    <3>3. PICK f \in [0..n -> Seq(S)] : f[0] = <<>> /\ \A i \in 1..n : f[i] = g[i][f[i-1]]
      <4> DEFINE V == Seq(S)
      <4>1. g \in [1..n -> [V -> V]] /\ <<>> \in V
        BY <3>1, <3>2
      <4> HIDE DEF g, V
      <4>2. \E f : Iterates(f, V, <<>>, n, g)
        BY <1>0, <4>1, RecursionExists
      <4> QED BY <4>2 DEF V, Iterates
    <3> DEFINE h == [i \in 1..n |-> f[i]]
    <3>4. \A i \in 1..n : f[i-1] \in Seq(S) /\ f[i] = IF i = 1 THEN ss[i] ELSE f[i-1] \o ss[i]
      <4>1. ASSUME NEW i \in 1..n PROVE f[i-1] \in Seq(S)
        BY <1>0, <3>3
      <4>2. ASSUME NEW i \in 1..n PROVE f[i] = IF i = 1 THEN ss[i] ELSE f[i-1] \o ss[i]
        <5> QED BY <3>3, <4>1
      <4> QED BY <4>1, <4>2
    <3>5. h = [i \in 1..n |-> IF i = 1 THEN ss[i] ELSE h[i-1] \o ss[i]]
      <4>1. ASSUME NEW i \in 1..n PROVE h[i] = IF i = 1 THEN ss[i] ELSE h[i-1] \o ss[i]
        <5>1. i # 1 => i-1 \in 1..n
          BY <1>0
        <5> QED BY <3>4, <5>1
      <4> QED BY <4>1
    <3> HIDE DEF h, g
    <3> QED BY <3>5
  <2> HIDE DEF flatten
  <2> DEFINE T == {m \in 1..n : ~Holds(m)}
  <2>3. T = {}
    <3>1. SUFFICES ASSUME T # {} PROVE FALSE
      OBVIOUS
    <3>2. PICK m \in T : \A y \in T : m <= y
      <4>1. T \subseteq Nat
        OBVIOUS
      <4> HIDE DEF T
      <4> QED BY <3>1, <4>1, LeastNat
    <3>3. m \in 1..n /\ ~Holds(m)
      OBVIOUS
    <3>3a. m \in 1..n /\ m \in Int
      BY <1>0
    <3>4. P[0] = 0 /\ 0 + Len(ss[1]) = Len(ss[1]) /\ P[1] = Len(ss[1]) /\ flatten[1] = ss[1] /\ 1 \in 1..n
      <4>1. 1 \in 1..n /\ 1 - 1 = 0
        BY <1>0, <1>2
      <4>2. flatten[1] = ss[1]
        <5> QED BY <2>2, <4>1
      <4> QED BY <1>0, <4>1, <4>2
    <3>5. m # 1
      <4>1. Holds(1)
        <5>1. ASSUME NEW i \in 1..1, NEW j \in 1..Len(ss[i]) PROVE flatten[1][P[i-1]+j] = ss[i][j]
          <6>1. i = 1 /\ i - 1 = 0 /\ j \in Int /\ 0 + j = j
            OBVIOUS
          <6> QED BY <3>4, <6>1
        <5> QED BY <1>0, <3>4, <5>1
      <4> HIDE DEF Holds
      <4> QED BY <3>3, <4>1
    <3>6. m-1 \in 1..n /\ ~(m <= m-1)
      BY <1>0, <3>3, <3>5
    <3>7. Holds(m-1)
      <4>1. m-1 \in T \/ Holds(m-1)
        BY <3>6
      <4> HIDE DEF T, Holds
      <4> QED BY <3>2, <3>6, <4>1
    <3> DEFINE u == flatten[m-1]
               v == ss[m]
               w == flatten[m]
    <3>8. w = u \o v
      <4> QED BY <2>2, <3>3, <3>5
    <3>9. u \in Seq(S) /\ v \in Seq(S) /\ Len(u) = P[m-1] /\ Len(v) \in Nat
      BY <1>0, <3>3, <3>7
    <3>10. P[m] = P[m-1] + Len(v) /\ P[m-1] \in Nat
      <4>1. m-1 \in 0..n
        BY <1>0, <3>6
      <4> QED BY <1>0, <3>3, <4>1, Zenon
    <3>11. \A i \in 1..m-1 : \A j \in 1..Len(ss[i]) : u[P[i-1]+j] = ss[i][j]
      BY <3>7
    <3> HIDE DEF u, v, w
    <3>12. w \in Seq(S) /\ IsConcat(w, u, v)
      <4>1. u \in Seq(S) /\ v \in Seq(S)
        BY <3>9
      <4> QED BY <3>8, <4>1, ConcatIs
    <3>13. Len(w) = P[m]
      BY <3>9, <3>10, <3>12 DEF IsConcat
    <3>14. ASSUME NEW i \in 1..m, NEW j \in 1..Len(ss[i]) PROVE w[P[i-1]+j] = ss[i][j]
      <4>1. CASE i = m
        <5>1. j \in 1..Len(v) /\ P[i-1] = Len(u) /\ v = ss[i]
          BY <3>9, <4>1 DEF v
        <5> QED BY <3>12, <5>1 DEF IsConcat
      <4>2. CASE i # m
        <5>0. i \in 1..m /\ i # m
          BY <4>2
        <5>1. i \in 1..m-1 /\ i \in 1..n /\ i-1 \in 0..n /\ i \in 0..m-1 /\ m-1 \in 0..n
          BY SMTT(30), <1>0, <3>3a, <3>6, <5>0
        <5>2. P[i] <= P[m-1]
          <6>1. \A k \in 1..n : P[k-1] <= P[k]
            <7>1. ASSUME NEW k \in 1..n PROVE P[k-1] <= P[k]
              <8>1. k-1 \in 0..n
                BY <1>0
              <8>2. P[k-1] \in Nat /\ P[k] = P[k-1] + Len(ss[k]) /\ Len(ss[k]) \in Nat
                BY <1>0, <8>1, Zenon
              <8> QED BY <8>2
            <7> QED BY <7>1
          <6>2. \A b \in 0..n : \A a \in 0..b : P[a] <= P[b]
            BY <1>0, <6>1, Monotone
          <6> QED BY <5>1, <6>2
        <5>3. P[i] = P[i-1] + Len(ss[i]) /\ P[i-1] \in Nat /\ Len(ss[i]) \in Nat
          BY <1>0, <5>1
        <5> DEFINE c == P[i-1]
                   d == P[i]
                   e == Len(ss[i])
                   l == Len(u)
        <5>4. c + j \in 1..l
          <6>1. d = c + e /\ c \in Nat /\ e \in Nat /\ d <= l /\ j \in 1..e /\ l \in Nat
            BY <3>9, <3>10, <5>2, <5>3
          <6> HIDE DEF c, d, e, l
          <6> QED BY <6>1
        <5>5. w[c + j] = u[c + j]
          BY <3>12, <5>4 DEF IsConcat
        <5> QED BY <3>11, <5>1, <5>5
      <4> QED BY <4>1, <4>2
    <3>15. Holds(m)
      BY <3>12, <3>14, <3>13 DEF w
    <3> QED BY <3>3, <3>15
  <2>4. Holds(n)
    <3>1. n \in 1..n
      BY <1>0, <1>2
    <3> QED BY <2>3, <3>1
  <2> QED BY <1>0, <2>1, <2>4
<1> QED BY <1>0, <1>1, <1>2

-----------------------------------------------------------------------------
(* The lists of cJSON: what an edit leaves of them                         *)

cJSON == INSTANCE JsonString

Heaps(N, D) ==
  [N -> [type : D, ref : D, name : D, value : D, child : N, prev : N, next : N]]

\* h1 is h after the assignment i->f = v, if b.
Assigned(h1, h, N, b, i, f, v) ==
  \A j \in N :
    /\ h1[j].type = h[j].type /\ h1[j].ref = h[j].ref
    /\ h1[j].name = h[j].name /\ h1[j].value = h[j].value
    /\ h1[j].child = IF b /\ j = i /\ f = "child" THEN v ELSE h[j].child
    /\ h1[j].prev = IF b /\ j = i /\ f = "prev" THEN v ELSE h[j].prev
    /\ h1[j].next = IF b /\ j = i /\ f = "next" THEN v ELSE h[j].next

\* An assignment to a link of a node, which is not made through NULL.
LEMMA PutIfIs ==
  ASSUME NEW N, NEW D, NEW h \in Heaps(N, D), NEW b \in BOOLEAN, NEW i, b => i \in N /\ i # cJSON!Null,
         NEW f \in {"child", "prev", "next"}, NEW v \in N
  PROVE  /\ cJSON!PutIf(b, h, i, f, v) \in Heaps(N, D)
         /\ Assigned(cJSON!PutIf(b, h, i, f, v), h, N, b, i, f, v)
<1>1. CASE b = FALSE
  BY <1>1 DEF cJSON!PutIf, Assigned, Heaps
<1>2. CASE b = TRUE
  <2> DEFINE n == [h[i] EXCEPT ![f] = v]
             h1 == [h EXCEPT ![i] = n]
             R == [type : D, ref : D, name : D, value : D, child : N, prev : N, next : N]
  <2>1. i \in N /\ i # cJSON!Null /\ h[i] \in R
    BY <1>2 DEF Heaps
  <2>2. cJSON!PutIf(b, h, i, f, v) = h1
    BY <1>2, <2>1 DEF cJSON!PutIf, cJSON!Put, Heaps
  <2>3. /\ n \in R
        /\ n.type = h[i].type /\ n.ref = h[i].ref /\ n.name = h[i].name /\ n.value = h[i].value
        /\ n.child = IF f = "child" THEN v ELSE h[i].child
        /\ n.prev = IF f = "prev" THEN v ELSE h[i].prev
        /\ n.next = IF f = "next" THEN v ELSE h[i].next
    BY <2>1
  <2> HIDE DEF n
  <2>4. h1 \in [N -> R] /\ \A j \in N : h1[j] = IF j = i THEN n ELSE h[j]
    <3>1. h \in [N -> R]
      BY DEF Heaps
    <3> HIDE DEF R
    <3> QED BY <2>1, <2>3, <3>1
  <2> HIDE DEF h1
  <2>5. Assigned(h1, h, N, b, i, f, v)
    BY <1>2, <2>3, <2>4 DEF Assigned
  <2> QED BY <2>2, <2>4, <2>5 DEF Heaps
<1> QED BY <1>1, <1>2

\* The same, without a condition.
LEMMA PutIs ==
  ASSUME NEW N, NEW D, NEW h \in Heaps(N, D), NEW i \in N, i # cJSON!Null,
         NEW f \in {"child", "prev", "next"}, NEW v \in N
  PROVE  /\ cJSON!Put(h, i, f, v) \in Heaps(N, D)
         /\ Assigned(cJSON!Put(h, i, f, v), h, N, TRUE, i, f, v)
<1>1. cJSON!Put(h, i, f, v) = cJSON!PutIf(TRUE, h, i, f, v)
  BY DEF cJSON!PutIf
<1> QED BY <1>1, PutIfIs

\* The children of the node p are the distinct nodes c.
IsFamily(h, N, p, c) ==
  /\ p \in N \ {cJSON!Null} /\ c \in Seq(N \ {cJSON!Null}) /\ IsInjective(c) /\ p \notin ToSet(c)
  /\ cJSON!IsList(h, p, c)

\* No more is written than the child of p and the links of the nodes in A.
OnlyLinks(h1, h, N, p, A) ==
  \A j \in N :
    /\ h1[j].type = h[j].type /\ h1[j].ref = h[j].ref
    /\ h1[j].name = h[j].name /\ h1[j].value = h[j].value
    /\ j # p => h1[j].child = h[j].child
    /\ j \notin A => h1[j].prev = h[j].prev /\ h1[j].next = h[j].next

\* A family, position by position.
LEMMA FamilyIs ==
  ASSUME NEW N, NEW h, NEW p, NEW c, IsFamily(h, N, p, c)
  PROVE  /\ Len(c) \in Nat
         /\ \A k \in 1..Len(c) : c[k] \in N /\ c[k] # cJSON!Null /\ c[k] # p
         /\ \A k, m \in 1..Len(c) : c[k] = c[m] => k = m
         /\ h[p].child = IF Len(c) = 0 THEN cJSON!Null ELSE c[1]
         /\ \A k \in 1..Len(c) : h[c[k]].next = IF k = Len(c) THEN cJSON!Null ELSE c[k+1]
         /\ \A k \in 2..Len(c) : h[c[k]].prev = c[k-1]
<1>1. c \in Seq(N \ {cJSON!Null}) /\ Len(c) \in Nat /\ DOMAIN c = 1..Len(c)
  BY LenProperties DEF IsFamily
<1>2. \A k \in 1..Len(c) : c[k] \in N \ {cJSON!Null}
  BY <1>1, ElementOfSeq
<1>3. \A k \in 1..Len(c) : c[k] # p
  BY <1>1 DEF IsFamily, ToSet
<1>4. \A k, m \in 1..Len(c) : c[k] = c[m] => k = m
  BY <1>1 DEF IsFamily, IsInjective
<1>5. c = <<>> <=> Len(c) = 0
  BY <1>1, EmptySeq
<1> QED BY <1>1, <1>2, <1>3, <1>4, <1>5 DEF IsFamily, cJSON!IsList

\* And back.
LEMMA IsFamilyIf ==
  ASSUME NEW N, NEW h, NEW p \in N, p # cJSON!Null, NEW c \in Seq(N \ {cJSON!Null}),
         \A k \in 1..Len(c) : c[k] # p,
         \A k, m \in 1..Len(c) : c[k] = c[m] => k = m,
         h[p].child = IF Len(c) = 0 THEN cJSON!Null ELSE c[1],
         \A k \in 1..Len(c) : h[c[k]].next = IF k = Len(c) THEN cJSON!Null ELSE c[k+1],
         \A k \in 2..Len(c) : h[c[k]].prev = c[k-1]
  PROVE  IsFamily(h, N, p, c)
<1>1. Len(c) \in Nat /\ DOMAIN c = 1..Len(c) /\ (c = <<>> <=> Len(c) = 0)
  BY LenProperties, EmptySeq
<1>2. IsInjective(c) /\ p \notin ToSet(c)
  BY <1>1 DEF IsInjective, ToSet
<1> QED BY <1>1, <1>2 DEF IsFamily, cJSON!IsList

\* cJSON_DetachItemViaPointer: the item leaves the list, the links of which then
\* pass it by, and points nowhere.
THEOREM DetachKeepsLists ==
  ASSUME NEW N, cJSON!Null \in N, NEW D, NEW h \in Heaps(N, D), NEW p, NEW c, IsFamily(h, N, p, c),
         NEW k \in 1..Len(c)
  PROVE  LET h1 == cJSON!cJSON_DetachItemViaPointer(h, p, c[k])
         IN /\ h1 \in Heaps(N, D) /\ IsFamily(h1, N, p, RemoveAt(c, k))
            /\ cJSON!LastKnown(h, c) => cJSON!LastKnown(h1, RemoveAt(c, k))
            /\ h1[c[k]].prev = cJSON!Null /\ h1[c[k]].next = cJSON!Null
            /\ OnlyLinks(h1, h, N, p, ToSet(c))
<1> DEFINE n == Len(c)
           item == c[k]
           child == h[p].child
           next == h[item].next
           prev == h[item].prev
           h1 == cJSON!PutIf(item # child, h, prev, "next", next)
           h2 == cJSON!PutIf(next # cJSON!Null, h1, next, "prev", prev)
           h3 == cJSON!PutIf(item = child, h2, p, "child", next)
           h4 == cJSON!PutIf(item # child /\ next = cJSON!Null, h3, child, "prev", prev)
           h5 == cJSON!Put(h4, item, "prev", cJSON!Null)
           h6 == cJSON!Put(h5, item, "next", cJSON!Null)
           t == RemoveAt(c, k)
<1>1. /\ n \in Nat /\ k \in 1..n
      /\ \A i \in 1..n : c[i] \in N /\ c[i] # cJSON!Null /\ c[i] # p
      /\ \A i, m \in 1..n : c[i] = c[m] => i = m
      /\ child = c[1]
      /\ \A i \in 1..n : h[c[i]].next = IF i = n THEN cJSON!Null ELSE c[i+1]
      /\ \A i \in 2..n : h[c[i]].prev = c[i-1]
  BY FamilyIs
<1>2. /\ item \in N /\ item # cJSON!Null /\ item # p /\ child \in N /\ child # cJSON!Null
      /\ next = IF k = n THEN cJSON!Null ELSE c[k+1]
      /\ item = child <=> k = 1
      /\ k # 1 => prev = c[k-1] /\ k-1 \in 1..n
      /\ k # n => k+1 \in 1..n
  BY <1>1
<1>3. p \in N /\ p # cJSON!Null /\ next \in N /\ prev \in N
      /\ (item # child => prev # cJSON!Null)
  <2>1. prev \in N /\ next \in N
    BY <1>2 DEF Heaps
  <2> QED BY <1>1, <1>2, <2>1 DEF IsFamily
<1>4. cJSON!cJSON_DetachItemViaPointer(h, p, c[k]) = h6
  BY <1>2, <1>3 DEF cJSON!cJSON_DetachItemViaPointer
<1> HIDE DEF item, child, next, prev, h1, h2, h3, h4, h5, h6, n, t
<1>5. h1 \in Heaps(N, D) /\ Assigned(h1, h, N, item # child, prev, "next", next)
  BY <1>3, PutIfIs DEF h1
<1>6. h2 \in Heaps(N, D) /\ Assigned(h2, h1, N, next # cJSON!Null, next, "prev", prev)
  BY <1>3, <1>5, PutIfIs DEF h2
<1>7. h3 \in Heaps(N, D) /\ Assigned(h3, h2, N, item = child, p, "child", next)
  BY <1>3, <1>6, PutIfIs DEF h3
<1>8. h4 \in Heaps(N, D) /\ Assigned(h4, h3, N, item # child /\ next = cJSON!Null, child, "prev", prev)
  BY <1>2, <1>3, <1>7, PutIfIs DEF h4
<1>9. h5 \in Heaps(N, D) /\ Assigned(h5, h4, N, TRUE, item, "prev", cJSON!Null)
  BY <1>2, <1>8, PutIs DEF h5
<1>10. h6 \in Heaps(N, D) /\ Assigned(h6, h5, N, TRUE, item, "next", cJSON!Null)
  BY <1>2, <1>9, PutIs DEF h6
<1>11. \A j \in N :
         /\ h6[j].type = h[j].type /\ h6[j].ref = h[j].ref
         /\ h6[j].name = h[j].name /\ h6[j].value = h[j].value
         /\ h6[j].child = IF item = child /\ j = p THEN next ELSE h[j].child
         /\ h6[j].prev = IF j = item THEN cJSON!Null
                         ELSE IF item # child /\ next = cJSON!Null /\ j = child THEN prev
                         ELSE IF next # cJSON!Null /\ j = next THEN prev ELSE h[j].prev
         /\ h6[j].next = IF j = item THEN cJSON!Null
                         ELSE IF item # child /\ j = prev THEN next ELSE h[j].next
  BY <1>5, <1>6, <1>7, <1>8, <1>9, <1>10 DEF Assigned
<1>12. /\ t \in Seq(N \ {cJSON!Null}) /\ Len(t) = n - 1
       /\ \A j \in 1..n-1 : t[j] = IF j < k THEN c[j] ELSE c[j+1]
  BY RemoveAtLemma DEF IsFamily, n, t
<1>12a. ASSUME NEW i \in 1..n, i # k
       PROVE  /\ c[i] \in N /\ c[i] # item
              /\ c[i] = next <=> i = k+1
              /\ item # child => (c[i] = prev <=> i = k-1)
              /\ c[i] = child <=> i = 1
  BY <1>1, <1>2, <1>12a DEF item
<1>12b. ASSUME NEW i \in 1..n, i # k
       PROVE  h6[c[i]].next = IF i = n \/ (i = k-1 /\ k = n) THEN cJSON!Null
                              ELSE IF i = k-1 THEN c[k+1] ELSE c[i+1]
  <2>1. h6[c[i]].next = IF item # child /\ c[i] = prev THEN next ELSE h[c[i]].next
    BY <1>11, <1>12a, <1>12b
  <2>2. h[c[i]].next = IF i = n THEN cJSON!Null ELSE c[i+1]
    BY <1>1
  <2>3. i = k-1 => k # 1 /\ i # n
    BY <1>1
  <2> QED BY <1>2, <1>12a, <1>12b, <2>1, <2>2, <2>3
<1>12c. ASSUME NEW i \in 1..n, i # k
       PROVE  h6[c[i]].prev = IF (k # 1 /\ k = n /\ i = 1) \/ i = k+1 THEN prev ELSE h[c[i]].prev
  <2>1. h6[c[i]].prev = IF item # child /\ next = cJSON!Null /\ c[i] = child THEN prev
                        ELSE IF next # cJSON!Null /\ c[i] = next THEN prev ELSE h[c[i]].prev
    BY <1>11, <1>12a, <1>12c
  <2>2. next = cJSON!Null <=> k = n
    BY <1>1, <1>2
  <2>3. i = k+1 => k # n
    BY <1>1
  <2> QED BY <1>2, <1>12a, <1>12c, <2>1, <2>2, <2>3
<1>13. IsFamily(h6, N, p, t)
  <2>0. ASSUME NEW j \in 1..Len(t)
        PROVE  \E j0 \in 1..n : t[j] = c[j0] /\ j0 = IF j < k THEN j ELSE j+1
    <3>1. j \in 1..n-1 /\ j \in 1..n /\ j+1 \in 1..n
      BY <1>1, <1>12
    <3> QED BY <1>12, <3>1
  <2>1. \A j \in 1..Len(t) : t[j] # p
    BY <1>1, <2>0
  <2>2. ASSUME NEW j \in 1..Len(t), NEW m \in 1..Len(t), t[j] = t[m] PROVE j = m
    <3>1. PICK j0 \in 1..n : t[j] = c[j0] /\ j0 = IF j < k THEN j ELSE j+1
      BY <2>0
    <3>2. PICK m0 \in 1..n : t[m] = c[m0] /\ m0 = IF m < k THEN m ELSE m+1
      BY <2>0
    <3>3. j0 = m0
      BY <1>1, <2>2, <3>1, <3>2
    <3>4. j \in Int /\ m \in Int /\ k \in Int
      BY <1>1, <1>12
    <3> QED BY <3>1, <3>2, <3>3, <3>4
  <2>3. h6[p].child = IF Len(t) = 0 THEN cJSON!Null ELSE t[1]
    <3>1. h6[p].child = IF item = child THEN next ELSE child
      BY <1>3, <1>11 DEF child
    <3> QED BY <1>1, <1>2, <1>12, <3>1
  <2>4. ASSUME NEW j \in 1..Len(t) PROVE h6[t[j]].next = IF j = Len(t) THEN cJSON!Null ELSE t[j+1]
    <3>1. CASE j < k
      <4>1. t[j] = c[j] /\ j \in 1..n /\ j # k
        BY <1>1, <1>12, <3>1
      <4>2. j = k-1 /\ k # n => j+1 \in 1..n-1 /\ ~(j+1 < k) /\ (j+1)+1 = k+1
        BY <1>1
      <4>3. j # k-1 => j+1 \in 1..n-1 /\ j+1 < k /\ j # n
        BY <1>1, <3>1
      <4> QED BY <1>1, <1>12, <1>12b, <4>1, <4>2, <4>3
    <3>2. CASE ~(j < k)
      <4>1. t[j] = c[j+1] /\ j+1 \in 1..n /\ j+1 # k /\ j+1 # k-1
        BY <1>1, <1>12, <3>2
      <4>2. j # Len(t) => t[j+1] = c[(j+1)+1]
        BY <1>1, <1>12, <3>2
      <4>3. j+1 = n <=> j = Len(t)
        BY <1>1, <1>12
      <4> QED BY <1>12b, <4>1, <4>2, <4>3
    <3> QED BY <3>1, <3>2
  <2>5. ASSUME NEW j \in 2..Len(t) PROVE h6[t[j]].prev = t[j-1]
    <3>1. CASE j < k
      <4>1. t[j] = c[j] /\ j \in 2..n /\ j # k /\ j # k+1 /\ j # 1 /\ t[j-1] = c[j-1]
        BY <1>1, <1>12, <3>1
      <4>2. h6[c[j]].prev = h[c[j]].prev
        BY <1>12c, <4>1
      <4> QED BY <1>1, <4>1, <4>2
    <3>2. CASE ~(j < k)
      <4>1. t[j] = c[j+1] /\ j+1 \in 2..n /\ j+1 # k /\ j+1 # 1
        BY <1>1, <1>12, <3>2
      <4>2. h6[c[j+1]].prev = IF j+1 = k+1 THEN prev ELSE h[c[j+1]].prev
        BY <1>12c, <4>1
      <4>3. j = k => k # 1 /\ t[j-1] = c[k-1] /\ j+1 = k+1
        BY <1>1, <1>12
      <4>4. j # k => t[j-1] = c[(j+1)-1] /\ j+1 # k+1
        BY <1>1, <1>12, <3>2
      <4> QED BY <1>1, <1>2, <4>1, <4>2, <4>3, <4>4
    <3> QED BY <3>1, <3>2
  <2> QED BY <1>3, <1>12, <2>1, <2>2, <2>3, <2>4, <2>5, IsFamilyIf
<1>14. ASSUME cJSON!LastKnown(h, c) PROVE cJSON!LastKnown(h6, t)
  <2>1. SUFFICES ASSUME t # <<>> PROVE h6[t[1]].prev = t[n-1]
    BY <1>12 DEF cJSON!LastKnown
  <2>2. n > 1
    BY <1>1, <1>12, <2>1, EmptySeq
  <2>3. h[c[1]].prev = c[n]
    BY <1>1, <1>14, EmptySeq DEF cJSON!LastKnown, n
  <2>4. CASE k = 1
    <3>1. t[1] = c[2] /\ 2 \in 1..n /\ t[n-1] = c[n] /\ 2 = k+1 /\ 2 # k
      BY <1>1, <1>12, <2>2, <2>4
    <3>2. prev = c[n]
      BY <2>3, <2>4 DEF prev, item
    <3>3. h6[c[2]].prev = prev
      BY <1>12c, <3>1
    <3> QED BY <3>1, <3>2, <3>3
  <2>5. CASE k # 1
    <3>1. t[1] = c[1] /\ 1 \in 1..n /\ 1 # k /\ 1 # k+1
      BY <1>1, <1>12, <2>2, <2>5
    <3>2. h6[c[1]].prev = IF k = n THEN prev ELSE c[n]
      BY <1>12c, <2>3, <2>5, <3>1
    <3>3. t[n-1] = IF k = n THEN c[k-1] ELSE c[n]
      BY <1>1, <1>12, <2>2, <2>5
    <3> QED BY <1>2, <2>5, <3>1, <3>2, <3>3
  <2> QED BY <2>4, <2>5
<1>15. h6[item].prev = cJSON!Null /\ h6[item].next = cJSON!Null
  BY <1>2, <1>11
<1>16. OnlyLinks(h6, h, N, p, ToSet(c))
  <2>1. \A i \in 1..n : c[i] \in ToSet(c)
    BY <1>1, LenProperties DEF ToSet, n, IsFamily
  <2>2. item \in ToSet(c) /\ child \in ToSet(c) /\ (next # cJSON!Null => next \in ToSet(c))
        /\ (item # child => prev \in ToSet(c))
    BY <1>1, <1>2, <2>1 DEF item
  <2> QED BY <1>11, <2>2 DEF OnlyLinks
<1> QED BY <1>4, <1>10, <1>13, <1>14, <1>15, <1>16 DEF item, t

\* What the links are when e is put into a list at position k.
LEMMA LinkedIn ==
  ASSUME NEW N, NEW h, NEW p, NEW c, IsFamily(h, N, p, c),
         NEW e \in N, e # cJSON!Null, e # p, e \notin ToSet(c), NEW k \in 1..Len(c)+1, NEW h1,
         h1[p].child = IF k = 1 THEN e ELSE h[p].child,
         h1[e].next = IF k = Len(c)+1 THEN cJSON!Null ELSE c[k],
         h1[e].prev = IF k # 1 THEN c[k-1] ELSE IF c = <<>> THEN e ELSE h[c[1]].prev,
         \A i \in 1..Len(c) : h1[c[i]].next = IF i = k-1 THEN e ELSE h[c[i]].next,
         \A i \in 1..Len(c) : h1[c[i]].prev = IF i = k \/ (i = 1 /\ k = Len(c)+1) THEN e ELSE h[c[i]].prev
  PROVE  /\ IsFamily(h1, N, p, InsertAt(c, k, e))
         /\ cJSON!LastKnown(h, c) \/ c = <<>> => cJSON!LastKnown(h1, InsertAt(c, k, e))
<1> DEFINE n == Len(c)
           t == InsertAt(c, k, e)
<1>1. /\ n \in Nat /\ k \in 1..n+1 /\ k \in Int
      /\ \A i \in 1..n : c[i] \in N /\ c[i] # cJSON!Null /\ c[i] # p
      /\ \A i, m \in 1..n : c[i] = c[m] => i = m
      /\ h[p].child = IF n = 0 THEN cJSON!Null ELSE c[1]
      /\ \A i \in 1..n : h[c[i]].next = IF i = n THEN cJSON!Null ELSE c[i+1]
      /\ \A i \in 2..n : h[c[i]].prev = c[i-1]
  BY FamilyIs
<1>2. /\ c \in Seq(N \ {cJSON!Null}) /\ (c = <<>> <=> n = 0) /\ DOMAIN c = 1..n
      /\ \A i \in 1..n : c[i] # e
  <2>1. c \in Seq(N \ {cJSON!Null})
    BY DEF IsFamily
  <2> QED BY <2>1, LenProperties, EmptySeq DEF ToSet
<1>3. /\ t \in Seq(N \ {cJSON!Null}) /\ Len(t) = n + 1
      /\ \A j \in 1..n+1 : t[j] = IF j < k THEN c[j] ELSE IF j = k THEN e ELSE c[j-1]
  <2> DEFINE S == N \ {cJSON!Null}
  <2>1. c \in Seq(S) /\ e \in S /\ k \in 1..Len(c)+1
    BY <1>2
  <2> HIDE DEF S
  <2>2. /\ InsertAt(c, k, e) \in Seq(S)
        /\ Len(InsertAt(c, k, e)) = Len(c) + 1
        /\ \A j \in 1..Len(c)+1 :
             InsertAt(c, k, e)[j] = IF j < k THEN c[j] ELSE IF j = k THEN e ELSE c[j-1]
    BY <2>1, InsertAtLemma
  <2> QED BY <2>2 DEF S
<1>3a. /\ h1[p].child = IF k = 1 THEN e ELSE h[p].child
       /\ h1[e].next = IF k = n+1 THEN cJSON!Null ELSE c[k]
       /\ h1[e].prev = IF k # 1 THEN c[k-1] ELSE IF c = <<>> THEN e ELSE h[c[1]].prev
       /\ \A i \in 1..n : h1[c[i]].next = IF i = k-1 THEN e ELSE h[c[i]].next
       /\ \A i \in 1..n : h1[c[i]].prev = IF i = k \/ (i = 1 /\ k = n+1) THEN e ELSE h[c[i]].prev
  OBVIOUS
<1> HIDE DEF n, t
<1>4. ASSUME NEW j \in 1..n+1
      PROVE  \/ j = k /\ t[j] = e
             \/ \E j0 \in 1..n : j # k /\ t[j] = c[j0] /\ j0 = IF j < k THEN j ELSE j-1
  <2>1. j # k => (IF j < k THEN j ELSE j-1) \in 1..n
    BY <1>1
  <2> QED BY <1>1, <1>3, <2>1
<1>5. \A j \in 1..Len(t) : t[j] # p
  BY <1>1, <1>3, <1>4
<1>6. ASSUME NEW j \in 1..Len(t), NEW m \in 1..Len(t), t[j] = t[m] PROVE j = m
  <2>0. j \in 1..n+1 /\ m \in 1..n+1 /\ j \in Int /\ m \in Int
    BY <1>1, <1>3
  <2>1. CASE j = k \/ m = k
    BY <1>2, <1>4, <1>6, <2>0, <2>1
  <2>2. CASE j # k /\ m # k
    <3>1. PICK j0 \in 1..n : t[j] = c[j0] /\ j0 = IF j < k THEN j ELSE j-1
      BY <1>4, <2>0, <2>2
    <3>2. PICK m0 \in 1..n : t[m] = c[m0] /\ m0 = IF m < k THEN m ELSE m-1
      BY <1>4, <2>0, <2>2
    <3>3. j0 = m0
      BY <1>1, <1>6, <3>1, <3>2
    <3> QED BY <1>1, <2>0, <2>2, <3>1, <3>2, <3>3
  <2> QED BY <2>1, <2>2
<1>7. h1[p].child = IF Len(t) = 0 THEN cJSON!Null ELSE t[1]
  <2>1. 1 \in 1..n+1 /\ t[1] = IF 1 < k THEN c[1] ELSE e
    BY <1>1, <1>3
  <2>2. 1 < k => n # 0
    BY <1>1
  <2> QED BY <1>1, <1>3, <1>3a, <2>1, <2>2
<1>8. ASSUME NEW j \in 1..Len(t) PROVE h1[t[j]].next = IF j = Len(t) THEN cJSON!Null ELSE t[j+1]
  <2>1. CASE j = k
    <3>1. t[j] = e /\ (j # n+1 => t[j+1] = c[j])
      BY <1>1, <1>3, <2>1
    <3> QED BY <1>3, <1>3a, <2>1, <3>1
  <2>2. CASE j < k
    <3>1. j \in 1..n /\ t[j] = c[j] /\ j # Len(t) /\ j+1 \in 1..n+1
      BY <1>1, <1>3, <2>2
    <3>2. h1[c[j]].next = IF j = k-1 THEN e ELSE h[c[j]].next
      BY <1>3a, <3>1
    <3>3. CASE j = k-1
      <4>1. j+1 = k
        BY <1>1, <3>3
      <4>2. t[j+1] = e
        BY <1>3, <3>1, <4>1
      <4> QED BY <3>1, <3>2, <3>3, <4>2
    <3>4. CASE j # k-1
      <4>1. j+1 < k /\ j # n
        BY <1>1, <2>2, <3>4
      <4>2. t[j+1] = c[j+1]
        BY <1>3, <3>1, <4>1
      <4> QED BY <1>1, <3>1, <3>2, <3>4, <4>1, <4>2
    <3> QED BY <3>3, <3>4
  <2>3. CASE j > k
    <3>1. j-1 \in 1..n /\ t[j] = c[j-1] /\ j-1 # k-1 /\ (j-1 = n <=> j = Len(t)) /\ (j-1)+1 = j
      BY <1>1, <1>3, <2>3
    <3>2. h1[c[j-1]].next = IF j-1 = n THEN cJSON!Null ELSE c[j]
      BY <1>1, <1>3a, <3>1
    <3>3. j # Len(t) => t[j+1] = c[j]
      BY <1>1, <1>3, <2>3
    <3> QED BY <3>1, <3>2, <3>3
  <2>4. j \in Int
    OBVIOUS
  <2> QED BY <1>1, <2>1, <2>2, <2>3, <2>4
<1>9. ASSUME NEW j \in 2..Len(t) PROVE h1[t[j]].prev = t[j-1]
  <2>0. j \in Int /\ j-1 \in 1..n+1 /\ j \in 1..n+1
    BY <1>1, <1>3
  <2>1. CASE j = k
    <3>1. t[j] = e /\ t[j-1] = c[k-1] /\ k # 1
      BY <1>1, <1>3, <2>0, <2>1
    <3> QED BY <1>3a, <2>1, <3>1
  <2>2. CASE j < k
    <3>1. j \in 2..n /\ j \in 1..n /\ t[j] = c[j] /\ j # 1 /\ t[j-1] = c[j-1]
      BY <1>1, <1>3, <2>0, <2>2
    <3>2. j # k
      BY <2>0, <2>2, <1>1
    <3> QED BY <1>1, <1>3a, <3>1, <3>2
  <2>3. CASE j > k
    <3>1. j-1 \in 1..n /\ t[j] = c[j-1]
      BY <1>1, <1>3, <2>0, <2>3
    <3>2. CASE j-1 = k
      <4>1. t[j-1] = e
        BY <1>1, <1>3, <2>0, <3>2
      <4> QED BY <1>3a, <3>1, <3>2, <4>1
    <3>3. CASE j-1 # k
      <4>1. t[j-1] = c[(j-1)-1] /\ j-1 \in 2..n /\ j-1 # 1
        BY <1>1, <1>3, <2>0, <2>3, <3>3
      <4> QED BY <1>1, <1>3a, <3>1, <3>3, <4>1
    <3> QED BY <3>2, <3>3
  <2> QED BY <1>1, <2>0, <2>1, <2>2, <2>3
<1>10. IsFamily(h1, N, p, t)
  <2>1. p \in N /\ p # cJSON!Null
    BY DEF IsFamily
  <2> QED BY <1>3, <1>5, <1>6, <1>7, <1>8, <1>9, <2>1, IsFamilyIf
<1>11. ASSUME cJSON!LastKnown(h, c) \/ c = <<>> PROVE h1[t[1]].prev = t[n+1]
  <2>1. c # <<>> => h[c[1]].prev = c[n]
    BY <1>11 DEF cJSON!LastKnown, n
  <2>2. t[1] = (IF k = 1 THEN e ELSE c[1]) /\ t[n+1] = IF k = n+1 THEN e ELSE c[n]
    BY <1>1, <1>3
  <2>3. CASE n = 0
    BY <1>1, <1>2, <1>3a, <2>2, <2>3
  <2>4. CASE n # 0 /\ k = 1
    <3>1. k # n+1
      BY <1>1, <2>4
    <3> QED BY <1>2, <1>3a, <2>1, <2>2, <2>4, <3>1
  <2>5. CASE n # 0 /\ k # 1
    <3>1. 1 \in 1..n
      BY <1>1, <2>5
    <3> QED BY <1>2, <1>3a, <2>1, <2>2, <2>5, <3>1
  <2> QED BY <2>3, <2>4, <2>5
<1> QED BY <1>3, <1>10, <1>11 DEF cJSON!LastKnown, t

\* To append is to insert behind the last.
LEMMA AppendIsInsertAt ==
  ASSUME NEW S, NEW s \in Seq(S), NEW e \in S
  PROVE  Append(s, e) = InsertAt(s, Len(s)+1, e)
<1> DEFINE n == Len(s)
           t == InsertAt(s, n+1, e)
           u == Append(s, e)
<1>1. n \in Nat /\ n+1 \in 1..n+1
  BY LenProperties
<1>2. /\ t \in Seq(S) /\ Len(t) = n+1
      /\ \A j \in 1..n+1 : t[j] = IF j < n+1 THEN s[j] ELSE IF j = n+1 THEN e ELSE s[j-1]
  BY <1>1, InsertAtLemma
<1>3. /\ u \in Seq(S) /\ Len(u) = n+1
      /\ \A j \in 1..n : u[j] = s[j]
      /\ u[n+1] = e
  BY AppendProperties
<1> HIDE DEF n, t, u
<1>4. ASSUME NEW j \in 1..n+1 PROVE u[j] = t[j]
  <2>1. (j < n+1 /\ j \in 1..n) \/ (j = n+1 /\ ~(j < n+1))
    BY <1>1
  <2> QED BY <1>2, <1>3, <2>1
<1>5. u = t
  BY <1>2, <1>3, <1>4, SeqEqual
<1> QED BY <1>5 DEF u, t, n

\* add_item_to_array: a new item, which points at no next one, becomes the last.
THEOREM AppendKeepsLists ==
  ASSUME NEW N, cJSON!Null \in N, NEW D, NEW h \in Heaps(N, D), NEW p, NEW c, IsFamily(h, N, p, c),
         cJSON!LastKnown(h, c), NEW e \in N, e # cJSON!Null, e # p, e \notin ToSet(c), h[e].next = cJSON!Null
  PROVE  LET h1 == cJSON!add_item_to_array(h, p, e)
         IN /\ h1 \in Heaps(N, D) /\ IsFamily(h1, N, p, Append(c, e)) /\ cJSON!LastKnown(h1, Append(c, e))
            /\ OnlyLinks(h1, h, N, p, ToSet(c) \cup {e})
<1> DEFINE n == Len(c)
           t == InsertAt(c, n+1, e)
           child == h[p].child
           last == h[child].prev
           g == cJSON!add_item_to_array(h, p, e)
           Holds(x) == /\ x \in Heaps(N, D) /\ IsFamily(x, N, p, t) /\ cJSON!LastKnown(x, t)
                       /\ OnlyLinks(x, h, N, p, ToSet(c) \cup {e})
<1>1. /\ n \in Nat
      /\ \A i \in 1..n : c[i] \in N /\ c[i] # cJSON!Null /\ c[i] # p
      /\ \A i, m \in 1..n : c[i] = c[m] => i = m
      /\ child = IF n = 0 THEN cJSON!Null ELSE c[1]
      /\ \A i \in 1..n : h[c[i]].next = IF i = n THEN cJSON!Null ELSE c[i+1]
  BY FamilyIs
<1>2. /\ c \in Seq(N \ {cJSON!Null}) /\ (c = <<>> <=> n = 0) /\ DOMAIN c = 1..n
      /\ \A i \in 1..n : c[i] # e /\ c[i] \in ToSet(c)
  <2>1. c \in Seq(N \ {cJSON!Null})
    BY DEF IsFamily
  <2> QED BY <2>1, LenProperties, EmptySeq DEF ToSet
<1>3. p \in N /\ p # cJSON!Null /\ n+1 \in 1..n+1 /\ e # cJSON!Null /\ e # p /\ ~(n+1 = 1 /\ n # 0)
  BY <1>1 DEF IsFamily
<1>4. Append(c, e) = t
  <2> DEFINE S == N \ {cJSON!Null}
  <2>1. c \in Seq(S) /\ e \in S
    BY <1>2
  <2> HIDE DEF S
  <2> QED BY <2>1, AppendIsInsertAt
<1> HIDE DEF n, t, Holds
<1>5. ASSUME n = 0 PROVE Holds(g)
  <2> DEFINE h1 == cJSON!Put(h, p, "child", e)
             h2 == cJSON!Put(h1, e, "prev", e)
             h3 == cJSON!Put(h2, e, "next", cJSON!Null)
  <2>1. g = h3
    BY <1>1, <1>3, <1>5 DEF cJSON!add_item_to_array
  <2> HIDE DEF h1, h2, h3, g, child
  <2>2. h1 \in Heaps(N, D) /\ Assigned(h1, h, N, TRUE, p, "child", e)
    BY <1>3, PutIs DEF h1
  <2>3. h2 \in Heaps(N, D) /\ Assigned(h2, h1, N, TRUE, e, "prev", e)
    BY <1>3, <2>2, PutIs DEF h2
  <2>4. h3 \in Heaps(N, D) /\ Assigned(h3, h2, N, TRUE, e, "next", cJSON!Null)
    BY <1>3, <2>3, PutIs DEF h3
  <2>5. OnlyLinks(h3, h, N, p, ToSet(c) \cup {e})
    BY <2>2, <2>3, <2>4 DEF Assigned, OnlyLinks
  <2>6. h3[p].child = e /\ h3[e].next = cJSON!Null /\ h3[e].prev = e
    BY <1>3, <2>2, <2>3, <2>4 DEF Assigned
  <2>7. IsFamily(h3, N, p, t) /\ (cJSON!LastKnown(h, c) \/ c = <<>> => cJSON!LastKnown(h3, t))
    BY <1>2, <1>3, <1>5, <2>6, LinkedIn DEF n, t
  <2>8. Holds(h3)
    BY <2>4, <2>5, <2>7 DEF Holds
  <2> QED BY <2>1, <2>8
<1>6. ASSUME n # 0 PROVE Holds(g)
  <2> DEFINE h1 == cJSON!Put(h, last, "next", e)
             h2 == cJSON!Put(h1, e, "prev", last)
             h3 == cJSON!Put(h2, child, "prev", e)
  <2>1. child = c[1] /\ last = c[n] /\ 1 \in 1..n /\ n \in 1..n
    <3>1. child = c[1] /\ c # <<>> /\ 1 \in 1..n /\ n \in 1..n
      BY <1>1, <1>2, <1>6
    <3>2. h[c[1]].prev = c[n]
      BY <3>1 DEF cJSON!LastKnown, n
    <3> QED BY <3>1, <3>2
  <2>2. last \in N /\ last # cJSON!Null /\ child \in N /\ child # cJSON!Null /\ last # e /\ child # e
    BY <1>1, <1>2, <2>1
  <2>3. g = h3
    BY <1>3, <2>2 DEF cJSON!add_item_to_array, cJSON!suffix_object
  <2> HIDE DEF h1, h2, h3, g, child, last
  <2>4. h1 \in Heaps(N, D) /\ Assigned(h1, h, N, TRUE, last, "next", e)
    BY <1>3, <2>2, PutIs DEF h1
  <2>5. h2 \in Heaps(N, D) /\ Assigned(h2, h1, N, TRUE, e, "prev", last)
    BY <1>3, <2>2, <2>4, PutIs DEF h2
  <2>6. h3 \in Heaps(N, D) /\ Assigned(h3, h2, N, TRUE, child, "prev", e)
    BY <1>3, <2>2, <2>5, PutIs DEF h3
  <2>7. last \in ToSet(c) /\ child \in ToSet(c)
    BY <1>2, <2>1
  <2>8. OnlyLinks(h3, h, N, p, ToSet(c) \cup {e})
    BY <2>4, <2>5, <2>6, <2>7 DEF Assigned, OnlyLinks
  <2>9. h3[p].child = h[p].child /\ h3[e].next = cJSON!Null /\ h3[e].prev = c[n]
    BY <1>3, <2>1, <2>2, <2>4, <2>5, <2>6 DEF Assigned
  <2>10. ASSUME NEW i \in 1..n
         PROVE  /\ h3[c[i]].next = IF i = n THEN e ELSE h[c[i]].next
                /\ h3[c[i]].prev = IF i = 1 THEN e ELSE h[c[i]].prev
    <3>1. /\ c[i] \in N /\ c[i] # e
          /\ c[i] = last <=> i = n
          /\ c[i] = child <=> i = 1
      BY <1>1, <1>2, <2>1
    <3> QED BY <2>4, <2>5, <2>6, <3>1 DEF Assigned
  <2>11. /\ n+1 # 1 /\ (n+1)-1 = n
         /\ \A i \in 1..n : i # n+1
    BY <1>1, <1>6
  <2>12. IsFamily(h3, N, p, t) /\ (cJSON!LastKnown(h, c) \/ c = <<>> => cJSON!LastKnown(h3, t))
    <3> DEFINE k == n+1
    <3>1. k \in 1..Len(c)+1 /\ k = Len(c)+1 /\ k # 1 /\ k-1 = n
      BY <1>3, <2>11 DEF n
    <3> HIDE DEF k
    <3>2. /\ h3[p].child = IF k = 1 THEN e ELSE h[p].child
          /\ h3[e].next = IF k = Len(c)+1 THEN cJSON!Null ELSE c[k]
          /\ h3[e].prev = IF k # 1 THEN c[k-1] ELSE IF c = <<>> THEN e ELSE h[c[1]].prev
      BY <2>9, <3>1
    <3>3. ASSUME NEW i \in 1..Len(c)
          PROVE  /\ h3[c[i]].next = IF i = k-1 THEN e ELSE h[c[i]].next
                 /\ h3[c[i]].prev = IF i = k \/ (i = 1 /\ k = Len(c)+1) THEN e ELSE h[c[i]].prev
      <4>1. i \in 1..n /\ i # k
        BY <2>11 DEF n, k
      <4> QED BY <2>10, <3>1, <4>1
    <3>4. IsFamily(h3, N, p, InsertAt(c, k, e))
          /\ (cJSON!LastKnown(h, c) \/ c = <<>> => cJSON!LastKnown(h3, InsertAt(c, k, e)))
      BY <1>3, <3>1, <3>2, <3>3, LinkedIn
    <3> QED BY <3>4 DEF t, k
  <2>13. Holds(h3)
    BY <2>6, <2>8, <2>12 DEF Holds
  <2> QED BY <2>3, <2>13
<1> HIDE DEF g
<1>7. Holds(g)
  BY <1>1, <1>5, <1>6
<1> QED BY <1>4, <1>7 DEF Holds, g

\* cJSON_InsertItemInArray: a new item before the one at position k.
THEOREM InsertKeepsLists ==
  ASSUME NEW N, cJSON!Null \in N, NEW D, NEW h \in Heaps(N, D), NEW p, NEW c, IsFamily(h, N, p, c),
         NEW e \in N, e # cJSON!Null, e # p, e \notin ToSet(c), NEW k \in 1..Len(c)
  PROVE  LET h1 == cJSON!InsertBefore(h, p, c[k], e)
         IN /\ h1 \in Heaps(N, D) /\ IsFamily(h1, N, p, InsertAt(c, k, e))
            /\ cJSON!LastKnown(h, c) => cJSON!LastKnown(h1, InsertAt(c, k, e))
            /\ OnlyLinks(h1, h, N, p, ToSet(c) \cup {e})
<1> DEFINE n == Len(c)
           after == c[k]
           first == after = h[p].child
           prev == h[after].prev
           h1 == cJSON!Put(h, e, "next", after)
           h2 == cJSON!Put(h1, e, "prev", prev)
           h3 == cJSON!Put(h2, after, "prev", e)
           i4 == IF first THEN p ELSE prev
           f4 == IF first THEN "child" ELSE "next"
           h4 == cJSON!Put(h3, i4, f4, e)
<1>1. /\ n \in Nat /\ k \in 1..n /\ k \in 1..n+1 /\ k # n+1
      /\ \A i \in 1..n : c[i] \in N /\ c[i] # cJSON!Null /\ c[i] # p
      /\ \A i, m \in 1..n : c[i] = c[m] => i = m
      /\ h[p].child = c[1] /\ 1 \in 1..n
      /\ \A i \in 2..n : h[c[i]].prev = c[i-1]
  BY FamilyIs
<1>2. /\ c # <<>>
      /\ \A i \in 1..n : c[i] # e /\ c[i] \in ToSet(c)
  <2>1. c \in Seq(N \ {cJSON!Null})
    BY DEF IsFamily
  <2>2. c # <<>> /\ DOMAIN c = 1..n
    BY <1>1, <2>1, LenProperties, EmptySeq
  <2> QED BY <2>2 DEF ToSet
<1>3. /\ p \in N /\ p # cJSON!Null
      /\ after \in N /\ after # cJSON!Null /\ after # p /\ after # e /\ after \in ToSet(c)
      /\ first <=> k = 1
      /\ k # 1 => prev = c[k-1] /\ k-1 \in 1..n /\ prev # cJSON!Null /\ prev # e /\ prev \in ToSet(c)
  BY <1>1, <1>2 DEF IsFamily
<1>4. prev \in N
  BY <1>3 DEF Heaps
<1>5. cJSON!InsertBefore(h, p, after, e) = h4
  BY <1>3 DEF cJSON!InsertBefore
<1> HIDE DEF n, after, first, prev, h1, h2, h3, h4
<1>6. h1 \in Heaps(N, D) /\ Assigned(h1, h, N, TRUE, e, "next", after)
  BY <1>3, PutIs DEF h1
<1>7. h2 \in Heaps(N, D) /\ Assigned(h2, h1, N, TRUE, e, "prev", prev)
  BY <1>4, <1>6, PutIs DEF h2
<1>8. h3 \in Heaps(N, D) /\ Assigned(h3, h2, N, TRUE, after, "prev", e)
  BY <1>3, <1>7, PutIs DEF h3
<1>9. h4 \in Heaps(N, D) /\ Assigned(h4, h3, N, TRUE, i4, f4, e)
  <2>1. i4 \in N /\ i4 # cJSON!Null /\ f4 \in {"child", "prev", "next"}
    BY <1>3, <1>4
  <2> HIDE DEF i4, f4
  <2> QED BY <1>8, <2>1, PutIs DEF h4
<1>10. \A j \in N :
         /\ h4[j].type = h[j].type /\ h4[j].ref = h[j].ref
         /\ h4[j].name = h[j].name /\ h4[j].value = h[j].value
         /\ h4[j].child = IF k = 1 /\ j = p THEN e ELSE h[j].child
         /\ h4[j].prev = IF j = after THEN e ELSE IF j = e THEN prev ELSE h[j].prev
         /\ h4[j].next = IF k # 1 /\ j = prev THEN e ELSE IF j = e THEN after ELSE h[j].next
  BY <1>3, <1>6, <1>7, <1>8, <1>9 DEF Assigned
<1>11. OnlyLinks(h4, h, N, p, ToSet(c) \cup {e})
  BY <1>3, <1>10 DEF OnlyLinks
<1>12. /\ h4[p].child = IF k = 1 THEN e ELSE h[p].child
       /\ h4[e].next = IF k = n+1 THEN cJSON!Null ELSE c[k]
       /\ h4[e].prev = IF k # 1 THEN c[k-1] ELSE IF c = <<>> THEN e ELSE h[c[1]].prev
  <2>1. k = 1 => prev = h[c[1]].prev
    BY DEF prev, after
  <2> QED BY <1>1, <1>2, <1>3, <1>10, <2>1 DEF after
<1>13. ASSUME NEW i \in 1..n
       PROVE  /\ h4[c[i]].next = IF i = k-1 THEN e ELSE h[c[i]].next
              /\ h4[c[i]].prev = IF i = k \/ (i = 1 /\ k = n+1) THEN e ELSE h[c[i]].prev
  <2>1. /\ c[i] \in N /\ c[i] # e
        /\ c[i] = after <=> i = k
        /\ k # 1 => (c[i] = prev <=> i = k-1)
        /\ i = k-1 => k # 1
    BY <1>1, <1>2, <1>3 DEF after
  <2> QED BY <1>1, <1>10, <2>1
<1>14. IsFamily(h4, N, p, InsertAt(c, k, e))
       /\ (cJSON!LastKnown(h, c) \/ c = <<>> => cJSON!LastKnown(h4, InsertAt(c, k, e)))
  <2>1. k \in 1..Len(c)+1
    BY <1>1 DEF n
  <2> QED BY <1>12, <1>13, <2>1, LinkedIn DEF n
<1> QED BY <1>5, <1>9, <1>11, <1>14 DEF after

\* cJSON_ReplaceItemViaPointer: the replacement is where the item was, and the
\* item, which is then deleted, is in no list.
THEOREM ReplaceKeepsLists ==
  ASSUME NEW N, cJSON!Null \in N, NEW D, NEW h \in Heaps(N, D), NEW p, NEW c, IsFamily(h, N, p, c),
         NEW e \in N, e # cJSON!Null, e # p, e \notin ToSet(c), NEW k \in 1..Len(c)
  PROVE  LET h1 == cJSON!TakePlace(h, p, c[k], e)
         IN /\ h1 \in Heaps(N, D) /\ IsFamily(h1, N, p, [c EXCEPT ![k] = e])
            /\ cJSON!LastKnown(h, c) => cJSON!LastKnown(h1, [c EXCEPT ![k] = e])
            /\ h1[c[k]].prev = cJSON!Null /\ h1[c[k]].next = cJSON!Null
            /\ OnlyLinks(h1, h, N, p, ToSet(c) \cup {e})
<1> DEFINE n == Len(c)
           item == c[k]
           t == [c EXCEPT ![k] = e]
           child == h[p].child
           next == h[item].next
           prev == h[item].prev
           g0 == cJSON!Put(h, e, "next", next)
           g1 == cJSON!Put(g0, e, "prev", prev)
           g2 == cJSON!PutIf(next # cJSON!Null, g1, next, "prev", e)
           g3 == cJSON!PutIf(child = item /\ prev = child, g2, e, "prev", e)
           g4 == cJSON!PutIf(child = item, g3, p, "child", e)
           g5 == cJSON!PutIf(child # item /\ prev # cJSON!Null, g4, prev, "next", e)
           g6 == cJSON!PutIf(child # item /\ next = cJSON!Null, g5, child, "prev", e)
           g7 == cJSON!Put(g6, item, "next", cJSON!Null)
           g8 == cJSON!Put(g7, item, "prev", cJSON!Null)
<1>1. /\ n \in Nat /\ k \in 1..n /\ k \in Int
      /\ \A i \in 1..n : c[i] \in N /\ c[i] # cJSON!Null /\ c[i] # p
      /\ \A i, m \in 1..n : c[i] = c[m] => i = m
      /\ child = c[1] /\ 1 \in 1..n
      /\ \A i \in 1..n : h[c[i]].next = IF i = n THEN cJSON!Null ELSE c[i+1]
      /\ \A i \in 2..n : h[c[i]].prev = c[i-1]
  BY FamilyIs
<1>2. /\ c # <<>> /\ c \in Seq(N \ {cJSON!Null}) /\ DOMAIN c = 1..n
      /\ \A i \in 1..n : c[i] # e /\ c[i] \in ToSet(c)
  <2>1. c \in Seq(N \ {cJSON!Null})
    BY DEF IsFamily
  <2>2. c # <<>> /\ DOMAIN c = 1..n
    BY <1>1, <2>1, LenProperties, EmptySeq
  <2> QED BY <2>1, <2>2 DEF ToSet
<1>3. /\ p \in N /\ p # cJSON!Null /\ child \in N /\ child # cJSON!Null /\ child # p /\ child # e
      /\ item \in N /\ item # cJSON!Null /\ item # p /\ item # e
      /\ item = child <=> k = 1
      /\ next = IF k = n THEN cJSON!Null ELSE c[k+1]
      /\ k # n => k+1 \in 1..n /\ next # cJSON!Null /\ next # e /\ next # item /\ next # child
      /\ k # 1 => prev = c[k-1] /\ k-1 \in 1..n /\ prev # cJSON!Null /\ prev # e
      /\ child \in ToSet(c) /\ item \in ToSet(c)
      /\ (k # n => next \in ToSet(c)) /\ (k # 1 => prev \in ToSet(c))
  <2>1. k # n => k+1 \in 1..n /\ k+1 # k /\ k+1 # 1
    BY <1>1
  <2>2. k # 1 => k-1 \in 1..n /\ k \in 2..n
    BY <1>1
  <2>3. /\ p \in N /\ p # cJSON!Null /\ child \in N /\ child # cJSON!Null /\ child # p /\ child # e
        /\ item \in N /\ item # cJSON!Null /\ item # p /\ item # e
        /\ child \in ToSet(c) /\ item \in ToSet(c)
    BY <1>1, <1>2 DEF IsFamily
  <2>4. item = child <=> k = 1
    BY <1>1
  <2>5. next = IF k = n THEN cJSON!Null ELSE c[k+1]
    BY <1>1
  <2>6. k # n => next # cJSON!Null /\ next # e /\ next # item /\ next # child /\ next \in ToSet(c)
    BY <1>1, <1>2, <2>1, <2>5
  <2>7. k # 1 => prev = c[k-1]
    BY <1>1, <2>2
  <2>8. k # 1 => prev # cJSON!Null /\ prev # e /\ prev \in ToSet(c)
    BY <1>1, <1>2, <2>2, <2>7
  <2> QED BY <2>1, <2>2, <2>3, <2>4, <2>5, <2>6, <2>7, <2>8
<1>4. prev \in N /\ next \in N
  BY <1>3 DEF Heaps
<1>5. cJSON!TakePlace(h, p, item, e) = g8
  BY DEF cJSON!TakePlace
<1> HIDE DEF n, item, t, child, next, prev, g0, g1, g2, g3, g4, g5, g6, g7, g8
<1>6. g0 \in Heaps(N, D) /\ Assigned(g0, h, N, TRUE, e, "next", next)
  BY <1>4, PutIs DEF g0
<1>7. g1 \in Heaps(N, D) /\ Assigned(g1, g0, N, TRUE, e, "prev", prev)
  BY <1>4, <1>6, PutIs DEF g1
<1>8. g2 \in Heaps(N, D) /\ Assigned(g2, g1, N, next # cJSON!Null, next, "prev", e)
  BY <1>4, <1>7, PutIfIs DEF g2
<1>9. g3 \in Heaps(N, D) /\ Assigned(g3, g2, N, child = item /\ prev = child, e, "prev", e)
  BY <1>8, PutIfIs DEF g3
<1>10. g4 \in Heaps(N, D) /\ Assigned(g4, g3, N, child = item, p, "child", e)
  BY <1>3, <1>9, PutIfIs DEF g4
<1>11. g5 \in Heaps(N, D) /\ Assigned(g5, g4, N, child # item /\ prev # cJSON!Null, prev, "next", e)
  BY <1>4, <1>10, PutIfIs DEF g5
<1>12. g6 \in Heaps(N, D) /\ Assigned(g6, g5, N, child # item /\ next = cJSON!Null, child, "prev", e)
  BY <1>3, <1>11, PutIfIs DEF g6
<1>13. g7 \in Heaps(N, D) /\ Assigned(g7, g6, N, TRUE, item, "next", cJSON!Null)
  BY <1>3, <1>12, PutIs DEF g7
<1>14. g8 \in Heaps(N, D) /\ Assigned(g8, g7, N, TRUE, item, "prev", cJSON!Null)
  BY <1>3, <1>13, PutIs DEF g8
<1>15. ASSUME NEW j \in N
       PROVE  /\ g8[j].type = h[j].type /\ g8[j].ref = h[j].ref
              /\ g8[j].name = h[j].name /\ g8[j].value = h[j].value
              /\ g8[j].child = IF k = 1 /\ j = p THEN e ELSE h[j].child
  BY <1>3, <1>6, <1>7, <1>8, <1>9, <1>10, <1>11, <1>12, <1>13, <1>14 DEF Assigned
<1>16. ASSUME NEW j \in N
       PROVE  g8[j].next = IF j = item THEN cJSON!Null
                           ELSE IF k # 1 /\ j = prev THEN e
                           ELSE IF j = e THEN next ELSE h[j].next
  BY <1>3, <1>6, <1>7, <1>8, <1>9, <1>10, <1>11, <1>12, <1>13, <1>14 DEF Assigned
<1>17. ASSUME NEW j \in N
       PROVE  g8[j].prev = IF j = item THEN cJSON!Null
                           ELSE IF k # 1 /\ k = n /\ j = child THEN e
                           ELSE IF k # n /\ j = next THEN e
                           ELSE IF j = e THEN (IF k = 1 /\ prev = child THEN e ELSE prev)
                           ELSE h[j].prev
  <2>1. next # cJSON!Null <=> k # n
    BY <1>3
  <2> QED BY <1>3, <1>6, <1>7, <1>8, <1>9, <1>10, <1>11, <1>12, <1>13, <1>14, <2>1 DEF Assigned
<1>18. OnlyLinks(g8, h, N, p, ToSet(c) \cup {e})
  BY <1>3, <1>15, <1>16, <1>17 DEF OnlyLinks
<1>19. /\ t \in Seq(N \ {cJSON!Null}) /\ Len(t) = n
       /\ \A j \in 1..n : t[j] = IF j = k THEN e ELSE c[j]
  <2> DEFINE S == N \ {cJSON!Null}
  <2>1. c \in Seq(S) /\ e \in S /\ k \in 1..Len(c)
    BY <1>2
  <2> HIDE DEF S
  <2>2. t \in Seq(S) /\ Len(t) = Len(c) /\ \A j \in 1..Len(c) : t[j] = IF j = k THEN e ELSE c[j]
    BY <2>1, ExceptSeq DEF t
  <2> QED BY <2>2 DEF n, S

<1>20. ASSUME NEW i \in 1..n, i # k
       PROVE  /\ g8[c[i]].next = IF i = k-1 THEN e ELSE IF i = n THEN cJSON!Null ELSE c[i+1]
              /\ g8[c[i]].prev = IF (k # 1 /\ k = n /\ i = 1) \/ i = k+1 THEN e ELSE h[c[i]].prev
  <2>1. c[i] \in N /\ c[i] # item /\ c[i] # e
    BY <1>1, <1>2, <1>20 DEF item
  <2>2. /\ c[i] = child <=> i = 1
        /\ k # 1 => (c[i] = prev <=> i = k-1)
        /\ k # n => (c[i] = next <=> i = k+1)
    BY <1>1, <1>3
  <2>3. (i = k-1 => k # 1) /\ (i = k+1 => k # n)
    BY <1>1
  <2> QED BY <1>1, <1>16, <1>17, <2>1, <2>2, <2>3
<1>21. /\ g8[e].next = IF k = n THEN cJSON!Null ELSE c[k+1]
       /\ k # 1 => g8[e].prev = c[k-1]
       /\ k = 1 /\ prev = child => g8[e].prev = e
       /\ k = 1 /\ prev # child => g8[e].prev = prev
  BY <1>3, <1>16, <1>17
<1>22. IsFamily(g8, N, p, t)
  <2>1. \A j \in 1..Len(t) : t[j] # p
    BY <1>1, <1>19
  <2>2. ASSUME NEW j \in 1..Len(t), NEW m \in 1..Len(t), t[j] = t[m] PROVE j = m
    BY <1>1, <1>2, <1>19, <2>2
  <2>3. g8[p].child = IF Len(t) = 0 THEN cJSON!Null ELSE t[1]
    BY <1>1, <1>3, <1>15, <1>19 DEF child
  <2>4. ASSUME NEW j \in 1..Len(t) PROVE g8[t[j]].next = IF j = Len(t) THEN cJSON!Null ELSE t[j+1]
    <3>1. j \in 1..n /\ Len(t) = n /\ (j # n => j+1 \in 1..n)
      BY <1>1, <1>19
    <3>2. CASE j = k
      <4>1. t[j] = e /\ (j # n => t[j+1] = c[k+1])
        BY <1>1, <1>19, <3>1, <3>2
      <4> QED BY <1>21, <3>1, <3>2, <4>1
    <3>3. CASE j # k
      <4>1. t[j] = c[j]
        BY <1>19, <3>1, <3>3
      <4>2. j = k-1 => j+1 = k /\ j # n
        BY <1>1
      <4>3. j # k-1 => j+1 # k
        BY <1>1
      <4>4. j # n => t[j+1] = IF j+1 = k THEN e ELSE c[j+1]
        BY <1>19, <3>1
      <4>5. g8[c[j]].next = IF j = k-1 THEN e ELSE IF j = n THEN cJSON!Null ELSE c[j+1]
        BY <1>20, <3>1, <3>3
      <4> QED BY <3>1, <4>1, <4>2, <4>3, <4>4, <4>5
    <3> QED BY <3>2, <3>3
  <2>5. ASSUME NEW j \in 2..Len(t) PROVE g8[t[j]].prev = t[j-1]
    <3>1. j \in 1..n /\ j \in 2..n /\ j # 1 /\ j-1 \in 1..n
      BY <1>1, <1>19
    <3>2. CASE j = k
      <4>1. t[j] = e /\ t[j-1] = c[k-1] /\ k # 1
        BY <1>1, <1>19, <3>1, <3>2
      <4> QED BY <1>21, <4>1
    <3>3. CASE j # k
      <4>1. t[j] = c[j] /\ t[j-1] = IF j-1 = k THEN e ELSE c[j-1]
        BY <1>19, <3>1, <3>3
      <4>2. j-1 = k <=> j = k+1
        BY <1>1
      <4>3. g8[c[j]].prev = IF j = k+1 THEN e ELSE h[c[j]].prev
        BY <1>20, <3>1, <3>3
      <4>4. h[c[j]].prev = c[j-1]
        BY <1>1, <3>1
      <4> QED BY <4>1, <4>2, <4>3, <4>4
    <3> QED BY <3>2, <3>3
  <2> QED BY <1>3, <1>19, <2>1, <2>2, <2>3, <2>4, <2>5, IsFamilyIf
<1>23. ASSUME cJSON!LastKnown(h, c) PROVE g8[t[1]].prev = t[n]
  <2>1. h[c[1]].prev = c[n] /\ n \in 1..n
    <3>1. h[c[1]].prev = c[n]
      BY <1>2, <1>23 DEF cJSON!LastKnown, n
    <3> QED BY <1>1, <3>1
  <2>2. t[1] = (IF k = 1 THEN e ELSE c[1]) /\ t[n] = IF k = n THEN e ELSE c[n]
    BY <1>1, <1>19, <2>1
  <2>3. CASE k = 1
    <3>1. prev = c[n]
      BY <2>1, <2>3 DEF prev, item
    <3>2. c[n] = c[1] <=> n = 1
      BY <1>1, <2>1
    <3> QED BY <1>1, <1>21, <2>2, <2>3, <3>1, <3>2
  <2>4. CASE k # 1
    <3>1. 1 \in 1..n /\ 1 # k /\ 1 # k+1
      BY <1>1, <2>4
    <3>2. g8[c[1]].prev = IF k = n THEN e ELSE h[c[1]].prev
      BY <1>20, <2>4, <3>1
    <3> QED BY <2>1, <2>2, <2>4, <3>2
  <2> QED BY <2>3, <2>4
<1>24. cJSON!LastKnown(h, c) => cJSON!LastKnown(g8, t)
  BY <1>19, <1>23 DEF cJSON!LastKnown
<1>25. g8[item].prev = cJSON!Null /\ g8[item].next = cJSON!Null
  BY <1>3, <1>16, <1>17
<1> QED BY <1>5, <1>14, <1>18, <1>22, <1>24, <1>25 DEF item, t

\* An edit of one list leaves every other as it is, even if the one is inside the
\* other, and writes nothing through NULL.
THEOREM OtherListsKept ==
  ASSUME NEW N, cJSON!Null \in N, NEW D, NEW h \in Heaps(N, D), NEW h1 \in Heaps(N, D),
         NEW p, p # cJSON!Null, NEW A, cJSON!Null \notin A, OnlyLinks(h1, h, N, p, A),
         NEW q, NEW d, IsFamily(h, N, q, d), q # p, ToSet(d) \cap A = {}
  PROVE  /\ IsFamily(h1, N, q, d)
         /\ cJSON!LastKnown(h, d) => cJSON!LastKnown(h1, d)
         /\ h1[cJSON!Null] = h[cJSON!Null]
<1>1. /\ Len(d) \in Nat
      /\ \A i \in 1..Len(d) : d[i] \in N /\ d[i] # cJSON!Null /\ d[i] # q
      /\ \A i, m \in 1..Len(d) : d[i] = d[m] => i = m
      /\ h[q].child = IF Len(d) = 0 THEN cJSON!Null ELSE d[1]
      /\ \A i \in 1..Len(d) : h[d[i]].next = IF i = Len(d) THEN cJSON!Null ELSE d[i+1]
      /\ \A i \in 2..Len(d) : h[d[i]].prev = d[i-1]
  BY FamilyIs
<1>2. d \in Seq(N \ {cJSON!Null}) /\ DOMAIN d = 1..Len(d) /\ (d = <<>> <=> Len(d) = 0)
  <2>1. d \in Seq(N \ {cJSON!Null})
    BY DEF IsFamily
  <2> QED BY <2>1, LenProperties, EmptySeq
<1>3. \A i \in 1..Len(d) : d[i] \notin A
  BY <1>2 DEF ToSet
<1>4. \A i \in 1..Len(d) : h1[d[i]].next = h[d[i]].next /\ h1[d[i]].prev = h[d[i]].prev
  BY <1>1, <1>3 DEF OnlyLinks
<1>5. q \in N /\ q # cJSON!Null /\ h1[q].child = h[q].child
  BY DEF OnlyLinks, IsFamily
<1>6. IsFamily(h1, N, q, d)
  <2>1. \A i \in 2..Len(d) : i \in 1..Len(d)
    BY <1>1
  <2>2. \A i \in 2..Len(d) : h1[d[i]].prev = d[i-1]
    BY <1>1, <1>4, <2>1
  <2>3. h1[q].child = IF Len(d) = 0 THEN cJSON!Null ELSE d[1]
    BY <1>1, <1>5
  <2>4. \A i \in 1..Len(d) : h1[d[i]].next = IF i = Len(d) THEN cJSON!Null ELSE d[i+1]
    BY <1>1, <1>4
  <2>5. \A i \in 1..Len(d) : d[i] # q
    BY <1>1
  <2>6. \A i, m \in 1..Len(d) : d[i] = d[m] => i = m
    BY <1>1
  <2> QED BY <1>2, <1>5, <2>2, <2>3, <2>4, <2>5, <2>6, IsFamilyIf
<1>7. cJSON!LastKnown(h, d) => cJSON!LastKnown(h1, d)
  <2>1. d # <<>> => 1 \in 1..Len(d)
    <3>1. Len(d) # 0 => 1 \in 1..Len(d)
      BY <1>1
    <3> QED BY <1>2, <3>1
  <2> QED BY <1>4, <2>1 DEF cJSON!LastKnown
<1>8. h1[cJSON!Null] = h[cJSON!Null]
  <2>1. /\ h1[cJSON!Null].type = h[cJSON!Null].type /\ h1[cJSON!Null].ref = h[cJSON!Null].ref
        /\ h1[cJSON!Null].name = h[cJSON!Null].name /\ h1[cJSON!Null].value = h[cJSON!Null].value
        /\ h1[cJSON!Null].child = h[cJSON!Null].child
        /\ h1[cJSON!Null].prev = h[cJSON!Null].prev /\ h1[cJSON!Null].next = h[cJSON!Null].next
    BY DEF OnlyLinks
  <2>2. /\ h1[cJSON!Null] \in [type : D, ref : D, name : D, value : D, child : N, prev : N, next : N]
        /\ h[cJSON!Null] \in [type : D, ref : D, name : D, value : D, child : N, prev : N, next : N]
    BY DEF Heaps
  <2> QED BY <2>1, <2>2
<1> QED BY <1>6, <1>7, <1>8

-----------------------------------------------------------------------------
(* Counting up                                                             *)

\* What holds for 0, and for a number if it does for the one before, holds up to n.
LEMMA CountingUp ==
  ASSUME NEW n \in Nat, NEW G, 0 \in G, \A i \in 1..n : i-1 \in G => i \in G
  PROVE  \A i \in 0..n : i \in G
<1> DEFINE T == {i \in 0..n : i \notin G}
<1>1. SUFFICES ASSUME T # {} PROVE FALSE
  OBVIOUS
<1>2. PICK m \in T : \A y \in T : m <= y
  <2>1. T \subseteq Nat
    OBVIOUS
  <2> HIDE DEF T
  <2> QED BY <1>1, <2>1, LeastNat
<1>3. m \in 1..n /\ m-1 \in 0..n /\ ~(m <= m-1)
  OBVIOUS
<1>4. m-1 \in T \/ m-1 \in G
  BY <1>3
<1>5. m-1 \in G
  <2> HIDE DEF T
  <2> QED BY <1>2, <1>3, <1>4
<1> QED BY <1>3, <1>5

\* Sequences that are joined stay in their set.
LEMMA FlattenIn ==
  ASSUME NEW S, NEW ss \in Seq(Seq(S))
  PROVE  FlattenSeq(ss) \in Seq(S)
<1> DEFINE n == Len(ss)
           g == [i \in 1..n |-> [x \in Nat |-> x + Len(ss[i])]]
<1>1. n \in Nat /\ \A i \in 1..n : Len(ss[i]) \in Nat
  BY LenProperties, ElementOfSeq
<1>2. g \in [1..n -> [Nat -> Nat]]
  BY <1>1
<1>3. \A i \in 1..n : \A x \in Nat : g[i][x] = x + Len(ss[i])
  OBVIOUS
<1> HIDE DEF g
<1>4. PICK P : Iterates(P, Nat, 0, n, g)
  BY <1>1, <1>2, RecursionExists
<1>5. P \in [0..n -> Nat] /\ P[0] = 0 /\ \A i \in 1..n : P[i] = g[i][P[i-1]]
  BY <1>4 DEF Iterates
<1>6. ASSUME NEW i \in 1..n PROVE P[i] = P[i-1] + Len(ss[i])
  <2>1. i-1 \in 0..n
    BY <1>1
  <2>2. P[i-1] \in Nat
    BY <1>5, <2>1
  <2> QED BY <1>3, <1>5, <2>2
<1> QED BY <1>5, <1>6, FlattenAt

-----------------------------------------------------------------------------
(* Bytes                                                                   *)

\* A unit takes from one to five bytes.
LEMMA WidthIs == \A x : cJSON!Width(x) \in 1..5
BY DEF cJSON!Width

\* P counts the bytes of the units up to each place.
Counts(P, units) ==
  /\ P \in [0..Len(units) -> Nat] /\ P[0] = 0
  /\ \A i \in 1..Len(units) : P[i] = P[i-1] + cJSON!Width(units[i])

\* Bytes counts them all.
LEMMA BytesIs ==
  ASSUME NEW S, NEW u \in Seq(S)
  PROVE  \E P : Counts(P, u) /\ cJSON!Bytes(u) = P[Len(u)]
<1> DEFINE n == Len(u)
           w == [i \in 1..n |-> cJSON!Width(u[i])]
           g == [i \in 1..n |-> [x \in Nat |-> x + w[i]]]
           sum[k \in 0..n] == IF k = 0 THEN 0 ELSE sum[k-1] + cJSON!Width(u[k])
<1>1. n \in Nat
  BY LenProperties
<1>2. \A i \in 1..n : w[i] = cJSON!Width(u[i]) /\ w[i] \in Nat
  BY WidthIs
<1> HIDE DEF w
<1>3. g \in [1..n -> [Nat -> Nat]] /\ \A i \in 1..n : \A x \in Nat : g[i][x] = x + w[i]
  BY <1>2
<1> HIDE DEF g
<1>4. PICK P : Iterates(P, Nat, 0, n, g)
  BY <1>1, <1>3, RecursionExists
<1>5. P \in [0..n -> Nat] /\ P[0] = 0 /\ \A i \in 1..n : P[i] = g[i][P[i-1]]
  BY <1>4 DEF Iterates
<1>6. ASSUME NEW i \in 1..n PROVE P[i] = P[i-1] + cJSON!Width(u[i])
  <2>1. i-1 \in 0..n
    BY <1>1
  <2>2. P[i-1] \in Nat
    BY <1>5, <2>1
  <2> QED BY <1>2, <1>3, <1>5, <2>2
<1>7. P = [k \in 0..n |-> IF k = 0 THEN 0 ELSE P[k-1] + cJSON!Width(u[k])]
  <2>1. \A k \in 0..n : P[k] = IF k = 0 THEN 0 ELSE P[k-1] + cJSON!Width(u[k])
    <3>1. \A k \in 0..n : k = 0 \/ k \in 1..n
      BY <1>1
    <3> QED BY <1>5, <1>6, <3>1
  <2> QED BY <1>5, <2>1
<1>8. sum = [k \in 0..n |-> IF k = 0 THEN 0 ELSE sum[k-1] + cJSON!Width(u[k])]
  BY <1>7
<1>9. cJSON!Bytes(u) = sum[n]
  BY DEF cJSON!Bytes
<1> HIDE DEF sum, n
<1> DEFINE G == {k \in 0..n : sum[k] = P[k]}
<1>10. \A k \in 0..n : k \in G
  <2>1. 0 \in G
    BY <1>1, <1>5, <1>8
  <2>2. ASSUME NEW k \in 1..n, k-1 \in G PROVE k \in G
    <3>1. k \in 0..n /\ k # 0
      BY <1>1
    <3>2. sum[k] = sum[k-1] + cJSON!Width(u[k])
      BY <1>8, <3>1
    <3> QED BY <1>6, <2>2, <3>1, <3>2
  <2> HIDE DEF G
  <2> QED BY <1>1, <2>1, <2>2, CountingUp
<1>11. sum[n] = P[n]
  <2>1. n \in 0..n
    BY <1>1
  <2> QED BY <1>10, <2>1
<1> QED BY <1>5, <1>6, <1>9, <1>11 DEF Counts, n

\* There is only one count.
LEMMA CountIsBytes ==
  ASSUME NEW S, NEW u \in Seq(S), NEW P, Counts(P, u)
  PROVE  cJSON!Bytes(u) = P[Len(u)] /\ cJSON!Bytes(u) \in Nat
<1> DEFINE n == Len(u)
<1>1. n \in Nat
  BY LenProperties
<1>2. PICK Q : Counts(Q, u) /\ cJSON!Bytes(u) = Q[n]
  BY BytesIs
<1> DEFINE G == {k \in 0..n : P[k] = Q[k]}
<1>3. \A k \in 0..n : k \in G
  <2>1. 0 \in G
    BY <1>1, <1>2 DEF Counts
  <2>2. ASSUME NEW k \in 1..n, k-1 \in G PROVE k \in G
    <3>1. P[k-1] = Q[k-1]
      BY <2>2
    <3>2. P[k] = P[k-1] + cJSON!Width(u[k]) /\ Q[k] = Q[k-1] + cJSON!Width(u[k])
      BY <1>2 DEF Counts
    <3>3. k \in 0..n
      BY <1>1
    <3> QED BY <3>1, <3>2, <3>3
  <2> HIDE DEF G, n
  <2> QED BY <1>1, <2>1, <2>2, CountingUp
<1>4. n \in 0..n
  BY <1>1
<1>5. P[n] = Q[n] /\ P[n] \in Nat
  BY <1>3, <1>4 DEF Counts
<1> QED BY <1>2, <1>5

\* No units are no bytes,
LEMMA BytesNone == cJSON!Bytes(<<>>) = 0
<1> DEFINE P == [k \in 0..0 |-> 0]
<1>1. <<>> \in Seq(Nat) /\ Len(<<>>) = 0
  OBVIOUS
<1>2. Counts(P, <<>>) /\ P[0] = 0
  BY DEF Counts
<1> HIDE DEF P
<1> QED BY <1>1, <1>2, CountIsBytes

\* one unit is its width,
LEMMA BytesOne ==
  ASSUME NEW x
  PROVE  cJSON!Bytes(<<x>>) = cJSON!Width(x)
<1> DEFINE u == <<x>>
           w == cJSON!Width(x)
           P == [k \in 0..1 |-> IF k = 0 THEN 0 ELSE w]
<1>1. u \in Seq({x}) /\ Len(u) = 1 /\ u[1] = x
  OBVIOUS
<1>2. w \in Nat
  BY WidthIs
<1>3. w = cJSON!Width(u[1])
  BY <1>1
<1> HIDE DEF u, w
<1>4. P \in [0..1 -> Nat] /\ P[0] = 0 /\ P[1] = P[0] + w
  BY <1>2
<1> HIDE DEF P
<1>5. Counts(P, u)
  <2>1. ASSUME NEW i \in 1..Len(u) PROVE P[i] = P[i-1] + cJSON!Width(u[i])
    <3>1. i = 1 /\ i-1 = 0
      BY <1>1
    <3> QED BY <1>3, <1>4, <3>1
  <2> QED BY <1>1, <1>4, <2>1 DEF Counts
<1>6. P[1] = w
  BY <1>2, <1>4
<1>7. cJSON!Bytes(u) = P[1]
  BY <1>1, <1>5, CountIsBytes
<1> QED BY <1>6, <1>7 DEF u, w

\* and those of two texts that are joined add up.
LEMMA BytesConcat ==
  ASSUME NEW S, NEW u \in Seq(S), NEW v \in Seq(S)
  PROVE  /\ u \o v \in Seq(S) /\ cJSON!Bytes(u) \in Nat /\ cJSON!Bytes(v) \in Nat
         /\ cJSON!Bytes(u \o v) = cJSON!Bytes(u) + cJSON!Bytes(v)
<1> DEFINE w == u \o v
           m == Len(u)
           n == Len(v)
<1>1. m \in Nat /\ n \in Nat
  BY LenProperties
<1>2. w \in Seq(S) /\ IsConcat(w, u, v)
  BY ConcatIs
<1>3. PICK P : Counts(P, u)
  BY BytesIs
<1>4. PICK Q : Counts(Q, v)
  BY BytesIs
<1>5. cJSON!Bytes(u) = P[m] /\ cJSON!Bytes(v) = Q[n]
  BY <1>3, <1>4, CountIsBytes
<1> HIDE DEF w, m, n
<1> DEFINE R == [k \in 0..m+n |-> IF k <= m THEN P[k] ELSE P[m] + Q[k-m]]
<1>6. /\ P \in [0..m -> Nat] /\ P[0] = 0 /\ \A i \in 1..m : P[i] = P[i-1] + cJSON!Width(u[i])
      /\ Q \in [0..n -> Nat] /\ Q[0] = 0 /\ \A i \in 1..n : Q[i] = Q[i-1] + cJSON!Width(v[i])
  BY <1>3, <1>4 DEF Counts, m, n
<1>7. P[m] \in Nat /\ Q[n] \in Nat
  BY <1>1, <1>6
<1>8. ASSUME NEW k \in 0..m+n PROVE R[k] \in Nat
  <2>1. k <= m => k \in 0..m
    BY <1>1
  <2>2. ~(k <= m) => k-m \in 0..n
    BY <1>1
  <2>3. ~(k <= m) => Q[k-m] \in Nat
    BY <1>6, <2>2
  <2>4. k <= m => P[k] \in Nat
    BY <1>6, <2>1
  <2> QED BY <1>7, <2>3, <2>4
<1>9. ASSUME NEW i \in 1..m+n PROVE R[i] = R[i-1] + cJSON!Width(w[i])
  <2>0. i \in 0..m+n /\ i-1 \in 0..m+n
    BY <1>1
  <2>1. CASE i <= m
    <3>1. i \in 1..m /\ i-1 <= m
      BY <1>1, <2>1
    <3>2. R[i] = P[i] /\ R[i-1] = P[i-1]
      BY <2>0, <2>1, <3>1
    <3>3. w[i] = u[i]
      BY <1>2, <3>1 DEF IsConcat, m
    <3> QED BY <1>6, <3>1, <3>2, <3>3
  <2>2. CASE ~(i <= m)
    <3>1. i-m \in 1..n /\ m + (i-m) = i /\ (i-1)-m = (i-m)-1 /\ (i-m)-1 \in 0..n
      BY <1>1, <2>2
    <3>2. R[i] = P[m] + Q[i-m]
      BY <2>0, <2>2
    <3>3. R[i-1] = P[m] + Q[(i-m)-1]
      <4>1. CASE i-1 <= m
        <5>1. i-1 = m /\ (i-m)-1 = 0
          BY <1>1, <2>2, <4>1
        <5>2. R[i-1] = P[m]
          BY <2>0, <5>1, <4>1
        <5> QED BY <1>6, <1>7, <5>1, <5>2
      <4>2. CASE ~(i-1 <= m)
        BY <2>0, <3>1, <4>2
      <4> QED BY <4>1, <4>2
    <3>4. w[i] = v[i-m]
      BY <1>2, <3>1 DEF IsConcat, m, n
    <3>5. Q[i-m] = Q[(i-m)-1] + cJSON!Width(v[i-m])
      BY <1>6, <3>1
    <3>6. Q[(i-m)-1] \in Nat /\ cJSON!Width(v[i-m]) \in Nat
      <4>1. Q[(i-m)-1] \in Nat
        BY <1>6, <3>1
      <4>2. cJSON!Width(v[i-m]) \in 1..5
        BY WidthIs
      <4> QED BY <4>1, <4>2
    <3> DEFINE a == P[m]
               b == Q[(i-m)-1]
               c == cJSON!Width(v[i-m])
    <3>7. a \in Nat /\ b \in Nat /\ c \in Nat
      BY <1>7, <3>6
    <3>8. Q[i-m] = b + c
      BY <3>5
    <3> HIDE DEF a, b, c, R
    <3>9. a + (b + c) = (a + b) + c
      BY <3>7
    <3> QED BY <3>2, <3>3, <3>4, <3>8, <3>9 DEF a, b, c
  <2> QED BY <2>1, <2>2
<1>10. R[0] = 0 /\ R[m+n] = P[m] + Q[n]
  <2>1. 0 \in 0..m+n /\ 0 <= m /\ m+n \in 0..m+n
    BY <1>1
  <2>2. CASE m+n <= m
    <3>1. n = 0 /\ m+n = m
      BY <1>1, <2>2
    <3>2. R[m+n] = P[m+n]
      BY <2>1, <2>2
    <3> QED BY <1>6, <1>7, <2>1, <3>1, <3>2
  <2>3. CASE ~(m+n <= m)
    <3>1. (m+n) - m = n
      BY <1>1
    <3> QED BY <1>6, <2>1, <2>3, <3>1
  <2> QED BY <2>2, <2>3
<1>11. R \in [0..m+n -> Nat]
  <2>1. R = [k \in 0..m+n |-> R[k]]
    OBVIOUS
  <2> HIDE DEF R
  <2> QED BY <1>8, <2>1
<1> HIDE DEF R
<1>12. Len(w) = m+n
  BY <1>2 DEF IsConcat, m, n
<1>13. Counts(R, w)
  BY <1>9, <1>10, <1>11, <1>12 DEF Counts
<1>14. cJSON!Bytes(w) = R[m+n]
  BY <1>2, <1>12, <1>13, CountIsBytes
<1> QED BY <1>2, <1>5, <1>7, <1>10, <1>14 DEF w

\* So many tabs are so many bytes.
LEMMA BytesTabs ==
  ASSUME NEW n \in Nat
  PROVE  /\ cJSON!Tabs(n) \in Seq(Int)
         /\ cJSON!Bytes(cJSON!Tabs(n)) = n
<1> DEFINE t == cJSON!Tabs(n)
           P == [k \in 0..n |-> k]
<1>1. t \in Seq(Int) /\ Len(t) = n /\ \A i \in 1..n : t[i] = 9
  <2>1. t = [k \in 1..n |-> 9]
    BY DEF cJSON!Tabs
  <2>2. t \in [1..n -> Int]
    BY <2>1
  <2>3. t \in Seq(Int)
    BY <2>2, SeqDef
  <2>4. Len(t) = n
    BY <2>2, <2>3, LenProperties
  <2> QED BY <2>1, <2>3, <2>4
<1>2. cJSON!Width(9) = 1
  BY DEF cJSON!Width, cJSON!IsHex
<1> HIDE DEF t
<1>3. Counts(P, t)
  <2>1. \A i \in 1..n : P[i] = P[i-1] + 1
    OBVIOUS
  <2>2. P \in [0..n -> Nat] /\ P[0] = 0
    OBVIOUS
  <2> HIDE DEF P
  <2> QED BY <1>1, <1>2, <2>1, <2>2 DEF Counts
<1>4. P[n] = n
  OBVIOUS
<1> HIDE DEF P
<1> QED BY <1>1, <1>3, <1>4, CountIsBytes DEF t

-----------------------------------------------------------------------------
(* The buffer that is printed into                                         *)

\* Requests that write no more, with the NUL, than they reserve, and reserve no
\* more than that and a byte.
FairRequests ==
  {r \in [refused : BOOLEAN, needed : Nat, units : Seq(Int), nul : {0, 1}] :
     ~r.refused => /\ cJSON!Bytes(r.units) + r.nul <= r.needed
                   /\ r.needed <= cJSON!Bytes(r.units) + 1}

\* Buffers that nothing was written beyond, and that have room for a NUL.
SoundBuffers ==
  {b \in [length : Nat, offset : Nat, noalloc : BOOLEAN, out : Seq(Int), ok : BOOLEAN, beyond : BOOLEAN] :
     /\ ~b.beyond /\ b.offset = cJSON!Bytes(b.out)
     /\ b.ok => b.offset < b.length \/ b.offset = 0}

\* w is b after the request r.
WriteEffect(w, b, r) ==
  /\ w \in SoundBuffers
  /\ w.noalloc = b.noalloc /\ (b.noalloc => w.length = b.length)
  /\ ~b.ok => w = b
  /\ w.ok => b.ok /\ ~r.refused /\ w.out = b.out \o r.units
             /\ w.offset = b.offset + cJSON!Bytes(r.units) /\ cJSON!Bytes(r.units) \in Nat
  /\ b.ok /\ ~r.refused /\ b.noalloc /\ (b.offset + cJSON!Bytes(r.units)) + 2 <= b.length => w.ok

\* A fair request leaves a sound buffer sound: ensure reserves more than is written.
LEMMA WriteKeepsSound ==
  ASSUME NEW b \in SoundBuffers, NEW r \in FairRequests
  PROVE  WriteEffect(cJSON!Write(b, r), b, r)
<1> DEFINE w == cJSON!Write(b, r)
           B == [length : Nat, offset : Nat, noalloc : BOOLEAN, out : Seq(Int), ok : BOOLEAN, beyond : BOOLEAN]
           d == cJSON!Bytes(r.units)
           e == cJSON!ensure(b, r.needed)
           need == r.needed + b.offset + 1
<1>1. b \in B /\ ~b.beyond /\ b.offset = cJSON!Bytes(b.out) /\ (b.ok => b.offset < b.length \/ b.offset = 0)
  BY DEF SoundBuffers
<1>2. /\ r.refused \in BOOLEAN /\ r.needed \in Nat /\ r.units \in Seq(Int) /\ r.nul \in {0, 1}
      /\ ~r.refused => d + r.nul <= r.needed /\ r.needed <= d + 1
  BY DEF FairRequests
<1>3. /\ b.out \o r.units \in Seq(Int) /\ d \in Nat
      /\ cJSON!Bytes(b.out \o r.units) = b.offset + d
  BY <1>1, <1>2, BytesConcat
<1> HIDE DEF d
<1>4. CASE ~b.ok
  <2>1. w = b
    BY <1>4 DEF cJSON!Write
  <2> HIDE DEF w
  <2> QED BY <1>4, <2>1 DEF w, WriteEffect
<1>5. CASE b.ok /\ r.refused
  <2>1. w = [b EXCEPT !.ok = FALSE]
    BY <1>5 DEF cJSON!Write
  <2> HIDE DEF w
  <2>2. w \in SoundBuffers /\ ~w.ok /\ w.noalloc = b.noalloc /\ w.length = b.length
    BY <1>1, <2>1 DEF SoundBuffers
  <2> QED BY <1>5, <2>2 DEF w, WriteEffect
<1>6. CASE b.ok /\ ~r.refused
  <2>1. w = IF e.ok THEN [e EXCEPT !.offset = b.offset + d, !.out = @ \o r.units,
                                   !.beyond = @ \/ (b.offset + d) + r.nul > e.length]
            ELSE e
    BY <1>6 DEF cJSON!Write, d
  <2>2. e = IF b.length > 0 /\ b.offset >= b.length THEN [b EXCEPT !.ok = FALSE]
            ELSE IF need <= b.length THEN b
            ELSE IF b.noalloc THEN [b EXCEPT !.ok = FALSE]
            ELSE [b EXCEPT !.length = 2 * need]
    BY DEF cJSON!ensure
  <2>3. need \in Nat /\ need >= 1 /\ 2 * need \in Nat /\ 2 * need >= need
    BY <1>1, <1>2
  <2>4. b.offset + d + r.nul < need /\ b.offset + d < need /\ need <= (b.offset + d) + 2
    BY <1>1, <1>2, <1>3, <1>6
  <2> HIDE DEF need, e, w
  <2>5. /\ e \in B /\ e.offset = b.offset /\ e.out = b.out /\ ~e.beyond /\ e.noalloc = b.noalloc
        /\ b.noalloc => e.length = b.length
        /\ e.ok => need <= e.length
    BY <1>1, <1>6, <2>2, <2>3
  <2>6. b.noalloc /\ (b.offset + d) + 2 <= b.length => e.ok
    <3>1. b.offset + d + 2 <= b.length => b.offset < b.length /\ need <= b.length
      BY <1>1, <1>3, <2>3, <2>4
    <3> QED BY <1>1, <1>3, <1>6, <2>2, <3>1
  <2>7. CASE ~e.ok
    <3>1. w = e
      BY <2>1, <2>7
    <3> QED BY <1>1, <1>6, <2>5, <2>6, <2>7, <3>1 DEF SoundBuffers, w, d, WriteEffect
  <2>8. CASE e.ok
    <3>1. w = [e EXCEPT !.offset = b.offset + d, !.out = b.out \o r.units,
                        !.beyond = e.beyond \/ (b.offset + d) + r.nul > e.length]
      BY <2>1, <2>5, <2>8
    <3>2. ~((b.offset + d) + r.nul > e.length) /\ b.offset + d < e.length /\ b.offset + d \in Nat
      BY <1>1, <1>2, <1>3, <2>3, <2>4, <2>5, <2>8
    <3>3. w \in B /\ w.offset = b.offset + d /\ w.out = b.out \o r.units /\ ~w.beyond
          /\ w.length = e.length /\ w.noalloc = e.noalloc /\ w.ok
      BY <1>3, <2>5, <2>8, <3>1, <3>2
    <3>4. w \in SoundBuffers
      BY <1>3, <3>2, <3>3 DEF SoundBuffers
    <3> QED BY <1>3, <1>6, <2>5, <3>3, <3>4 DEF w, d, WriteEffect
  <2> QED BY <2>7, <2>8
<1> QED BY <1>1, <1>2, <1>4, <1>5, <1>6 DEF WriteEffect

\* The buffer after each request.
WritesOf(f, b, rs) ==
  /\ f \in [0..Len(rs) -> SoundBuffers] /\ f[0] = b
  /\ \A i \in 1..Len(rs) : f[i] = cJSON!Write(f[i-1], rs[i])

\* A sound buffer is sound after each of a sequence of fair requests.
LEMMA WrittenIs ==
  ASSUME NEW b \in SoundBuffers, NEW rs \in Seq(FairRequests)
  PROVE  \E f : WritesOf(f, b, rs) /\ cJSON!Written(b, rs) = f[Len(rs)]
<1> DEFINE n == Len(rs)
           V == SoundBuffers
           g == [i \in 1..n |-> [x \in V |-> cJSON!Write(x, rs[i])]]
           written[k \in 0..n] == IF k = 0 THEN b ELSE cJSON!Write(written[k-1], rs[k])
<1>1. n \in Nat /\ \A i \in 1..n : rs[i] \in FairRequests
  BY LenProperties, ElementOfSeq
<1>2. g \in [1..n -> [V -> V]]
  <2>1. ASSUME NEW i \in 1..n, NEW x \in V PROVE cJSON!Write(x, rs[i]) \in V
    BY <1>1, WriteKeepsSound DEF WriteEffect
  <2> QED BY <2>1
<1>3. \A i \in 1..n : \A x \in V : g[i][x] = cJSON!Write(x, rs[i])
  OBVIOUS
<1>4. b \in V
  OBVIOUS
<1> HIDE DEF g, V
<1>5. PICK f : Iterates(f, V, b, n, g)
  BY <1>1, <1>2, <1>4, RecursionExists
<1>6. f \in [0..n -> V] /\ f[0] = b /\ \A i \in 1..n : f[i] = g[i][f[i-1]]
  BY <1>5 DEF Iterates
<1>7. ASSUME NEW i \in 1..n PROVE f[i] = cJSON!Write(f[i-1], rs[i])
  <2>1. i-1 \in 0..n
    BY <1>1
  <2>2. f[i-1] \in V
    BY <1>6, <2>1
  <2> QED BY <1>3, <1>6, <2>2
<1>8. f = [k \in 0..n |-> IF k = 0 THEN b ELSE cJSON!Write(f[k-1], rs[k])]
  <2>1. \A k \in 0..n : f[k] = IF k = 0 THEN b ELSE cJSON!Write(f[k-1], rs[k])
    <3>1. \A k \in 0..n : k = 0 \/ k \in 1..n
      BY <1>1
    <3> QED BY <1>6, <1>7, <3>1
  <2> QED BY <1>6, <2>1
<1>9. written = [k \in 0..n |-> IF k = 0 THEN b ELSE cJSON!Write(written[k-1], rs[k])]
  BY <1>8
<1>10. cJSON!Written(b, rs) = written[n]
  BY DEF cJSON!Written
<1> HIDE DEF written, n
<1> DEFINE G == {k \in 0..n : written[k] = f[k]}
<1>11. \A k \in 0..n : k \in G
  <2>1. 0 \in G
    BY <1>1, <1>6, <1>9
  <2>2. ASSUME NEW k \in 1..n, k-1 \in G PROVE k \in G
    <3>1. k \in 0..n /\ k # 0
      BY <1>1
    <3>2. written[k] = cJSON!Write(written[k-1], rs[k])
      BY <1>9, <3>1
    <3> QED BY <1>7, <2>2, <3>1, <3>2
  <2> HIDE DEF G
  <2> QED BY <1>1, <2>1, <2>2, CountingUp
<1>12. written[n] = f[n]
  <2>1. n \in 0..n
    BY <1>1
  <2> QED BY <1>11, <2>1
<1> QED BY <1>6, <1>7, <1>10, <1>12 DEF WritesOf, n, V

\* An empty buffer, of any length, is sound.
LEMMA BufferSound ==
  ASSUME NEW length \in Nat, NEW noalloc \in BOOLEAN
  PROVE  cJSON!Buffer(length, noalloc) \in SoundBuffers
BY BytesNone DEF cJSON!Buffer, SoundBuffers

\* What is printed into a buffer that may grow and into one that may not is the
\* same, if the latter has two bytes more than the text.
LEMMA SameWritten ==
  ASSUME NEW rs \in Seq(FairRequests), NEW length \in Nat, NEW given \in Nat
  PROVE  LET b == cJSON!Written(cJSON!Buffer(length, FALSE), rs)
             p == cJSON!Written(cJSON!Buffer(given, TRUE), rs)
         IN b.ok /\ cJSON!Bytes(b.out) + 2 <= given => p.ok /\ p.out = b.out
<1> DEFINE n == Len(rs)
           b0 == cJSON!Buffer(length, FALSE)
           p0 == cJSON!Buffer(given, TRUE)
<1>1. n \in Nat /\ \A i \in 1..n : rs[i] \in FairRequests
  BY LenProperties, ElementOfSeq
<1>2. b0 \in SoundBuffers /\ p0 \in SoundBuffers
  BY BufferSound
<1>3. /\ b0.out = <<>> /\ b0.offset = 0
      /\ p0.out = <<>> /\ p0.offset = 0 /\ p0.ok /\ p0.noalloc /\ p0.length = given
  BY DEF cJSON!Buffer
<1> HIDE DEF b0, p0
<1>4. PICK f : WritesOf(f, b0, rs) /\ cJSON!Written(b0, rs) = f[n]
  BY <1>2, WrittenIs
<1>5. PICK g : WritesOf(g, p0, rs) /\ cJSON!Written(p0, rs) = g[n]
  BY <1>2, WrittenIs
<1> HIDE DEF n
<1>6. /\ \A k \in 0..n : f[k] \in SoundBuffers /\ g[k] \in SoundBuffers
      /\ f[0] = b0 /\ g[0] = p0
      /\ \A i \in 1..n : f[i] = cJSON!Write(f[i-1], rs[i]) /\ g[i] = cJSON!Write(g[i-1], rs[i])
  BY <1>4, <1>5 DEF WritesOf, n
<1> DEFINE Same(k) == /\ g[k].noalloc /\ g[k].length = given
                      /\ f[k].ok /\ f[k].offset + 2 <= given
                         => g[k].ok /\ g[k].out = f[k].out /\ g[k].offset = f[k].offset
           G == {k \in 0..n : Same(k)}
<1>7. \A k \in 0..n : k \in G
  <2>1. 0 \in G
    BY <1>1, <1>3, <1>6
  <2>2. ASSUME NEW k \in 1..n, k-1 \in G PROVE k \in G
    <3> DEFINE x == f[k-1]
               y == g[k-1]
               r == rs[k]
               d == cJSON!Bytes(r.units)
    <3>1. /\ k \in 0..n /\ k-1 \in 0..n /\ r \in FairRequests
          /\ x \in SoundBuffers /\ y \in SoundBuffers
          /\ f[k] = cJSON!Write(x, r) /\ g[k] = cJSON!Write(y, r)
      BY <1>1, <1>6
    <3>2. /\ y.noalloc /\ y.length = given
          /\ x.ok /\ x.offset + 2 <= given => y.ok /\ y.out = x.out /\ y.offset = x.offset
      BY <2>2
    <3> HIDE DEF x, y, r, G
    <3>3. /\ f[k].ok => /\ x.ok /\ ~r.refused /\ f[k].out = x.out \o r.units
                        /\ f[k].offset = x.offset + d /\ d \in Nat
      <4>1. WriteEffect(f[k], x, r)
        BY <3>1, WriteKeepsSound
      <4> QED BY <4>1 DEF d, WriteEffect
    <3>4. /\ g[k].noalloc = y.noalloc /\ (y.noalloc => g[k].length = y.length)
          /\ g[k].ok => g[k].out = y.out \o r.units /\ g[k].offset = y.offset + d
          /\ y.ok /\ ~r.refused /\ y.noalloc /\ (y.offset + d) + 2 <= y.length => g[k].ok
      <4>1. WriteEffect(g[k], y, r)
        BY <3>1, WriteKeepsSound
      <4> QED BY <4>1 DEF d, WriteEffect
    <3>5. x.offset \in Nat
      BY <3>1 DEF SoundBuffers
    <3> HIDE DEF d
    <3>6. ASSUME f[k].ok, f[k].offset + 2 <= given
          PROVE  g[k].ok /\ g[k].out = f[k].out /\ g[k].offset = f[k].offset
      <4>1. x.offset + 2 <= given /\ (x.offset + d) + 2 <= given
        BY <3>3, <3>5, <3>6
      <4>2. y.ok /\ y.out = x.out /\ y.offset = x.offset
        BY <3>2, <3>3, <3>6, <4>1
      <4>3. g[k].ok
        BY <3>2, <3>3, <3>4, <3>6, <4>1, <4>2
      <4> QED BY <3>3, <3>4, <3>6, <4>2, <4>3
    <3>7. Same(k)
      BY <3>2, <3>4, <3>6
    <3> QED BY <3>1, <3>7 DEF G
  <2> HIDE DEF G
  <2> QED BY <1>1, <2>1, <2>2, CountingUp
<1>8. Same(n)
  <2>1. n \in 0..n
    BY <1>1
  <2> QED BY <1>7, <2>1
<1>9. f[n].offset = cJSON!Bytes(f[n].out)
  <2>1. n \in 0..n
    BY <1>1
  <2> QED BY <1>6, <2>1 DEF SoundBuffers
<1>10. f[n].ok /\ cJSON!Bytes(f[n].out) + 2 <= given => g[n].ok /\ g[n].out = f[n].out
  BY <1>8, <1>9
<1> QED BY <1>4, <1>5, <1>10 DEF b0, p0

-----------------------------------------------------------------------------
(* Everything that is printed asks for what it writes                      *)

\* A request that asks for what it writes, with the NUL, and at most a byte more is fair.
LEMMA RequestFair ==
  ASSUME NEW units \in Seq(Int), NEW needed \in Nat, NEW nul \in {0, 1},
         cJSON!Bytes(units) + nul <= needed, needed <= cJSON!Bytes(units) + 1
  PROVE  cJSON!Request(needed, units, nul) \in FairRequests
BY DEF cJSON!Request, FairRequests

\* What is refused writes nothing.
LEMMA RefusalFair == cJSON!Refusal \in FairRequests
BY DEF cJSON!Refusal, FairRequests

\* Two units are as wide as both.
LEMMA BytesTwo ==
  ASSUME NEW x, NEW y
  PROVE  cJSON!Bytes(<<x, y>>) = cJSON!Width(x) + cJSON!Width(y)
<1> DEFINE u == <<x, y>>
           v == cJSON!Width(x)
           w == cJSON!Width(y)
           P == [k \in 0..2 |-> IF k = 0 THEN 0 ELSE IF k = 1 THEN v ELSE v + w]
<1>1. u \in Seq({x, y}) /\ Len(u) = 2 /\ u[1] = x /\ u[2] = y
  OBVIOUS
<1>2. v \in Nat /\ w \in Nat
  BY WidthIs
<1>3. v = cJSON!Width(u[1]) /\ w = cJSON!Width(u[2])
  BY <1>1
<1> HIDE DEF u, v, w
<1>4. P \in [0..2 -> Nat] /\ P[0] = 0 /\ P[1] = P[0] + v /\ P[2] = P[1] + w
  BY <1>2
<1>5. P[2] = v + w
  OBVIOUS
<1> HIDE DEF P
<1>6. Counts(P, u)
  <2>1. ASSUME NEW i \in 1..Len(u) PROVE P[i] = P[i-1] + cJSON!Width(u[i])
    <3>1. CASE i = 1
      <4>1. i-1 = 0
        BY <3>1
      <4> QED BY <1>3, <1>4, <3>1, <4>1
    <3>2. CASE i = 2
      <4>1. i-1 = 1
        BY <3>2
      <4> QED BY <1>3, <1>4, <3>2, <4>1
    <3> QED BY <1>1, <3>1, <3>2
  <2> QED BY <1>1, <1>4, <2>1 DEF Counts
<1>7. cJSON!Bytes(u) = P[2]
  BY <1>1, <1>6, CountIsBytes
<1> QED BY <1>5, <1>7 DEF u, v, w

\* The instance joins sequences as FlattenSeq does.
LEMMA FlattenSame == \A ss : cJSON!FlattenSeq(ss) = FlattenSeq(ss)
BY DEF cJSON!FlattenSeq, FlattenSeq

\* A string, escaped, is text.
LEMMA EscapeIn ==
  ASSUME NEW s \in Seq(Int)
  PROVE  FlattenSeq([k \in DOMAIN s |-> cJSON!Escape(s[k])]) \in Seq(Int)
<1> DEFINE ss == [k \in DOMAIN s |-> cJSON!Escape(s[k])]
<1>1. ASSUME NEW c \in Int PROVE cJSON!Escape(c) \in Seq(Int)
  <2>1. cJSON!EscapeOf(c) \in Int
    BY DEF cJSON!EscapeOf
  <2>2. cJSON!Hex(c) \in Int /\ cJSON!Backslash \in Int
    BY DEF cJSON!Hex, cJSON!Backslash
  <2> QED BY <2>1, <2>2 DEF cJSON!Escape
<1>2. DOMAIN s = 1..Len(s) /\ Len(s) \in Nat /\ \A k \in 1..Len(s) : s[k] \in Int
  BY LenProperties, ElementOfSeq
<1>3. ss \in [1..Len(s) -> Seq(Int)]
  BY <1>1, <1>2
<1>4. ss \in Seq(Seq(Int))
  BY <1>2, <1>3, SeqDef
<1> HIDE DEF ss
<1>5. FlattenSeq(ss) \in Seq(Int)
  BY <1>4, FlattenIn
<1> QED BY <1>5 DEF ss

\* A string asks for its escaped characters, two quotes and the NUL.
LEMMA StringFair ==
  ASSUME NEW s \in Seq(Int)
  PROVE  cJSON!print_string_ptr(s) \in FairRequests
<1> DEFINE units == FlattenSeq([k \in DOMAIN s |-> cJSON!Escape(s[k])])
           q == <<cJSON!Quote>>
           text == q \o units \o q
<1>1. units \in Seq(Int)
  BY EscapeIn
<1>2. q \in Seq(Int) /\ cJSON!Bytes(q) = 1
  <2>1. cJSON!Quote \in Int /\ cJSON!Width(cJSON!Quote) = 1
    BY DEF cJSON!Quote, cJSON!Width, cJSON!IsHex
  <2> QED BY <2>1, BytesOne
<1>3. cJSON!print_string_ptr(s) = cJSON!Request(cJSON!Bytes(units) + 3, text, 1)
  BY FlattenSame DEF cJSON!print_string_ptr
<1> HIDE DEF units, q
<1>4. /\ q \o units \in Seq(Int) /\ cJSON!Bytes(units) \in Nat
      /\ cJSON!Bytes(q \o units) = 1 + cJSON!Bytes(units)
  BY <1>1, <1>2, BytesConcat
<1>5. text \in Seq(Int) /\ cJSON!Bytes(text) = cJSON!Bytes(units) + 2
  <2>1. text \in Seq(Int) /\ cJSON!Bytes(text) = cJSON!Bytes(q \o units) + cJSON!Bytes(q)
    BY <1>2, <1>4, BytesConcat
  <2> QED BY <1>2, <1>4, <2>1
<1> HIDE DEF text
<1>6. cJSON!Request(cJSON!Bytes(units) + 3, text, 1) \in FairRequests
  <2> DEFINE d == cJSON!Bytes(text)
             m == cJSON!Bytes(units) + 3
  <2>1. m \in Nat /\ d + 1 <= m /\ m <= d + 1
    BY <1>4, <1>5
  <2> HIDE DEF m
  <2>2. cJSON!Request(m, text, 1) \in FairRequests
    BY <1>5, <2>1, RequestFair
  <2> QED BY <2>2 DEF m
<1> QED BY <1>3, <1>6

\* A literal or a number asks for itself and the NUL.
LEMMA UnitFair ==
  ASSUME NEW u \in Int
  PROVE  cJSON!Request(cJSON!Width(u) + 1, <<u>>, 1) \in FairRequests
<1> DEFINE m == cJSON!Width(u) + 1
<1>1. cJSON!Bytes(<<u>>) = cJSON!Width(u) /\ cJSON!Width(u) \in 1..5 /\ <<u>> \in Seq(Int)
  BY BytesOne, WidthIs
<1>2. m \in Nat /\ cJSON!Bytes(<<u>>) + 1 <= m /\ m <= cJSON!Bytes(<<u>>) + 1
  BY <1>1
<1> HIDE DEF m
<1>3. cJSON!Request(m, <<u>>, 1) \in FairRequests
  BY <1>1, <1>2, RequestFair
<1> QED BY <1>3 DEF m

\* The parts of an array.
LEMMA ArrayFair ==
  ASSUME NEW N, NEW c \in Seq(N), NEW printed \in [N -> Seq(FairRequests)], NEW format \in BOOLEAN
  PROVE  cJSON!print_array(c, printed, format) \in Seq(FairRequests)
<1> DEFINE comma == IF format THEN <<cJSON!Comma, 32>> ELSE <<cJSON!Comma>>
           next == cJSON!Request(Len(comma) + 1, comma, 1)
           open == cJSON!Request(1, <<91>>, 0)
           close == cJSON!Request(2, <<93>>, 1)
           Element(k) == printed[c[k]] \o (IF k = Len(c) THEN <<>> ELSE <<next>>)
           ss == [k \in DOMAIN c |-> Element(k)]
<1>1. cJSON!Width(cJSON!Comma) = 1 /\ cJSON!Width(32) = 1 /\ cJSON!Width(91) = 1 /\ cJSON!Width(93) = 1
  BY DEF cJSON!Width, cJSON!IsHex, cJSON!Comma
<1>2. open \in FairRequests /\ close \in FairRequests
  <2>1. /\ cJSON!Bytes(<<91>>) = 1 /\ cJSON!Bytes(<<93>>) = 1
        /\ <<91>> \in Seq(Int) /\ <<93>> \in Seq(Int)
    BY <1>1, BytesOne
  <2>2. 0 \in {0, 1} /\ 1 \in {0, 1} /\ 1 + 0 <= 1 /\ 1 <= 1 + 1 /\ 1 + 1 <= 2 /\ 2 <= 1 + 1 /\ 1 \in Nat /\ 2 \in Nat
    OBVIOUS
  <2>3. open \in FairRequests
    BY <2>1, <2>2, RequestFair
  <2>4. close \in FairRequests
    BY <2>1, <2>2, RequestFair
  <2> QED BY <2>3, <2>4
<1>3. next \in FairRequests
  <2>1. comma \in Seq(Int) /\ Len(comma) \in Nat /\ cJSON!Bytes(comma) = Len(comma)
    <3>1. cJSON!Bytes(<<cJSON!Comma, 32>>) = 2 /\ cJSON!Bytes(<<cJSON!Comma>>) = 1
      BY <1>1, BytesOne, BytesTwo
    <3>2. CASE format = TRUE
      BY <3>1, <3>2 DEF cJSON!Comma
    <3>3. CASE format = FALSE
      BY <3>1, <3>3 DEF cJSON!Comma
    <3> QED BY <3>2, <3>3
  <2> DEFINE m == Len(comma) + 1
  <2> HIDE DEF comma
  <2>2. m \in Nat /\ cJSON!Bytes(comma) + 1 <= m /\ m <= cJSON!Bytes(comma) + 1
    BY <2>1
  <2> HIDE DEF m
  <2>3. cJSON!Request(m, comma, 1) \in FairRequests
    BY <2>1, <2>2, RequestFair
  <2> QED BY <2>3 DEF m
<1>4. cJSON!print_array(c, printed, format) = <<open>> \o FlattenSeq(ss) \o <<close>>
  BY FlattenSame DEF cJSON!print_array
<1> HIDE DEF open, close, next
<1>5. FlattenSeq(ss) \in Seq(FairRequests)
  <2>1. DOMAIN c = 1..Len(c) /\ Len(c) \in Nat /\ \A k \in 1..Len(c) : c[k] \in N
    BY LenProperties, ElementOfSeq
  <2>2. ASSUME NEW k \in 1..Len(c) PROVE Element(k) \in Seq(FairRequests)
    <3>1. printed[c[k]] \in Seq(FairRequests)
      BY <2>1
    <3>2. (IF k = Len(c) THEN <<>> ELSE <<next>>) \in Seq(FairRequests)
      BY <1>3
    <3> QED BY <3>1, <3>2, ConcatProperties
  <2>3. ss \in [1..Len(c) -> Seq(FairRequests)]
    BY <2>1, <2>2
  <2>4. ss \in Seq(Seq(FairRequests))
    BY <2>1, <2>3, SeqDef
  <2> HIDE DEF ss
  <2> QED BY <2>4, FlattenIn
<1> HIDE DEF ss
<1>6. <<open>> \in Seq(FairRequests) /\ <<close>> \in Seq(FairRequests)
  BY <1>2
<1>7. <<open>> \o FlattenSeq(ss) \in Seq(FairRequests)
  BY <1>5, <1>6, ConcatProperties
<1>8. <<open>> \o FlattenSeq(ss) \o <<close>> \in Seq(FairRequests)
  BY <1>6, <1>7, ConcatProperties
<1> QED BY <1>4, <1>8

\* A request for its bytes and, with the NUL, one more.
LEMMA NulFair ==
  ASSUME NEW units \in Seq(Int), NEW needed, needed = cJSON!Bytes(units) + 1
  PROVE  cJSON!Request(needed, units, 1) \in FairRequests
<1>1. cJSON!Bytes(units) \in Nat
  BY BytesConcat
<1>2. needed \in Nat /\ cJSON!Bytes(units) + 1 <= needed /\ needed <= cJSON!Bytes(units) + 1
  BY <1>1
<1> QED BY <1>2, RequestFair

\* A request for its bytes alone.
LEMMA BareFair ==
  ASSUME NEW units \in Seq(Int), NEW needed, needed = cJSON!Bytes(units)
  PROVE  cJSON!Request(needed, units, 0) \in FairRequests
<1>1. cJSON!Bytes(units) \in Nat
  BY BytesConcat
<1>2. needed \in Nat /\ cJSON!Bytes(units) + 0 <= needed /\ needed <= cJSON!Bytes(units) + 1
  BY <1>1
<1> QED BY <1>2, RequestFair

\* A character before some units, or after them, is one byte more.
LEMMA BytesMore ==
  ASSUME NEW u \in Seq(Int), NEW x \in Int, cJSON!Width(x) = 1
  PROVE  /\ <<x>> \o u \in Seq(Int) /\ cJSON!Bytes(<<x>> \o u) = cJSON!Bytes(u) + 1
         /\ u \o <<x>> \in Seq(Int) /\ cJSON!Bytes(u \o <<x>>) = cJSON!Bytes(u) + 1
<1> DEFINE v == <<x>>
<1>1. v \in Seq(Int) /\ cJSON!Bytes(v) = 1
  BY BytesOne
<1> HIDE DEF v
<1>2. v \o u \in Seq(Int) /\ cJSON!Bytes(u) \in Nat /\ cJSON!Bytes(v \o u) = cJSON!Bytes(v) + cJSON!Bytes(u)
  BY <1>1, BytesConcat
<1>3. u \o v \in Seq(Int) /\ cJSON!Bytes(u \o v) = cJSON!Bytes(u) + cJSON!Bytes(v)
  BY <1>1, BytesConcat
<1>4. cJSON!Bytes(v \o u) = cJSON!Bytes(u) + 1 /\ cJSON!Bytes(u \o v) = cJSON!Bytes(u) + 1
  BY <1>1, <1>2, <1>3
<1> QED BY <1>2, <1>3, <1>4 DEF v

\* The parts of an object.
LEMMA ObjectFair ==
  ASSUME NEW N, NEW c \in Seq(N), NEW printed \in [N -> Seq(FairRequests)], NEW format \in BOOLEAN,
         NEW depth \in Nat \ {0}, NEW h, \A i \in N : h[i].name \in Seq(Int)
  PROVE  cJSON!print_object(h, c, printed, depth, format) \in Seq(FairRequests)
<1> DEFINE f == IF format THEN 1 ELSE 0
           newline == IF format THEN <<10>> ELSE <<>>
           indent == cJSON!Request(depth, cJSON!Tabs(depth), 0)
           indentation == IF format THEN <<indent>> ELSE <<>>
           End(comma) == cJSON!Request(Len(comma) + f + 1, comma \o newline, 1)
           last == End(<<>>)
           next == End(<<cJSON!Comma>>)
           name(k) == cJSON!print_string_ptr(h[c[k]].name)
           colon == cJSON!Request(1 + f, <<cJSON!Colon>> \o cJSON!Tabs(f), 0)
           Member(k) == indentation \o <<name(k), colon>> \o printed[c[k]]
                          \o <<End(IF k = Len(c) THEN <<>> ELSE <<cJSON!Comma>>)>>
           ss == [k \in DOMAIN c |-> Member(k)]
           open == cJSON!Request(f + 2, <<123>> \o newline, 0)
           close == cJSON!Request(IF format THEN depth + 1 ELSE 2, cJSON!Tabs(f * (depth - 1)) \o <<125>>, 1)
           S == FairRequests
<1>1. cJSON!print_object(h, c, printed, depth, format) = <<open>> \o FlattenSeq(ss) \o <<close>>
  BY FlattenSame DEF cJSON!print_object
<1>2. /\ newline \in Seq(Int) /\ cJSON!Bytes(newline) = f /\ f \in {0, 1}
  <2>1. <<10>> \in Seq(Int) /\ <<>> \in Seq(Int)
    OBVIOUS
  <2>2. cJSON!Width(10) = 1
    BY DEF cJSON!Width, cJSON!IsHex
  <2>3. cJSON!Bytes(<<10>>) = 1
    BY <2>2, BytesOne
  <2> QED BY <2>1, <2>3, BytesNone
<1>3. /\ cJSON!Comma \in Int /\ cJSON!Colon \in Int
      /\ cJSON!Width(cJSON!Comma) = 1 /\ cJSON!Width(cJSON!Colon) = 1
      /\ cJSON!Width(123) = 1 /\ cJSON!Width(125) = 1
  <2>1. cJSON!Comma = 44 /\ cJSON!Colon = 58
    BY DEF cJSON!Comma, cJSON!Colon
  <2> QED BY <2>1 DEF cJSON!Width, cJSON!IsHex
<1>4. indent \in S
  <2>1. depth \in Nat
    OBVIOUS
  <2> QED BY <2>1, BytesTabs, BareFair
<1>5. last \in S /\ next \in S
  <2> HIDE DEF f, newline
  <2>1. <<>> \in Seq(Int) /\ <<>> \o newline = newline
    BY <1>2
  <2>2. /\ <<cJSON!Comma>> \o newline \in Seq(Int)
        /\ cJSON!Bytes(<<cJSON!Comma>> \o newline) = f + 1
    BY <1>2, <1>3, BytesMore
  <2>0. Len(<<>>) = 0 /\ Len(<<cJSON!Comma>>) = 1
    OBVIOUS
  <2>3. Len(<<>>) + f + 1 = cJSON!Bytes(<<>> \o newline) + 1
    BY <1>2, <2>0, <2>1
  <2>4. Len(<<cJSON!Comma>>) + f + 1 = cJSON!Bytes(<<cJSON!Comma>> \o newline) + 1
    BY <1>2, <2>0, <2>2
  <2>5. last \in S
    BY <1>2, <2>1, <2>3, NulFair
  <2>6. next \in S
    BY <2>2, <2>4, NulFair
  <2> QED BY <2>5, <2>6
<1>6. colon \in S
  <2>1. f \in Nat
    BY <1>2
  <2> HIDE DEF f
  <2>2. cJSON!Tabs(f) \in Seq(Int) /\ cJSON!Bytes(cJSON!Tabs(f)) = f
    BY <2>1, BytesTabs
  <2>3. /\ <<cJSON!Colon>> \o cJSON!Tabs(f) \in Seq(Int)
        /\ cJSON!Bytes(<<cJSON!Colon>> \o cJSON!Tabs(f)) = f + 1
    BY <1>3, <2>2, BytesMore
  <2>4. 1 + f = f + 1
    BY <2>1
  <2> QED BY <2>3, <2>4, BareFair
<1>7. open \in S
  <2> HIDE DEF f, newline
  <2> DEFINE u == <<123>> \o newline
             m == f + 2
  <2>1. u \in Seq(Int) /\ cJSON!Bytes(u) = f + 1
    BY <1>2, <1>3, BytesMore
  <2>2. m \in Nat /\ cJSON!Bytes(u) + 0 <= m /\ m <= cJSON!Bytes(u) + 1 /\ 0 \in {0, 1}
    BY <1>2, <2>1
  <2> HIDE DEF u, m
  <2>3. cJSON!Request(m, u, 0) \in S
    BY <2>1, <2>2, RequestFair
  <2> QED BY <2>3 DEF u, m
<1>8. close \in S
  <2> DEFINE n == f * (depth - 1)
             u == cJSON!Tabs(n) \o <<125>>
             m == IF format THEN depth + 1 ELSE 2
  <2>1. n \in Nat /\ m = (n + 1) + 1
    <3>1. CASE format = TRUE
      BY <3>1
    <3>2. CASE format = FALSE
      BY <3>2
    <3> QED BY <3>1, <3>2
  <2> HIDE DEF n, m
  <2>2. cJSON!Tabs(n) \in Seq(Int) /\ cJSON!Bytes(cJSON!Tabs(n)) = n
    BY <2>1, BytesTabs
  <2>3. u \in Seq(Int) /\ cJSON!Bytes(u) = n + 1
    BY <1>3, <2>2, BytesMore
  <2> HIDE DEF u
  <2>4. cJSON!Request(m, u, 1) \in S
    BY <2>1, <2>3, NulFair
  <2> QED BY <2>4 DEF n, u, m
<1>9. DOMAIN c = 1..Len(c) /\ Len(c) \in Nat /\ \A k \in 1..Len(c) : c[k] \in N
  BY LenProperties, ElementOfSeq
<1>10. \A k \in 1..Len(c) : name(k) \in S
  BY <1>9, StringFair
<1> HIDE DEF S, name
<1>11. \A k \in 1..Len(c) : Member(k) \in Seq(S)
  <2> SUFFICES ASSUME NEW k \in 1..Len(c) PROVE Member(k) \in Seq(S)
    OBVIOUS
  <2> DEFINE e == End(IF k = Len(c) THEN <<>> ELSE <<cJSON!Comma>>)
  <2>1. e \in {last, next}
    OBVIOUS
  <2> HIDE DEF e, last, next, colon, indent
  <2>2. <<e>> \in Seq(S) /\ indentation \in Seq(S) /\ <<name(k), colon>> \in Seq(S)
    BY <1>4, <1>5, <1>6, <1>10, <2>1
  <2>3. printed[c[k]] \in Seq(S)
    BY <1>9 DEF S
  <2> HIDE DEF indentation
  <2>4. indentation \o <<name(k), colon>> \in Seq(S)
    BY <2>2, ConcatProperties
  <2>5. indentation \o <<name(k), colon>> \o printed[c[k]] \in Seq(S)
    BY <2>3, <2>4, ConcatProperties
  <2>6. indentation \o <<name(k), colon>> \o printed[c[k]] \o <<e>> \in Seq(S)
    BY <2>2, <2>5, ConcatProperties
  <2> QED BY <2>6 DEF e
<1> HIDE DEF open, close, Member
<1>12. FlattenSeq(ss) \in Seq(S)
  <2>1. ss \in [1..Len(c) -> Seq(S)]
    BY <1>9, <1>11
  <2>2. ss \in Seq(Seq(S))
    BY <1>9, <2>1, SeqDef
  <2> HIDE DEF ss
  <2> QED BY <2>2, FlattenIn
<1> HIDE DEF ss
<1>13. <<open>> \in Seq(S) /\ <<close>> \in Seq(S)
  BY <1>7, <1>8
<1>14. <<open>> \o FlattenSeq(ss) \in Seq(S)
  BY <1>12, <1>13, ConcatProperties
<1>15. <<open>> \o FlattenSeq(ss) \o <<close>> \in Seq(S)
  BY <1>13, <1>14, ConcatProperties
<1> QED BY <1>1, <1>15 DEF S

-----------------------------------------------------------------------------
(* What is walked over and printed                                         *)

\* The instance counts the elements of a set as Cardinality does.
LEMMA CardinalitySame == \A S : cJSON!Cardinality(S) = Cardinality(S)
BY DEF cJSON!Cardinality, Cardinality, cJSON!IsFiniteSet, IsFiniteSet

\* The nodes from each one, up to so many.
Chains(f, h, N, m) ==
  /\ f \in [0..m -> [N -> Seq(N)]]
  /\ f[0] = [i \in N |-> <<>>]
  /\ \A n \in 1..m : f[n] = [i \in N |-> IF i = cJSON!Null THEN <<>> ELSE <<i>> \o f[n-1][h[i].next]]

\* Chain is the longest of them.
LEMMA ChainIs ==
  ASSUME NEW N, IsFiniteSet(N), NEW D, NEW h \in Heaps(N, D)
  PROVE  \E f : Chains(f, h, N, Cardinality(N)) /\ \A i \in N : cJSON!Chain(h, i) = f[Cardinality(N)][i]
<1> DEFINE m == Cardinality(N)
           V == [N -> Seq(N)]
           a == [i \in N |-> <<>>]
           Next(x) == [i \in N |-> IF i = cJSON!Null THEN <<>> ELSE <<i>> \o x[h[i].next]]
           g == [n \in 1..m |-> [x \in V |-> Next(x)]]
           chain[n \in 0..m] == [i \in N |-> IF n = 0 \/ i = cJSON!Null THEN <<>> ELSE <<i>> \o chain[n-1][h[i].next]]
<1>1. m \in Nat /\ DOMAIN h = N /\ \A i \in N : h[i].next \in N
  BY FS_CardinalityType DEF Heaps
<1>2. \A i \in N : cJSON!Chain(h, i) = chain[m][i]
  BY <1>1, CardinalitySame DEF cJSON!Chain
<1> HIDE DEF m
<1>3. ASSUME NEW x \in V PROVE Next(x) \in V
  <2>1. ASSUME NEW i \in N, i # cJSON!Null PROVE <<i>> \o x[h[i].next] \in Seq(N)
    <3>1. <<i>> \in Seq(N) /\ x[h[i].next] \in Seq(N)
      BY <1>1
    <3> QED BY <3>1, ConcatProperties
  <2> QED BY <2>1
<1>4. a \in V
  OBVIOUS
<1>5. g \in [1..m -> [V -> V]] /\ \A n \in 1..m : \A x \in V : g[n][x] = Next(x)
  BY <1>3
<1> HIDE DEF g, V, a
<1>6. PICK f : Iterates(f, V, a, m, g)
  BY <1>1, <1>4, <1>5, RecursionExists
<1>7. f \in [0..m -> V] /\ f[0] = a /\ \A n \in 1..m : f[n] = g[n][f[n-1]]
  BY <1>6 DEF Iterates
<1>8. ASSUME NEW n \in 1..m PROVE f[n] = Next(f[n-1])
  <2>1. n-1 \in 0..m
    BY <1>1
  <2>2. f[n-1] \in V
    BY <1>7, <2>1
  <2> QED BY <1>5, <1>7, <2>2
<1>9. Chains(f, h, N, m)
  BY <1>7, <1>8 DEF Chains, V, a
<1>10. f = [n \in 0..m |-> [i \in N |-> IF n = 0 \/ i = cJSON!Null THEN <<>> ELSE <<i>> \o f[n-1][h[i].next]]]
  <2>1. ASSUME NEW n \in 0..m
        PROVE  f[n] = [i \in N |-> IF n = 0 \/ i = cJSON!Null THEN <<>> ELSE <<i>> \o f[n-1][h[i].next]]
    <3>1. CASE n = 0
      BY <1>7, <3>1 DEF a
    <3>2. CASE n \in 1..m
      <4>1. n # 0
        BY <1>1, <3>2
      <4> QED BY <1>8, <3>2, <4>1
    <3> QED BY <1>1, <3>1, <3>2
  <2> QED BY <1>7, <2>1
<1>11. chain = [n \in 0..m |-> [i \in N |-> IF n = 0 \/ i = cJSON!Null THEN <<>> ELSE <<i>> \o chain[n-1][h[i].next]]]
  BY <1>10
<1> HIDE DEF chain, Next
<1> DEFINE G == {n \in 0..m : chain[n] = f[n]}
<1>12. \A n \in 0..m : n \in G
  <2>1. 0 \in G
    <3>1. 0 \in 0..m
      BY <1>1
    <3>2. chain[0] = [i \in N |-> <<>>]
      BY <1>11, <3>1
    <3> QED BY <1>7, <3>1, <3>2 DEF a
  <2>2. ASSUME NEW n \in 1..m, n-1 \in G PROVE n \in G
    <3>1. n \in 0..m /\ n # 0
      BY <1>1
    <3>2. chain[n] = [i \in N |-> IF i = cJSON!Null THEN <<>> ELSE <<i>> \o chain[n-1][h[i].next]]
      BY <1>11, <3>1
    <3>3. chain[n-1] = f[n-1]
      BY <2>2
    <3> QED BY <1>8, <3>1, <3>2, <3>3 DEF Next
  <2> HIDE DEF G
  <2> QED BY <1>1, <2>1, <2>2, CountingUp
<1>13. m \in 0..m
  BY <1>1
<1>14. chain[m] = f[m]
  BY <1>12, <1>13
<1> QED BY <1>2, <1>9, <1>14 DEF m

\* What is walked over are nodes.
LEMMA ChildrenIn ==
  ASSUME NEW N, IsFiniteSet(N), NEW D, NEW h \in Heaps(N, D), NEW p \in N
  PROVE  cJSON!Children(h, p) \in Seq(N)
<1> DEFINE m == Cardinality(N)
<1>1. PICK f : Chains(f, h, N, m) /\ \A i \in N : cJSON!Chain(h, i) = f[m][i]
  BY ChainIs
<1>2. h[p].child \in N
  BY DEF Heaps
<1>3. m \in 0..m
  BY FS_CardinalityType
<1> QED BY <1>1, <1>2, <1>3 DEF Chains, cJSON!Children

\* A family is walked over from its first node to its last one.
THEOREM ChildrenAre ==
  ASSUME NEW N, IsFiniteSet(N), cJSON!Null \in N, NEW D, NEW h \in Heaps(N, D), NEW p, NEW c, IsFamily(h, N, p, c)
  PROVE  cJSON!Children(h, p) = c
<1> DEFINE m == Cardinality(N)
           n == Len(c)
           M == N \ {cJSON!Null}
<1>1. p \in M /\ c \in Seq(M) /\ IsInjective(c) /\ cJSON!IsList(h, p, c)
  BY DEF IsFamily
<1>2. n \in Nat /\ DOMAIN c = 1..n /\ \A k \in 1..n : c[k] \in M
  BY <1>1, LenProperties, ElementOfSeq
<1>3. m \in Nat
  BY FS_CardinalityType
<1>4. PICK f : Chains(f, h, N, m) /\ \A i \in N : cJSON!Chain(h, i) = f[m][i]
  BY ChainIs
<1>5. n <= m
  <2>1. c \in Injection(1..n, N)
    <3>1. c \in [1..n -> N]
      BY <1>1, <1>2
    <3> QED BY <1>1, <1>2, <3>1 DEF IsInjective, Injection
  <2>2. Cardinality(1..n) <= m
    BY <2>1, FS_Injection
  <2>3. Cardinality(1..n) = n
    BY <1>2, FS_Interval
  <2> QED BY <2>2, <2>3
<1> HIDE DEF m, n
<1> DEFINE From(k) == SubSeq(c, k, n)
           Node(k) == IF k = n+1 THEN cJSON!Null ELSE c[k]
           Walked(j) == \A k \in 1..n+1 : j + k > n => f[j][Node(k)] = From(k)
           G == {j \in 0..m : Walked(j)}
<1>6. From(n+1) = <<>> /\ From(1) = c
  BY <1>1, <1>2 DEF n
<1>7. \A k \in 1..n : From(k) = <<c[k]>> \o From(k+1)
  BY <1>1, <1>2
<1> HIDE DEF From
<1>8. /\ f[0] = [i \in N |-> <<>>]
      /\ \A j \in 1..m : f[j] = [i \in N |-> IF i = cJSON!Null THEN <<>> ELSE <<i>> \o f[j-1][h[i].next]]
  BY <1>4 DEF Chains, m
<1>9. /\ \A k \in 1..n : Node(k) = c[k] /\ c[k] \in N /\ c[k] # cJSON!Null /\ h[c[k]].next = Node(k+1)
      /\ Node(n+1) = cJSON!Null
      /\ h[p].child = Node(1)
  <2>1. ASSUME NEW k \in 1..n
        PROVE  Node(k) = c[k] /\ c[k] \in N /\ c[k] # cJSON!Null /\ h[c[k]].next = Node(k+1)
    <3>1. k # n+1 /\ (k+1 = n+1 <=> k = n)
      BY <1>2
    <3>2. h[c[k]].next = IF k = n THEN cJSON!Null ELSE c[k+1]
      BY <1>1 DEF cJSON!IsList, n
    <3> QED BY <1>2, <3>1, <3>2
  <2>2. h[p].child = IF c = <<>> THEN cJSON!Null ELSE c[1]
    BY <1>1 DEF cJSON!IsList
  <2>3. c = <<>> <=> 1 = n+1
    BY <1>1 DEF n
  <2> QED BY <2>1, <2>2, <2>3
<1> HIDE DEF Node
<1>10. \A j \in 0..m : j \in G
  <2>1. 0 \in G
    <3>1. ASSUME NEW k \in 1..n+1, 0 + k > n PROVE f[0][Node(k)] = From(k)
      <4>1. k = n+1
        BY <1>2, <3>1
      <4> QED BY <1>6, <1>8, <1>9, <4>1
    <3> QED BY <1>3, <3>1 DEF m
  <2>2. ASSUME NEW j \in 1..m, j-1 \in G PROVE j \in G
    <3>1. j \in 0..m /\ Walked(j-1)
      BY <1>3, <2>2 DEF m
    <3>2. ASSUME NEW k \in 1..n+1, j + k > n PROVE f[j][Node(k)] = From(k)
      <4>1. CASE k = n+1
        BY <1>6, <1>8, <1>9, <4>1
      <4>2. CASE k # n+1
        <5>1. k \in 1..n /\ k+1 \in 1..n+1 /\ (j-1) + (k+1) > n
          BY <1>2, <1>3, <3>2, <4>2
        <5>2. f[j-1][Node(k+1)] = From(k+1)
          BY <3>1, <5>1
        <5>3. f[j][c[k]] = <<c[k]>> \o f[j-1][Node(k+1)]
          <6>1. c[k] \in N /\ c[k] # cJSON!Null /\ h[c[k]].next = Node(k+1)
            BY <1>9, <5>1
          <6> DEFINE i == c[k]
          <6>2. i \in N /\ i # cJSON!Null /\ h[i].next = Node(k+1)
            BY <6>1
          <6>3. f[j] = [x \in N |-> IF x = cJSON!Null THEN <<>> ELSE <<x>> \o f[j-1][h[x].next]]
            BY <1>8
          <6> HIDE DEF i
          <6>4. f[j][i] = <<i>> \o f[j-1][h[i].next]
            BY <6>2, <6>3
          <6> QED BY <6>2, <6>4 DEF i
        <5> QED BY <1>7, <1>9, <5>1, <5>2, <5>3
      <4> QED BY <4>1, <4>2
    <3> QED BY <3>1, <3>2
  <2> HIDE DEF G
  <2> QED BY <1>3, <2>1, <2>2, CountingUp DEF m
<1>11. f[m][Node(1)] = c
  <2>1. Walked(m) /\ 1 \in 1..n+1 /\ m + 1 > n
    BY <1>2, <1>3, <1>5, <1>10 DEF m
  <2> QED BY <1>6, <2>1
<1>12. h[p].child \in N
  BY <1>1 DEF Heaps
<1> QED BY <1>4, <1>9, <1>11, <1>12 DEF cJSON!Children, m

\* Documents that can be printed: the names and values are text, and a number
\* has a value.
Printable(h, N, D) ==
  /\ h \in Heaps(N, D)
  /\ \A i \in N : /\ h[i].name \in Seq(Int) /\ h[i].value \in Seq(Int)
                  /\ h[i].type = "number" => h[i].value # <<>>

\* What an item asks for is fair if what its children ask for is.
LEMMA ItemFair ==
  ASSUME NEW N, IsFiniteSet(N), NEW D, NEW h, Printable(h, N, D), NEW i \in N, NEW format \in BOOLEAN,
         NEW depth \in Nat, NEW printed \in [N -> Seq(FairRequests)]
  PROVE  cJSON!ItemPrinted(h, i, printed, depth, format) \in Seq(FairRequests)
<1> DEFINE S == FairRequests
           type == h[i].type
           value == h[i].value
           literal == cJSON!Request(cJSON!Width(cJSON!Literal[type]) + 1, <<cJSON!Literal[type]>>, 1)
           number == cJSON!print_number(value[1])
           raw == cJSON!Request(cJSON!Bytes(value) + 1, value, 1)
           string == cJSON!print_string_ptr(value)
           array == cJSON!print_array(cJSON!Children(h, i), printed, format)
           object == cJSON!print_object(h, cJSON!Children(h, i), printed, depth + 1, format)
<1>1. h \in Heaps(N, D) /\ value \in Seq(Int) /\ (type = "number" => value # <<>>)
      /\ \A j \in N : h[j].name \in Seq(Int)
  BY DEF Printable
<1>2. cJSON!Children(h, i) \in Seq(N)
  BY <1>1, ChildrenIn
<1>3. cJSON!Refusal \in S
  BY RefusalFair
<1>4. type \in DOMAIN cJSON!Literal => literal \in S
  <2>1. type \in DOMAIN cJSON!Literal => cJSON!Literal[type] \in Int
    BY DEF cJSON!Literal
  <2> QED BY <2>1, UnitFair
<1>5. type = "number" => number \in S
  <2>1. type = "number" => value[1] \in Int
    BY <1>1
  <2>2. type = "number" => cJSON!Number(value[1]) \in Int
    BY <2>1 DEF cJSON!Number
  <2> QED BY <2>2, UnitFair DEF cJSON!print_number
<1>6. raw \in S
  BY <1>1, NulFair
<1>7. string \in S
  BY <1>1, StringFair
<1>8. array \in Seq(S)
  BY <1>2, ArrayFair
<1>9. object \in Seq(S)
  <2>1. depth + 1 \in Nat \ {0}
    OBVIOUS
  <2> QED BY <1>1, <1>2, <2>1, ObjectFair
<1> DEFINE p == cJSON!ItemPrinted(h, i, printed, depth, format)
<1>10. p = CASE i = cJSON!Null -> <<cJSON!Refusal>>
             [] i # cJSON!Null /\ type \in DOMAIN cJSON!Literal -> <<literal>>
             [] i # cJSON!Null /\ type = "number" -> <<number>>
             [] i # cJSON!Null /\ type = "raw" -> <<raw>>
             [] i # cJSON!Null /\ type = "string" -> <<string>>
             [] i # cJSON!Null /\ type = "array" -> array
             [] i # cJSON!Null /\ type = "object" -> object
             [] OTHER -> <<cJSON!Refusal>>
  BY DEF cJSON!ItemPrinted
<1> HIDE DEF S, p, literal, number, raw, string, array, object, type
<1>11. <<cJSON!Refusal>> \in Seq(S) /\ <<raw>> \in Seq(S) /\ <<string>> \in Seq(S)
  BY <1>3, <1>6, <1>7
<1>12. /\ type \in DOMAIN cJSON!Literal => <<literal>> \in Seq(S)
       /\ type = "number" => <<number>> \in Seq(S)
  BY <1>4, <1>5
<1>13. p \in Seq(S)
  BY <1>8, <1>9, <1>10, <1>11, <1>12
<1> QED BY <1>13 DEF p, S

\* What is printed of any item of a document is fair.
LEMMA ValueFair ==
  ASSUME NEW N, IsFiniteSet(N), NEW D, NEW h, Printable(h, N, D), NEW item \in N, NEW format \in BOOLEAN
  PROVE  cJSON!print_value(h, item, format) \in Seq(FairRequests)
<1> DEFINE m == Cardinality(N)
           S == FairRequests
           V == [N -> Seq(S)]
           a == [i \in N |-> <<cJSON!Refusal>>]
           Next(n, x) == [i \in N |-> cJSON!ItemPrinted(h, i, x, m - n, format)]
           g == [n \in 1..m |-> [x \in V |-> Next(n, x)]]
           printed[n \in 0..m] == [i \in N |-> IF n = 0 THEN <<cJSON!Refusal>>
                                               ELSE cJSON!ItemPrinted(h, i, printed[n-1], m - n, format)]
<1>1. m \in Nat /\ DOMAIN h = N
  BY FS_CardinalityType DEF Printable, Heaps
<1>2. cJSON!print_value(h, item, format) = printed[m][item]
  BY <1>1, CardinalitySame DEF cJSON!print_value
<1> HIDE DEF m
<1>3. a \in V
  <2>1. <<cJSON!Refusal>> \in Seq(S)
    BY RefusalFair
  <2> HIDE DEF S
  <2> QED BY <2>1
<1>4. ASSUME NEW n \in 1..m, NEW x \in V PROVE Next(n, x) \in V
  <2>1. m - n \in Nat
    BY <1>1
  <2>2. \A i \in N : cJSON!ItemPrinted(h, i, x, m - n, format) \in Seq(S)
    BY <2>1, ItemFair
  <2> HIDE DEF S
  <2> QED BY <2>2
<1>5. g \in [1..m -> [V -> V]] /\ \A n \in 1..m : \A x \in V : g[n][x] = Next(n, x)
  <2> HIDE DEF Next, V
  <2> QED BY <1>4
<1> HIDE DEF g, V, a, S
<1>6. PICK f : Iterates(f, V, a, m, g)
  BY <1>1, <1>3, <1>5, RecursionExists
<1>7. f \in [0..m -> V] /\ f[0] = a /\ \A n \in 1..m : f[n] = g[n][f[n-1]]
  BY <1>6 DEF Iterates
<1>8. ASSUME NEW n \in 1..m PROVE f[n] = Next(n, f[n-1])
  <2>1. n-1 \in 0..m
    BY <1>1
  <2>2. f[n-1] \in V
    BY <1>7, <2>1
  <2> HIDE DEF Next
  <2> QED BY <1>5, <1>7, <2>2
<1>9. f = [n \in 0..m |-> [i \in N |-> IF n = 0 THEN <<cJSON!Refusal>>
                                       ELSE cJSON!ItemPrinted(h, i, f[n-1], m - n, format)]]
  <2>1. ASSUME NEW n \in 0..m
        PROVE  f[n] = [i \in N |-> IF n = 0 THEN <<cJSON!Refusal>>
                                   ELSE cJSON!ItemPrinted(h, i, f[n-1], m - n, format)]
    <3>1. CASE n = 0
      BY <1>7, <3>1 DEF a
    <3>2. CASE n \in 1..m
      <4>1. n # 0
        BY <1>1, <3>2
      <4> QED BY <1>8, <3>2, <4>1
    <3> QED BY <1>1, <3>1, <3>2
  <2> QED BY <1>7, <2>1
<1>10. printed = [n \in 0..m |-> [i \in N |-> IF n = 0 THEN <<cJSON!Refusal>>
                                              ELSE cJSON!ItemPrinted(h, i, printed[n-1], m - n, format)]]
  BY <1>9
<1> HIDE DEF printed
<1> DEFINE G == {n \in 0..m : printed[n] \in V}
<1>11. \A n \in 0..m : n \in G
  <2>1. 0 \in G
    <3>1. 0 \in 0..m
      BY <1>1
    <3>2. printed[0] = a
      BY <1>10, <3>1 DEF a
    <3> QED BY <1>3, <3>1, <3>2
  <2>2. ASSUME NEW n \in 1..m, n-1 \in G PROVE n \in G
    <3>1. n \in 0..m /\ n # 0 /\ printed[n-1] \in V
      BY <1>1, <2>2
    <3>2. printed[n] = Next(n, printed[n-1])
      BY <1>10, <3>1
    <3>3. Next(n, printed[n-1]) \in V
      <4> HIDE DEF Next
      <4> QED BY <1>4, <3>1
    <3> HIDE DEF Next
    <3> QED BY <3>1, <3>2, <3>3
  <2> HIDE DEF G
  <2> QED BY <1>1, <2>1, <2>2, CountingUp
<1>12. printed[m] \in V
  <2>1. m \in 0..m
    BY <1>1
  <2> QED BY <1>11, <2>1
<1> QED BY <1>2, <1>12 DEF V, S

-----------------------------------------------------------------------------
(* Printing stays in its buffer                                            *)

\* Whatever is printed, into a buffer of whatever length that may grow or may
\* not: nothing, not even the NUL, is written beyond the buffer, and offset says
\* how long the text is.
THEOREM PrintsInRoom ==
  ASSUME NEW N, IsFiniteSet(N), NEW D, NEW h, Printable(h, N, D), NEW item \in N, NEW format \in BOOLEAN,
         NEW length \in Nat
  PROVE  LET buffered == cJSON!cJSON_PrintBuffered(h, item, length, format)
             preallocated == cJSON!cJSON_PrintPreallocated(h, item, length, format)
         IN /\ ~buffered.beyond /\ buffered.offset = cJSON!Bytes(buffered.out)
            /\ ~preallocated.beyond /\ preallocated.offset = cJSON!Bytes(preallocated.out)
            /\ preallocated.length = length
<1> DEFINE rs == cJSON!print_value(h, item, format)
<1>1. rs \in Seq(FairRequests)
  BY ValueFair
<1> HIDE DEF rs
<1>2. ASSUME NEW noalloc \in BOOLEAN
      PROVE  LET w == cJSON!Written(cJSON!Buffer(length, noalloc), rs)
             IN ~w.beyond /\ w.offset = cJSON!Bytes(w.out) /\ (noalloc => w.length = length)
  <2> DEFINE b == cJSON!Buffer(length, noalloc)
             n == Len(rs)
  <2>1. b \in SoundBuffers /\ b.noalloc = noalloc /\ b.length = length
    BY BufferSound DEF cJSON!Buffer
  <2> HIDE DEF b
  <2>2. PICK f : WritesOf(f, b, rs) /\ cJSON!Written(b, rs) = f[n]
    BY <1>1, <2>1, WrittenIs
  <2>3. n \in Nat /\ \A i \in 1..n : rs[i] \in FairRequests
    BY <1>1, LenProperties, ElementOfSeq
  <2>4. f \in [0..n -> SoundBuffers] /\ f[0] = b /\ \A i \in 1..n : f[i] = cJSON!Write(f[i-1], rs[i])
    BY <2>2 DEF WritesOf
  <2> HIDE DEF n
  <2> DEFINE G == {k \in 0..n : noalloc => f[k].noalloc /\ f[k].length = length}
  <2>5. \A k \in 0..n : k \in G
    <3>1. 0 \in G
      BY <2>1, <2>3, <2>4
    <3>2. ASSUME NEW k \in 1..n, k-1 \in G PROVE k \in G
      <4>1. k \in 0..n /\ k-1 \in 0..n
        BY <2>3
      <4>2. WriteEffect(f[k], f[k-1], rs[k])
        BY <2>3, <2>4, <4>1, WriteKeepsSound
      <4> QED BY <3>2, <4>1, <4>2 DEF WriteEffect
    <3> HIDE DEF G
    <3> QED BY <2>3, <3>1, <3>2, CountingUp
  <2>6. n \in 0..n
    BY <2>3
  <2>7. f[n] \in SoundBuffers /\ (noalloc => f[n].length = length)
    BY <2>4, <2>5, <2>6
  <2> QED BY <2>2, <2>7 DEF SoundBuffers, b
<1> QED BY <1>2 DEF cJSON!cJSON_PrintBuffered, cJSON!cJSON_PrintPreallocated, rs

\* A buffer of the caller's with two bytes more than the text that is printed
\* into one that may grow takes the same text.
THEOREM PreallocatedSuffices ==
  ASSUME NEW N, IsFiniteSet(N), NEW D, NEW h, Printable(h, N, D), NEW item \in N, NEW format \in BOOLEAN,
         NEW prebuffer \in Nat, NEW length \in Nat
  PROVE  LET b == cJSON!cJSON_PrintBuffered(h, item, prebuffer, format)
             p == cJSON!cJSON_PrintPreallocated(h, item, length, format)
         IN b.ok /\ cJSON!Bytes(b.out) + 2 <= length => p.ok /\ p.out = b.out
<1>1. cJSON!print_value(h, item, format) \in Seq(FairRequests)
  BY ValueFair
<1> QED BY <1>1, SameWritten DEF cJSON!cJSON_PrintBuffered, cJSON!cJSON_PrintPreallocated

-----------------------------------------------------------------------------
(* Parsing a string stays in what is allocated for it                      *)

\* Units that are one byte each are as many bytes.
LEMMA BytesPlain ==
  ASSUME NEW u \in Seq(Int), \A i \in 1..Len(u) : cJSON!Width(u[i]) = 1
  PROVE  cJSON!Bytes(u) = Len(u)
<1> DEFINE n == Len(u)
           P == [k \in 0..n |-> k]
<1>1. n \in Nat
  BY LenProperties
<1> HIDE DEF n
<1>2. P \in [0..n -> Nat] /\ P[0] = 0 /\ P[n] = n /\ \A i \in 1..n : P[i] = P[i-1] + 1
  BY <1>1
<1> HIDE DEF P
<1>3. Counts(P, u)
  BY <1>2 DEF Counts, n
<1>4. cJSON!Bytes(u) = P[n]
  BY <1>3, CountIsBytes DEF n
<1> QED BY <1>2, <1>4 DEF n

\* The bytes of a part are the difference of two counts.
LEMMA BytesPart ==
  ASSUME NEW t \in Seq(Int), NEW P, Counts(P, t), NEW a \in 0..Len(t), NEW b \in a..Len(t)
  PROVE  cJSON!Bytes(SubSeq(t, a + 1, b)) = P[b] - P[a]
<1> DEFINE L == Len(t)
           n == b - a
           u == SubSeq(t, a + 1, b)
           Q == [k \in 0..n |-> P[a+k] - P[a]]
<1>1. L \in Nat /\ n \in Nat /\ a + n = b
  BY LenProperties
<1>2. u \in Seq(Int) /\ Len(u) = n /\ \A i \in 1..n : u[i] = t[a+i]
  OBVIOUS
<1> HIDE DEF u
<1>3. P \in [0..L -> Nat] /\ \A i \in 1..L : P[i] = P[i-1] + cJSON!Width(t[i])
  BY DEF Counts
<1>4. ASSUME NEW k \in 0..n PROVE a + k \in 0..L /\ P[a+k] \in Nat /\ P[a] \in Nat /\ Q[k] = P[a+k] - P[a]
  <2>1. k \in Int /\ 0 <= k /\ k <= n /\ a \in Int /\ b \in Int /\ 0 <= a /\ b <= L
    BY <1>1
  <2>2. a + k \in 0..L /\ a \in 0..L
    <3> HIDE DEF L, n
    <3> QED BY <1>1, <2>1
  <2> HIDE DEF L, n
  <2> QED BY <1>3, <2>2
<1> HIDE DEF L, n, Q
<1>5. ASSUME NEW i \in 1..n PROVE Q[i] = Q[i-1] + cJSON!Width(u[i])
  <2>1. i \in 0..n /\ i-1 \in 0..n /\ a + i \in 1..L /\ (a + i) - 1 = a + (i-1)
    BY <1>1 DEF n, L
  <2>2. P[a+i] = P[a+(i-1)] + cJSON!Width(u[i])
    BY <1>2, <1>3, <2>1
  <2>3. cJSON!Width(u[i]) \in Int
    BY WidthIs
  <2> DEFINE w == cJSON!Width(u[i])
             x == P[a+(i-1)]
             y == P[a]
  <2>4. x \in Nat /\ y \in Nat /\ w \in Int /\ P[a+i] = x + w /\ Q[i] = P[a+i] - y /\ Q[i-1] = x - y
    BY <1>4, <2>1, <2>2, <2>3
  <2> HIDE DEF w, x, y
  <2>5. Q[i] = Q[i-1] + w
    BY <2>4
  <2> QED BY <2>5 DEF w
<1>6. Q[0] = 0 /\ Q[n] = P[b] - P[a]
  <2>1. 0 \in 0..n /\ n \in 0..n /\ a + 0 = a /\ a \in Nat
    BY <1>1
  <2>2. P[a] - P[a] = 0
    BY <1>4, <2>1
  <2> QED BY <1>1, <1>4, <2>1, <2>2
<1>7. \A k \in 0..n : Q[k] \in Nat
  <2> DEFINE G == {k \in 0..n : Q[k] \in Nat}
  <2>1. 0 \in G
    BY <1>1, <1>6
  <2>2. ASSUME NEW i \in 1..n, i-1 \in G PROVE i \in G
    <3>1. i \in 0..n /\ cJSON!Width(u[i]) \in Nat
      BY <1>1, WidthIs
    <3> QED BY <1>5, <2>2, <3>1
  <2>3. \A k \in 0..n : k \in G
    <3> HIDE DEF G
    <3> QED BY <1>1, <2>1, <2>2, CountingUp
  <2> QED BY <2>3
<1>8. Q \in [0..n -> Nat]
  <2>1. Q = [k \in 0..n |-> Q[k]]
    BY DEF Q
  <2> QED BY <1>7, <2>1
<1>9. Counts(Q, u)
  BY <1>1, <1>2, <1>5, <1>6, <1>8 DEF Counts
<1>10. cJSON!Bytes(u) = Q[n]
  <2> DEFINE v == u
  <2>1. v \in Seq(Int) /\ Counts(Q, v) /\ Len(v) = n
    BY <1>2, <1>9
  <2> HIDE DEF v
  <2>2. cJSON!Bytes(v) = Q[Len(v)]
    BY <2>1, CountIsBytes
  <2> QED BY <2>1, <2>2 DEF v
<1> QED BY <1>6, <1>10 DEF u

\* A code point takes up to four bytes, one of the basic plane up to three.
LEMMA Utf8Is ==
  ASSUME NEW c \in Nat, c \div 262144 <= 15
  PROVE  /\ cJSON!Utf8(c) \in Seq(Int) /\ cJSON!Bytes(cJSON!Utf8(c)) \in 1..4
         /\ c < 65536 => cJSON!Bytes(cJSON!Utf8(c)) <= 3
<1> DEFINE u == cJSON!Utf8(c)
           Plain(x) == x \in Int /\ 0 <= x /\ x < 256
           Rest(n) == 128 + ((c \div n) % 64)
<1>1. \A x : Plain(x) => x \in Int /\ cJSON!Width(x) = 1
  BY DEF cJSON!Width, cJSON!IsHex
<1>2. Plain(Rest(1)) /\ Plain(Rest(64)) /\ Plain(Rest(4096))
  <2>1. \A x \in Int : x % 64 \in 0..63
    OBVIOUS
  <2>2. c \div 1 \in Int /\ c \div 64 \in Int /\ c \div 4096 \in Int
    OBVIOUS
  <2>3. \A x \in Int : Plain(128 + (x % 64))
    BY <2>1
  <2> HIDE DEF Plain
  <2> QED BY <2>2, <2>3
<1>3. c < 128 => u = <<c>> /\ Plain(c)
  BY DEF cJSON!Utf8
<1>4. 128 <= c /\ c < 2048 => u = <<192 + c \div 64, Rest(1)>> /\ Plain(192 + c \div 64)
  BY DEF cJSON!Utf8
<1>5. 2048 <= c /\ c < 65536 => u = <<224 + c \div 4096, Rest(64), Rest(1)>> /\ Plain(224 + c \div 4096)
  BY DEF cJSON!Utf8
<1>6. c >= 65536 => u = <<240 + c \div 262144, Rest(4096), Rest(64), Rest(1)>> /\ Plain(240 + c \div 262144)
  BY DEF cJSON!Utf8
<1>7. c < 128 \/ (128 <= c /\ c < 2048) \/ (2048 <= c /\ c < 65536) \/ c >= 65536
  OBVIOUS
<1> DEFINE basic == c < 65536
           Holds == /\ Len(u) \in 1..4 /\ (basic => Len(u) <= 3)
                    /\ u \in Seq(Int) /\ \A i \in 1..Len(u) : Plain(u[i])
<1>8. c >= 65536 => ~basic
  OBVIOUS
<1> HIDE DEF u, Rest, Plain, basic
<1>9. ASSUME NEW w, Plain(w) PROVE u = <<w>> => Holds
  BY <1>1, <1>9
<1>10. ASSUME NEW w, Plain(w), NEW x, Plain(x) PROVE u = <<w, x>> => Holds
  BY <1>1, <1>10
<1>11. ASSUME NEW w, Plain(w), NEW x, Plain(x), NEW y, Plain(y) PROVE u = <<w, x, y>> => Holds
  BY <1>1, <1>11
<1>12. ASSUME NEW w, Plain(w), NEW x, Plain(x), NEW y, Plain(y), NEW z, Plain(z)
       PROVE  u = <<w, x, y, z>> /\ ~basic => Holds
  BY <1>1, <1>12
<1> HIDE DEF Holds
<1>13. Holds
  <2>1. CASE c < 128
    BY <1>3, <1>9, <2>1
  <2>2. CASE 128 <= c /\ c < 2048
    BY <1>2, <1>4, <1>10, <2>2
  <2>3. CASE 2048 <= c /\ c < 65536
    BY <1>2, <1>5, <1>11, <2>3
  <2>4. CASE c >= 65536
    BY <1>2, <1>6, <1>8, <1>12, <2>4
  <2> QED BY <1>7, <2>1, <2>2, <2>3, <2>4
<1>14. u \in Seq(Int) /\ \A i \in 1..Len(u) : cJSON!Width(u[i]) = 1
  BY <1>1, <1>13 DEF Holds
<1>15. cJSON!Bytes(u) = Len(u)
  BY <1>14, BytesPlain
<1>16. cJSON!Bytes(u) \in 1..4 /\ (basic => cJSON!Bytes(u) <= 3)
  BY <1>13, <1>15 DEF Holds
<1> QED BY <1>14, <1>16 DEF u, basic

\* The hexadecimal digits of an escape sequence are at j, inside the string.
HexIn(s, j, end) == j < end /\ cJSON!IsHex(cJSON!UnitAt(s, j))

\* What a part of a string can be that stands for something else.
SequenceFits(part, s, k, end) ==
  /\ part.out \in Seq(Int) /\ part.units \in {0, 2, 3, 6}
  /\ part.units # 0 => cJSON!Bytes(part.out) \in 1..4
  /\ part.units = 2 => cJSON!Bytes(part.out) = 1
  /\ part.units \in {3, 6} => HexIn(s, k + 2, end)
  /\ part.units = 6 => cJSON!UnitAt(s, k + 3) = cJSON!Backslash /\ HexIn(s, k + 5, end)

\* An escape sequence is one letter, or the code of a character in one or two parts.
LEMMA SequenceIs ==
  ASSUME NEW s, s.text \in Seq(Int), NEW k \in Nat, NEW end \in Nat
  PROVE  SequenceFits(cJSON!Sequence(s, k, end), s, k, end)
<1> DEFINE c == cJSON!UnitAt(s, k + 1)
           H(j) == cJSON!UnitAt(s, j + 2)
           HexAt(j) == IF j + 2 < end /\ cJSON!IsHex(H(j)) THEN H(j) - 1000 ELSE -1
           None == [out |-> <<>>, units |-> 0]
           letter == [out |-> <<cJSON!EscapedBy(c)>>, units |-> 2]
           first == HexAt(k)
           second == HexAt(k + 3)
           code == 65536 + 1024 * (first % 1024) + (second % 1024)
           basic == [out |-> cJSON!Utf8(first), units |-> 3]
           pair == [out |-> cJSON!Utf8(code), units |-> 6]
           utf16 == cJSON!utf16_literal_to_utf8(s, k, end)
<1>1. \A j \in Nat : cJSON!UnitAt(s, j) \in Int
  <2>1. Len(s.text) \in Nat /\ \A i \in 1..Len(s.text) : s.text[i] \in Int
    BY LenProperties, ElementOfSeq
  <2> QED BY <2>1 DEF cJSON!UnitAt, cJSON!Length
<1>2. SequenceFits(None, s, k, end)
  BY DEF SequenceFits
<1>3. c # 117 /\ cJSON!EscapedBy(c) # 0 => SequenceFits(letter, s, k, end)
  <2> DEFINE e == cJSON!EscapedBy(c)
  <2>1. e # 0 => e \in Int /\ 0 <= e /\ e < 100
    BY DEF cJSON!EscapedBy
  <2> HIDE DEF e
  <2>2. e # 0 => cJSON!Width(e) = 1
    BY <2>1 DEF cJSON!Width, cJSON!IsHex
  <2>3. e # 0 => cJSON!Bytes(<<e>>) = 1 /\ <<e>> \in Seq(Int)
    BY <2>1, <2>2, BytesOne
  <2> QED BY <2>3 DEF SequenceFits, e
<1>4. ASSUME NEW j \in Nat
      PROVE  HexAt(j) = -1 \/ (HexAt(j) \in Nat /\ HexAt(j) \div 262144 <= 15 /\ HexIn(s, j + 2, end))
  <2>1. H(j) \in Int
    BY <1>1
  <2> HIDE DEF H
  <2>2. ASSUME NEW x \in Int, cJSON!IsHex(x) PROVE x - 1000 \in Nat /\ (x - 1000) \div 262144 <= 15
    <3>1. 1000 <= x /\ x < 66536
      BY <2>2 DEF cJSON!IsHex
    <3>2. x - 1000 \in Nat
      BY <3>1
    <3>3. (x - 1000) \div 262144 <= 15
      BY <3>1
    <3> QED BY <3>2, <3>3
  <2>3. HexAt(j) # -1 => j + 2 < end /\ cJSON!IsHex(H(j)) /\ HexAt(j) = H(j) - 1000
    OBVIOUS
  <2>4. HexAt(j) # -1 => HexIn(s, j + 2, end)
    BY <2>3 DEF HexIn, H
  <2> HIDE DEF HexAt
  <2>5. HexAt(j) # -1 => HexAt(j) \in Nat /\ HexAt(j) \div 262144 <= 15
    BY <2>1, <2>2, <2>3
  <2> QED BY <2>4, <2>5
<1>5. first # -1 => SequenceFits(basic, s, k, end)
  <2>1. first # -1 => first \in Nat /\ first \div 262144 <= 15 /\ HexIn(s, k + 2, end)
    BY <1>4
  <2> HIDE DEF first
  <2>2. first # -1 => cJSON!Utf8(first) \in Seq(Int) /\ cJSON!Bytes(cJSON!Utf8(first)) \in 1..4
    BY <2>1, Utf8Is
  <2> QED BY <2>1, <2>2 DEF SequenceFits
<1>6. first # -1 /\ second # -1 /\ cJSON!UnitAt(s, k + 3) = cJSON!Backslash => SequenceFits(pair, s, k, end)
  <2>1. /\ first # -1 => first \in Nat /\ HexIn(s, k + 2, end)
        /\ second # -1 => second \in Nat /\ HexIn(s, k + 5, end)
    <3>1. k + 3 \in Nat /\ (k + 3) + 2 = k + 5
      OBVIOUS
    <3> QED BY <1>4, <3>1
  <2> HIDE DEF first, second
  <2>2. first # -1 /\ second # -1 => code \in Nat /\ code \div 262144 <= 15
    BY <2>1
  <2> HIDE DEF code
  <2>3. first # -1 /\ second # -1 => cJSON!Utf8(code) \in Seq(Int) /\ cJSON!Bytes(cJSON!Utf8(code)) \in 1..4
    BY <2>2, Utf8Is
  <2> QED BY <2>1, <2>3 DEF SequenceFits
<1>7. utf16 = IF first = -1 \/ cJSON!SecondSurrogate(first) THEN None
              ELSE IF ~cJSON!FirstSurrogate(first) THEN basic
              ELSE IF cJSON!UnitAt(s, k + 3) = cJSON!Backslash /\ cJSON!UnitAt(s, k + 4) = 117
              THEN IF ~cJSON!SecondSurrogate(second) THEN None ELSE pair
              ELSE None
  BY DEF cJSON!utf16_literal_to_utf8
<1>8. ~cJSON!SecondSurrogate(-1)
  BY DEF cJSON!SecondSurrogate
<1>9. cJSON!Sequence(s, k, end) =
        CASE c = 117 -> utf16
          [] c # 117 /\ cJSON!EscapedBy(c) # 0 -> letter
          [] OTHER -> None
  BY DEF cJSON!Sequence
<1> HIDE DEF None, letter, basic, pair, first, second, utf16, c
<1>10. SequenceFits(utf16, s, k, end)
  BY <1>2, <1>5, <1>6, <1>7, <1>8
<1> QED BY <1>2, <1>3, <1>9, <1>10

\* A turn of the loop that looks for the end of a string.
ScanTurn(s, f) ==
  IF f.at >= cJSON!Length(s) \/ cJSON!UnitAt(s, f.at) = cJSON!Quote THEN f
  ELSE IF cJSON!UnitAt(s, f.at) = cJSON!Backslash THEN [at |-> f.at + 2, skipped |-> f.skipped + 1]
  ELSE [f EXCEPT !.at = @ + 1]

\* The turns of the loop, and where they lead.
Scans(f, s, start) ==
  /\ f \in [0..cJSON!Length(s) -> [at : Nat, skipped : Nat]]
  /\ f[0] = [at |-> start, skipped |-> 0]
  /\ \A n \in 1..cJSON!Length(s) : f[n] = ScanTurn(s, f[n-1])

\* Scanned is where the last turn leads.
LEMMA ScanIs ==
  ASSUME NEW s, s.text \in Seq(Int), NEW start \in Nat
  PROVE  \E f : Scans(f, s, start) /\ cJSON!Scanned(s, start) = f[cJSON!Length(s)]
<1> DEFINE m == cJSON!Length(s)
           V == [at : Nat, skipped : Nat]
           a == [at |-> start, skipped |-> 0]
           g == [n \in 1..m |-> [x \in V |-> ScanTurn(s, x)]]
           scan[n \in 0..m] == IF n = 0 THEN a ELSE ScanTurn(s, scan[n-1])
<1>1. m \in Nat
  BY LenProperties DEF cJSON!Length
<1>2. cJSON!Scanned(s, start) = scan[m]
  BY DEF cJSON!Scanned, ScanTurn
<1>3. a \in V
  OBVIOUS
<1>4. ASSUME NEW x \in V PROVE ScanTurn(s, x) \in V
  BY DEF ScanTurn
<1>5. g \in [1..m -> [V -> V]] /\ \A n \in 1..m : \A x \in V : g[n][x] = ScanTurn(s, x)
  <2> HIDE DEF V
  <2> QED BY <1>4
<1> HIDE DEF g, V, a, m
<1>6. PICK f : Iterates(f, V, a, m, g)
  BY <1>1, <1>3, <1>5, RecursionExists
<1>7. f \in [0..m -> V] /\ f[0] = a /\ \A n \in 1..m : f[n] = g[n][f[n-1]]
  BY <1>6 DEF Iterates
<1>8. ASSUME NEW n \in 1..m PROVE f[n] = ScanTurn(s, f[n-1])
  <2>1. n-1 \in 0..m
    BY <1>1
  <2>2. f[n-1] \in V
    BY <1>7, <2>1
  <2> QED BY <1>5, <1>7, <2>2
<1>9. f = [n \in 0..m |-> IF n = 0 THEN a ELSE ScanTurn(s, f[n-1])]
  <2>1. \A n \in 0..m : n = 0 \/ n \in 1..m
    BY <1>1
  <2>2. \A n \in 0..m : f[n] = IF n = 0 THEN a ELSE ScanTurn(s, f[n-1])
    BY <1>7, <1>8, <2>1
  <2> QED BY <1>7, <2>2
<1>10. scan = [n \in 0..m |-> IF n = 0 THEN a ELSE ScanTurn(s, scan[n-1])]
  BY <1>9
<1> HIDE DEF scan
<1> DEFINE G == {n \in 0..m : scan[n] = f[n]}
<1>11. \A n \in 0..m : n \in G
  <2>1. 0 \in G
    BY <1>1, <1>7, <1>10
  <2>2. ASSUME NEW n \in 1..m, n-1 \in G PROVE n \in G
    <3>1. n \in 0..m /\ n # 0
      BY <1>1
    <3>2. scan[n] = ScanTurn(s, scan[n-1])
      BY <1>10, <3>1
    <3> QED BY <1>8, <2>2, <3>1, <3>2
  <2> HIDE DEF G
  <2> QED BY <1>1, <2>1, <2>2, CountingUp
<1>12. scan[m] = f[m]
  <2>1. m \in 0..m
    BY <1>1
  <2> QED BY <1>11, <2>1
<1>13. Scans(f, s, start)
  BY <1>7, <1>8 DEF Scans, m, V, a
<1> QED BY <1>2, <1>12, <1>13 DEF m

\* What is copied from position k.
PartAt(s, k, end) ==
  IF cJSON!UnitAt(s, k) = cJSON!Backslash THEN cJSON!Sequence(s, k, end)
  ELSE [out |-> <<cJSON!UnitAt(s, k)>>, units |-> 1]

\* A turn of the loop that copies a string.
CopyTurn(s, end, u) ==
  LET part == PartAt(s, u.at, end)
  IN IF ~u.ok \/ u.at >= end THEN u
     ELSE IF part.units = 0 THEN [u EXCEPT !.ok = FALSE]
     ELSE [u EXCEPT !.at = @ + part.units, !.out = @ \o part.out]

\* The turns of that loop.
Copies(g, s, start, end) ==
  /\ g \in [0..cJSON!Length(s) -> [at : Nat, out : Seq(Int), ok : BOOLEAN]]
  /\ g[0] = [at |-> start, out |-> <<>>, ok |-> TRUE]
  /\ \A n \in 1..cJSON!Length(s) : g[n] = CopyTurn(s, end, g[n-1])

\* Unescaped is where the last turn leads.
LEMMA CopyIs ==
  ASSUME NEW s, s.text \in Seq(Int), NEW start \in Nat, NEW end \in Nat
  PROVE  \E g : Copies(g, s, start, end) /\ cJSON!Unescaped(s, start, end) = g[cJSON!Length(s)]
<1> DEFINE m == cJSON!Length(s)
           V == [at : Nat, out : Seq(Int), ok : BOOLEAN]
           a == [at |-> start, out |-> <<>>, ok |-> TRUE]
           g == [n \in 1..m |-> [x \in V |-> CopyTurn(s, end, x)]]
           loop[n \in 0..m] == IF n = 0 THEN a ELSE CopyTurn(s, end, loop[n-1])
<1>1. m \in Nat
  BY LenProperties DEF cJSON!Length
<1>2. cJSON!Unescaped(s, start, end) = loop[m]
  BY DEF cJSON!Unescaped, CopyTurn, PartAt
<1>3. a \in V
  OBVIOUS
<1>4. ASSUME NEW x \in V PROVE CopyTurn(s, end, x) \in V
  <2> DEFINE part == PartAt(s, x.at, end)
  <2>1. part.out \in Seq(Int) /\ part.units \in Nat
    <3>1. x.at \in Nat
      OBVIOUS
    <3>2. SequenceFits(cJSON!Sequence(s, x.at, end), s, x.at, end)
      BY <3>1, SequenceIs
    <3>3. cJSON!UnitAt(s, x.at) \in Int
      <4>1. Len(s.text) \in Nat /\ \A i \in 1..Len(s.text) : s.text[i] \in Int
        BY LenProperties, ElementOfSeq
      <4> QED BY <3>1, <4>1 DEF cJSON!UnitAt, cJSON!Length
    <3> QED BY <3>2, <3>3 DEF SequenceFits, PartAt
  <2>2. CopyTurn(s, end, x) = IF ~x.ok \/ x.at >= end THEN x
                              ELSE IF part.units = 0 THEN [x EXCEPT !.ok = FALSE]
                              ELSE [x EXCEPT !.at = @ + part.units, !.out = @ \o part.out]
    BY DEF CopyTurn
  <2> HIDE DEF part
  <2>3. x.out \o part.out \in Seq(Int) /\ x.at + part.units \in Nat
    BY <2>1
  <2> QED BY <2>2, <2>3
<1>5. g \in [1..m -> [V -> V]] /\ \A n \in 1..m : \A x \in V : g[n][x] = CopyTurn(s, end, x)
  <2> HIDE DEF V
  <2> QED BY <1>4
<1> HIDE DEF g, V, a, m
<1>6. PICK f : Iterates(f, V, a, m, g)
  BY <1>1, <1>3, <1>5, RecursionExists
<1>7. f \in [0..m -> V] /\ f[0] = a /\ \A n \in 1..m : f[n] = g[n][f[n-1]]
  BY <1>6 DEF Iterates
<1>8. ASSUME NEW n \in 1..m PROVE f[n] = CopyTurn(s, end, f[n-1])
  <2>1. n-1 \in 0..m
    BY <1>1
  <2>2. f[n-1] \in V
    BY <1>7, <2>1
  <2> QED BY <1>5, <1>7, <2>2
<1>9. f = [n \in 0..m |-> IF n = 0 THEN a ELSE CopyTurn(s, end, f[n-1])]
  <2>1. \A n \in 0..m : n = 0 \/ n \in 1..m
    BY <1>1
  <2>2. \A n \in 0..m : f[n] = IF n = 0 THEN a ELSE CopyTurn(s, end, f[n-1])
    BY <1>7, <1>8, <2>1
  <2> QED BY <1>7, <2>2
<1>10. loop = [n \in 0..m |-> IF n = 0 THEN a ELSE CopyTurn(s, end, loop[n-1])]
  BY <1>9
<1> HIDE DEF loop
<1> DEFINE G == {n \in 0..m : loop[n] = f[n]}
<1>11. \A n \in 0..m : n \in G
  <2>1. 0 \in G
    BY <1>1, <1>7, <1>10
  <2>2. ASSUME NEW n \in 1..m, n-1 \in G PROVE n \in G
    <3>1. n \in 0..m /\ n # 0
      BY <1>1
    <3>2. loop[n] = CopyTurn(s, end, loop[n-1])
      BY <1>10, <3>1
    <3> QED BY <1>8, <2>2, <3>1, <3>2
  <2> HIDE DEF G
  <2> QED BY <1>1, <2>1, <2>2, CountingUp
<1>12. loop[m] = f[m]
  <2>1. m \in 0..m
    BY <1>1
  <2> QED BY <1>11, <2>1
<1>13. Copies(f, s, start, end)
  BY <1>7, <1>8 DEF Copies, m, V, a
<1> QED BY <1>2, <1>12, <1>13 DEF m

\* A scan that found its end, and a count of the text.
Found(f, s, start, P) ==
  /\ s.text \in Seq(Int) /\ start \in Nat /\ Scans(f, s, start) /\ Counts(P, s.text)
  /\ f[cJSON!Length(s)].at < cJSON!Length(s)

\* What a turn of it has before it: the end is not passed, there is no quote
\* before it, and each escape sequence that is left has a byte to spare.
StillAhead(f, s, P, n) ==
  LET last == f[cJSON!Length(s)]
  IN /\ f[n].at <= last.at
     /\ f[n].at < last.at => cJSON!UnitAt(s, f[n].at) # cJSON!Quote
     /\ P[f[n].at] + last.skipped <= P[last.at] + f[n].skipped

\* The count grows by a unit's width, from one unit to the next.
LEMMA CountGrows ==
  ASSUME NEW s, s.text \in Seq(Int), NEW P, Counts(P, s.text), NEW k \in Nat, k < cJSON!Length(s)
  PROVE  /\ P[k] \in Nat /\ P[k+1] \in Nat /\ P[k+1] = P[k] + cJSON!Width(cJSON!UnitAt(s, k))
         /\ cJSON!UnitAt(s, k) \in Int /\ cJSON!Width(cJSON!UnitAt(s, k)) \in 1..5
<1> DEFINE m == Len(s.text)
<1>1. m \in Nat /\ cJSON!Length(s) = m
  BY LenProperties DEF cJSON!Length
<1> HIDE DEF m
<1>2. k \in 0..m /\ k+1 \in 1..m /\ k+1 \in 0..m /\ (k+1)-1 = k
  BY <1>1
<1>3. cJSON!UnitAt(s, k) = s.text[k+1] /\ s.text[k+1] \in Int
  BY <1>1, <1>2, ElementOfSeq DEF cJSON!UnitAt, m
<1>4. P \in [0..m -> Nat] /\ P[k+1] = P[(k+1)-1] + cJSON!Width(s.text[k+1])
  BY <1>2 DEF Counts, m
<1> QED BY <1>2, <1>3, <1>4, WidthIs

\* So it is at every turn: seen from the last one back to the first.
LEMMA ScanAhead ==
  ASSUME NEW f, NEW s, NEW start, NEW P, Found(f, s, start, P), NEW n \in 0..cJSON!Length(s)
  PROVE  StillAhead(f, s, P, n)
<1> DEFINE m == cJSON!Length(s)
           last == f[m]
           U(k) == cJSON!UnitAt(s, k)
           G == {i \in 0..m : StillAhead(f, s, P, m - i)}
<1>1. m \in Nat /\ s.text \in Seq(Int) /\ Counts(P, s.text)
  BY LenProperties DEF cJSON!Length, Found
<1>2. /\ f \in [0..m -> [at : Nat, skipped : Nat]] /\ last.at < m
      /\ \A i \in 1..m : f[i] = ScanTurn(s, f[i-1])
  BY DEF Found, Scans
<1>3. \A k \in Nat : k < m => P[k] \in Nat /\ P[k+1] \in Nat /\ P[k+1] >= P[k] + 1
  <2> SUFFICES ASSUME NEW k \in Nat, k < m PROVE P[k] \in Nat /\ P[k+1] \in Nat /\ P[k+1] >= P[k] + 1
    OBVIOUS
  <2> DEFINE w == cJSON!Width(U(k))
  <2>1. P[k] \in Nat /\ P[k+1] \in Nat /\ P[k+1] = P[k] + w /\ w \in 1..5
    BY <1>1, CountGrows
  <2> HIDE DEF w
  <2> QED BY <2>1
<1>4. m \in 0..m /\ last.at \in Nat /\ last.skipped \in Nat
  BY <1>1, <1>2
<1>5. 0 \in G
  <2>1. m - 0 = m /\ 0 \in 0..m
    BY <1>1
  <2>2. P[last.at] \in Nat
    BY <1>2, <1>3, <1>4
  <2>3. StillAhead(f, s, P, m)
    BY <1>4, <2>2 DEF StillAhead
  <2> QED BY <2>1, <2>3
<1>6. ASSUME NEW i \in 1..m, i-1 \in G PROVE i \in G
  <2> DEFINE k == m - i
             x == f[k]
             y == f[k+1]
  <2>1. k \in 0..m /\ k+1 \in 1..m /\ k+1 \in 0..m /\ m - (i-1) = k+1 /\ (k+1)-1 = k /\ i \in 0..m
    BY <1>1
  <2>2. StillAhead(f, s, P, k+1)
    BY <1>6, <2>1
  <2> HIDE DEF k
  <2>3. x.at \in Nat /\ x.skipped \in Nat /\ y.at \in Nat /\ y.skipped \in Nat /\ y = ScanTurn(s, x)
    <3>1. x \in [at : Nat, skipped : Nat] /\ y \in [at : Nat, skipped : Nat] /\ y = ScanTurn(s, x)
      BY <1>2, <2>1
    <3> HIDE DEF x, y
    <3> QED BY <3>1
  <2>4. /\ y.at <= last.at /\ (y.at < last.at => U(y.at) # cJSON!Quote)
        /\ P[y.at] + last.skipped <= P[last.at] + y.skipped
    BY <2>2 DEF StillAhead
  <2> HIDE DEF x, y, last, m
  <2>5. /\ x.at <= last.at /\ (x.at < last.at => U(x.at) # cJSON!Quote)
        /\ P[x.at] + last.skipped <= P[last.at] + x.skipped
    <3>1. CASE x.at >= m \/ U(x.at) = cJSON!Quote
      <4>1. y = x
        BY <2>3, <3>1 DEF ScanTurn, m
      <4> QED BY <2>4, <4>1
    <3>2. CASE x.at < m /\ U(x.at) # cJSON!Quote /\ U(x.at) = cJSON!Backslash
      <4>1. y.at = x.at + 2 /\ y.skipped = x.skipped + 1
        BY <1>1, <2>3, <3>2 DEF ScanTurn, m
      <4>2. x.at + 1 < m /\ x.at <= last.at
        <5>1. last.at < m
          BY <1>2
        <5> QED BY <1>1, <1>4, <2>3, <2>4, <4>1, <5>1
      <4>3. P[x.at] \in Nat /\ P[x.at+1] \in Nat /\ P[x.at+1] >= P[x.at] + 1
        BY <1>3, <2>3, <3>2
      <4>4. x.at + 1 \in Nat /\ (x.at + 1) + 1 = x.at + 2
        BY <2>3
      <4>5. P[x.at+2] \in Nat /\ P[x.at+2] >= P[x.at+1] + 1
        BY <1>3, <4>2, <4>4
      <4>6. P[last.at] \in Nat
        BY <1>2, <1>3, <1>4
      <4> QED BY <1>4, <2>3, <2>4, <3>2, <4>1, <4>2, <4>3, <4>5, <4>6
    <3>3. CASE x.at < m /\ U(x.at) # cJSON!Quote /\ U(x.at) # cJSON!Backslash
      <4>0. y = [x EXCEPT !.at = @ + 1] /\ x \in [at : Nat, skipped : Nat]
        BY <1>1, <1>2, <2>1, <2>3, <3>3 DEF ScanTurn, m, x
      <4>1. y.at = x.at + 1 /\ y.skipped = x.skipped
        BY <4>0
      <4>3. P[x.at] \in Nat /\ P[x.at+1] \in Nat /\ P[x.at+1] >= P[x.at] + 1
        BY <1>3, <2>3, <3>3
      <4>6. P[last.at] \in Nat
        BY <1>2, <1>3, <1>4
      <4> QED BY <1>4, <2>3, <2>4, <3>3, <4>1, <4>3, <4>6
    <3> QED BY <1>1, <2>3, <3>1, <3>2, <3>3
  <2>6. StillAhead(f, s, P, k)
    BY <2>5 DEF StillAhead, x, last, m
  <2> QED BY <2>1, <2>6 DEF k
<1>7. \A i \in 0..m : i \in G
  <2> HIDE DEF G, m
  <2> QED BY <1>1, <1>5, <1>6, CountingUp
<1>8. m - n \in 0..m /\ m - (m - n) = n
  BY <1>1
<1> QED BY <1>7, <1>8

\* What was copied so far fits: a turn of the scan came by the same place, and
\* found that many bytes.
CopyAhead(u, f, s, start, P) ==
  \E n \in 0..cJSON!Length(s) :
    f[n].at = u.at /\ (cJSON!Bytes(u.out) + f[n].skipped) + P[start] <= P[u.at]

\* Before the end there is another turn of the scan.
LEMMA ScanGoesOn ==
  ASSUME NEW f, NEW s, NEW start, NEW P, Found(f, s, start, P), NEW n \in 0..cJSON!Length(s),
         f[n].at < f[cJSON!Length(s)].at
  PROVE  /\ n+1 \in 0..cJSON!Length(s) /\ f[n+1].at <= f[cJSON!Length(s)].at
         /\ IF cJSON!UnitAt(s, f[n].at) = cJSON!Backslash
            THEN f[n+1].at = f[n].at + 2 /\ f[n+1].skipped = f[n].skipped + 1
            ELSE f[n+1].at = f[n].at + 1 /\ f[n+1].skipped = f[n].skipped
<1> DEFINE m == cJSON!Length(s)
           x == f[n]
<1>1. m \in Nat
  BY LenProperties DEF cJSON!Length, Found
<1>2. /\ f \in [0..m -> [at : Nat, skipped : Nat]] /\ f[m].at < m
      /\ \A i \in 1..m : f[i] = ScanTurn(s, f[i-1])
  BY DEF Found, Scans
<1>3. n # m
  <2>1. f[m].at \in Nat
    BY <1>1, <1>2
  <2> QED BY <2>1
<1>4. n+1 \in 1..m /\ n+1 \in 0..m /\ (n+1)-1 = n
  BY <1>1, <1>3
<1>5. StillAhead(f, s, P, n) /\ StillAhead(f, s, P, n+1)
  BY <1>4, ScanAhead
<1>6. x \in [at : Nat, skipped : Nat] /\ f[m] \in [at : Nat, skipped : Nat] /\ f[n+1] = ScanTurn(s, x)
  <2>1. m \in 0..m
    BY <1>1
  <2> QED BY <1>2, <1>4, <2>1
<1>7. cJSON!UnitAt(s, x.at) # cJSON!Quote /\ f[n+1].at <= f[m].at
  BY <1>5 DEF StillAhead
<1>8. ~(x.at >= m)
  <2>1. x.at < f[m].at /\ f[m].at < m /\ x.at \in Nat /\ f[m].at \in Nat
    BY <1>2, <1>6
  <2> HIDE DEF x, m
  <2> QED BY <1>1, <2>1
<1>9. f[n+1] = IF cJSON!UnitAt(s, x.at) = cJSON!Backslash THEN [at |-> x.at + 2, skipped |-> x.skipped + 1]
               ELSE [x EXCEPT !.at = @ + 1]
  BY <1>6, <1>7, <1>8 DEF ScanTurn
<1> QED BY <1>4, <1>6, <1>7, <1>9

\* What a part is copied as is not longer than what the scan finds in it.
LEMMA PartCopied ==
  ASSUME NEW f, NEW s, NEW start, NEW P, Found(f, s, start, P), NEW n \in 0..cJSON!Length(s),
         NEW end, end = f[cJSON!Length(s)].at, NEW k, k = f[n].at, k < end,
         NEW part, part = PartAt(s, k, end), part.units # 0
  PROVE  /\ part.out \in Seq(Int)
         /\ \E i \in 0..cJSON!Length(s) :
              /\ f[i].at = k + part.units
              /\ (cJSON!Bytes(part.out) + f[i].skipped) + P[k] <= P[k + part.units] + f[n].skipped
<1> DEFINE m == cJSON!Length(s)
           U(j) == cJSON!UnitAt(s, j)
           b == cJSON!Backslash
           Goal(j) == /\ f[j].at = k + part.units
                      /\ (cJSON!Bytes(part.out) + f[j].skipped) + P[k] <= P[k + part.units] + f[n].skipped
<1>1. /\ s.text \in Seq(Int) /\ Counts(P, s.text) /\ m \in Nat /\ end < m
      /\ \A i \in 0..m : f[i].at \in Nat /\ f[i].skipped \in Nat
  <2>1. f \in [0..m -> [at : Nat, skipped : Nat]]
    BY DEF Found, Scans
  <2> QED BY <2>1, LenProperties DEF cJSON!Length, Found
<1>2. k \in Nat /\ end \in Nat /\ f[n].skipped \in Nat
  <2>1. m \in 0..m
    BY <1>1
  <2> QED BY <1>1, <2>1
<1>3. ASSUME NEW j \in Nat, j < end
      PROVE  /\ P[j] \in Nat /\ P[j+1] \in Nat /\ P[j+1] = P[j] + cJSON!Width(U(j))
             /\ U(j) \in Int /\ cJSON!Width(U(j)) \in 1..5
  <2>1. j < m
    BY <1>1, <1>2, <1>3
  <2> QED BY <1>1, <2>1, CountGrows
<1>4. ASSUME NEW i \in 0..m, f[i].at < end
      PROVE  /\ i+1 \in 0..m /\ f[i+1].at <= end
             /\ U(f[i].at) = b => f[i+1].at = f[i].at + 2 /\ f[i+1].skipped = f[i].skipped + 1
             /\ U(f[i].at) # b => f[i+1].at = f[i].at + 1 /\ f[i+1].skipped = f[i].skipped
  BY <1>4, ScanGoesOn
<1>5. ASSUME NEW j, cJSON!IsHex(U(j)) PROVE U(j) # b /\ cJSON!Width(U(j)) = 4
  BY <1>5 DEF cJSON!IsHex, cJSON!Backslash, cJSON!Width
<1> HIDE DEF U, b, m
<1>6. CASE U(k) # b
  <2>1. part = [out |-> <<U(k)>>, units |-> 1]
    BY <1>6 DEF U, b, PartAt
  <2>2. part.units = 1 /\ part.out = <<U(k)>>
    BY <2>1
  <2>3. part.out \in Seq(Int) /\ cJSON!Bytes(part.out) = cJSON!Width(U(k))
    <3>1. U(k) \in Int
      BY <1>2, <1>3
    <3>2. <<U(k)>> \in Seq(Int)
      BY <3>1
    <3>3. cJSON!Bytes(<<U(k)>>) = cJSON!Width(U(k))
      BY BytesOne
    <3> QED BY <2>2, <3>2, <3>3
  <2>4. n+1 \in 0..m /\ f[n+1].at = k + 1 /\ f[n+1].skipped = f[n].skipped
    BY <1>4, <1>6 DEF m
  <2> DEFINE w == cJSON!Width(U(k))
  <2>5. P[k] \in Nat /\ P[k+1] = P[k] + w /\ w \in 1..5
    BY <1>2, <1>3
  <2> HIDE DEF w
  <2>6. (w + f[n].skipped) + P[k] <= P[k+1] + f[n].skipped
    BY <1>2, <2>5
  <2>7. Goal(n+1)
    BY <2>2, <2>3, <2>4, <2>6 DEF w
  <2> QED BY <2>3, <2>4, <2>7 DEF m
<1>7. CASE U(k) = b
  <2>1. part = cJSON!Sequence(s, k, end)
    BY <1>7 DEF U, b, PartAt
  <2>2. SequenceFits(part, s, k, end)
    BY <1>1, <1>2, <2>1, SequenceIs
  <2> DEFINE d == cJSON!Bytes(part.out)
  <2>3. /\ part.out \in Seq(Int) /\ part.units \in {2, 3, 6} /\ d \in 1..4
        /\ part.units = 2 => d = 1
        /\ part.units \in {3, 6} => k + 2 < end /\ cJSON!IsHex(U(k+2))
        /\ part.units = 6 => U(k+3) = b /\ k + 5 < end /\ cJSON!IsHex(U(k+5))
    BY <2>2 DEF SequenceFits, HexIn, U, b
  <2> HIDE DEF d
  <2>4. n+1 \in 0..m /\ f[n+1].at = k + 2 /\ f[n+1].skipped = f[n].skipped + 1 /\ k + 2 <= end
    BY <1>4, <1>7 DEF m
  <2>5. /\ k+1 \in Nat /\ k+2 \in Nat /\ k+3 \in Nat /\ k+4 \in Nat /\ k+5 \in Nat /\ k+1 < end
        /\ (k+1)+1 = k+2 /\ (k+2)+1 = k+3 /\ (k+3)+1 = k+4 /\ (k+3)+2 = k+5 /\ (k+4)+1 = k+5 /\ (k+5)+1 = k+6
    BY <1>2, <2>4
  <2>6. P[k] \in Nat /\ P[k+1] \in Nat /\ P[k+2] \in Nat /\ P[k+1] >= P[k] + 1 /\ P[k+2] >= P[k+1] + 1
    <3>1. P[k] \in Nat /\ P[k+1] \in Nat /\ P[k+1] >= P[k] + 1
      BY <1>2, <1>3
    <3>2. P[k+2] \in Nat /\ P[k+2] >= P[k+1] + 1
      BY <1>3, <2>5
    <3> QED BY <3>1, <3>2
  <2>7. CASE part.units = 2
    <3>1. (d + f[n+1].skipped) + P[k] <= P[k+2] + f[n].skipped
      <4> DEFINE r == f[n].skipped
                 x == f[n+1].skipped
                 y == P[k]
                 z == P[k+2]
      <4>1. d \in Nat /\ r \in Nat /\ x = r + 1 /\ y \in Nat /\ z \in Nat
        BY <1>2, <2>3, <2>4, <2>6
      <4>2. z >= y + 2 /\ d <= 1
        BY <2>3, <2>6, <2>7
      <4> HIDE DEF r, x, y, z
      <4>3. (d + x) + y <= z + r
        BY <4>1, <4>2
      <4> QED BY <4>3 DEF r, x, y, z
    <3>2. Goal(n+1)
      BY <2>4, <2>7, <3>1 DEF d
    <3> QED BY <2>3, <2>4, <3>2 DEF m
  <2>8. ASSUME part.units \in {3, 6}
        PROVE  /\ n+2 \in 0..m /\ f[n+2].at = k + 3 /\ f[n+2].skipped = f[n].skipped + 1 /\ k + 3 <= end
               /\ P[k+3] \in Nat /\ P[k+3] = P[k+2] + 4
    <3>1. k + 2 < end /\ U(k+2) # b /\ cJSON!Width(U(k+2)) = 4
      BY <1>5, <2>3, <2>8
    <3>2. /\ (n+1)+1 \in 0..m /\ f[(n+1)+1].at = (k + 2) + 1 /\ f[(n+1)+1].skipped = f[n+1].skipped
          /\ f[(n+1)+1].at <= end
      BY <1>4, <2>4, <3>1
    <3>3. P[k+3] \in Nat /\ P[k+3] = P[k+2] + 4
      BY <1>3, <2>5, <3>1
    <3>4. (n+1)+1 = n+2
      BY <1>1
    <3> QED BY <2>4, <2>5, <3>2, <3>3, <3>4
  <2>9. CASE part.units = 3
    <3>0. /\ n+2 \in 0..m /\ f[n+2].at = k + 3 /\ f[n+2].skipped = f[n].skipped + 1 /\ k + 3 <= end
          /\ P[k+3] \in Nat /\ P[k+3] = P[k+2] + 4
      BY <2>8, <2>9
    <3>1. (d + f[n+2].skipped) + P[k] <= P[k+3] + f[n].skipped
      <4> DEFINE r == f[n].skipped
                 x == f[n+2].skipped
                 y == P[k]
                 z == P[k+3]
      <4>1. d \in Nat /\ r \in Nat /\ x = r + 1 /\ y \in Nat /\ z \in Nat
        BY <1>2, <2>3, <2>6, <3>0
      <4>2. z >= y + 6 /\ d <= 4
        <5>1. d <= 4
          BY <2>3
        <5>2. P[k+3] >= P[k] + 6
          BY <2>6, <3>0
        <5> QED BY <5>1, <5>2
      <4> HIDE DEF r, x, y, z
      <4>3. (d + x) + y <= z + r
        BY <4>1, <4>2
      <4> QED BY <4>3 DEF r, x, y, z
    <3>2. Goal(n+2)
      BY <2>8, <2>9, <3>1 DEF d
    <3> QED BY <2>3, <2>8, <2>9, <3>2 DEF m
  <2>10. CASE part.units = 6
    <3>1. /\ n+2 \in 0..m /\ f[n+2].at = k + 3 /\ f[n+2].skipped = f[n].skipped + 1
          /\ P[k+3] \in Nat /\ P[k+3] = P[k+2] + 4
      BY <2>8, <2>10
    <3>2. U(k+3) = b /\ k + 5 < end /\ U(k+5) # b /\ cJSON!Width(U(k+5)) = 4 /\ k + 3 < end /\ k + 4 < end
      <4>1. U(k+3) = b /\ k + 5 < end /\ cJSON!IsHex(U(k+5))
        BY <2>3, <2>10
      <4>2. U(k+5) # b /\ cJSON!Width(U(k+5)) = 4
        BY <1>5, <4>1
      <4>3. k + 3 < end /\ k + 4 < end
        BY <1>2, <4>1
      <4> QED BY <4>1, <4>2, <4>3
    <3>3. (n+2)+1 \in 0..m /\ f[(n+2)+1].at = (k + 3) + 2 /\ f[(n+2)+1].skipped = f[n+2].skipped + 1
      BY <1>4, <3>1, <3>2
    <3>4. (n+2)+1 = n+3 /\ (n+3)+1 = n+4
      BY <1>1
    <3>5. n+3 \in 0..m /\ f[n+3].at = k + 5 /\ f[n+3].skipped = f[n].skipped + 2
      BY <1>2, <2>5, <3>1, <3>3, <3>4
    <3>6. (n+3)+1 \in 0..m /\ f[(n+3)+1].at = (k + 5) + 1 /\ f[(n+3)+1].skipped = f[n+3].skipped
      BY <1>4, <3>2, <3>5
    <3>7. n+4 \in 0..m /\ f[n+4].at = k + 6 /\ f[n+4].skipped = f[n].skipped + 2
      BY <2>5, <3>4, <3>5, <3>6
    <3>8. P[k+4] \in Nat /\ P[k+4] >= P[k+3] + 1
      BY <1>3, <2>5, <3>2
    <3>9. P[k+5] \in Nat /\ P[k+5] >= P[k+4] + 1
      BY <1>3, <2>5, <3>2
    <3>10. P[k+6] \in Nat /\ P[k+6] = P[k+5] + 4
      BY <1>3, <2>5, <3>2
    <3>11. (d + f[n+4].skipped) + P[k] <= P[k+6] + f[n].skipped
      <4> DEFINE r == f[n].skipped
                 x == f[n+4].skipped
                 y == P[k]
                 z == P[k+6]
      <4>1. d \in Nat /\ r \in Nat /\ x = r + 2 /\ y \in Nat /\ z \in Nat
        BY <1>2, <2>3, <2>6, <3>7, <3>10
      <4>2. z >= y + 12 /\ d <= 4
        <5>1. d <= 4
          BY <2>3
        <5>2. P[k+3] >= P[k] + 6
          BY <2>6, <3>1
        <5>3. P[k+6] >= P[k+3] + 6
          BY <3>1, <3>8, <3>9, <3>10
        <5>4. P[k+6] >= P[k] + 12
          BY <2>6, <3>1, <3>10, <5>2, <5>3
        <5> QED BY <5>1, <5>4
      <4> HIDE DEF r, x, y, z
      <4>3. (d + x) + y <= z + r
        BY <4>1, <4>2
      <4> QED BY <4>3 DEF r, x, y, z
    <3>12. Goal(n+4)
      BY <2>10, <3>7, <3>11 DEF d
    <3> QED BY <2>3, <3>7, <3>12 DEF m
  <2> QED BY <2>3, <2>7, <2>9, <2>10
<1> QED BY <1>6, <1>7

\* A turn of the copying keeps to what the scan found.
LEMMA CopyFits ==
  ASSUME NEW f, NEW s, NEW start, NEW P, Found(f, s, start, P), NEW end, end = f[cJSON!Length(s)].at,
         NEW u, u.at \in Nat, u.out \in Seq(Int), u.ok \in BOOLEAN, DOMAIN u = {"at", "out", "ok"},
         u = [x \in DOMAIN u |-> u[x]], CopyAhead(u, f, s, start, P)
  PROVE  CopyAhead(CopyTurn(s, end, u), f, s, start, P)
<1> DEFINE m == cJSON!Length(s)
           w == CopyTurn(s, end, u)
           k == u.at
           part == PartAt(s, k, end)
           d == cJSON!Bytes(part.out)
           o == cJSON!Bytes(u.out)
<1>1. PICK n : n \in 0..m /\ f[n].at = k /\ (o + f[n].skipped) + P[start] <= P[k]
  BY DEF CopyAhead
<1>2. w = IF ~u.ok \/ k >= end THEN u
          ELSE IF part.units = 0 THEN [u EXCEPT !.ok = FALSE]
          ELSE [u EXCEPT !.at = @ + part.units, !.out = @ \o part.out]
  BY DEF CopyTurn
<1> HIDE DEF w
<1>3. CASE ~u.ok \/ k >= end
  BY <1>2, <1>3 DEF w
<1>4. CASE u.ok /\ ~(k >= end) /\ part.units = 0
  <2>1. w.at = u.at /\ w.out = u.out
    <3> HIDE DEF part
    <3> QED BY <1>2, <1>4
  <2> QED BY <1>1, <2>1 DEF CopyAhead, w
<1>5. CASE u.ok /\ ~(k >= end) /\ part.units # 0
  <2>1. /\ s.text \in Seq(Int) /\ Counts(P, s.text) /\ m \in Nat /\ end < m /\ start \in Nat
        /\ \A i \in 0..m : f[i].at \in Nat /\ f[i].skipped \in Nat
    <3>1. f \in [0..m -> [at : Nat, skipped : Nat]]
      BY DEF Found, Scans
    <3> QED BY <3>1, LenProperties DEF cJSON!Length, Found
  <2>2. end \in Nat /\ k < end
    <3>1. m \in 0..m
      BY <2>1
    <3>2. end \in Nat
      BY <2>1, <3>1
    <3> QED BY <1>5, <3>2
  <2>3. /\ part.out \in Seq(Int)
        /\ \E i \in 0..m : /\ f[i].at = k + part.units
                           /\ (d + f[i].skipped) + P[k] <= P[k + part.units] + f[n].skipped
    <3>1. k = f[n].at /\ n \in 0..cJSON!Length(s)
      BY <1>1
    <3>2. part.units # 0
      BY <1>5
    <3> HIDE DEF k
    <3> QED BY <2>2, <3>1, <3>2, PartCopied DEF part
  <2> HIDE DEF part, d
  <2>4. PICK i : /\ i \in 0..m /\ f[i].at = k + part.units
                 /\ (d + f[i].skipped) + P[k] <= P[k + part.units] + f[n].skipped
    BY <2>3
  <2>5. cJSON!Bytes(u.out \o part.out) = o + d /\ o \in Nat /\ d \in Nat
    BY <2>3, BytesConcat DEF d
  <2>6. P[k] \in Nat /\ P[k + part.units] \in Nat /\ P[start] \in Nat
    <3>1. \A j \in 0..m : P[j] \in Nat
      BY <2>1 DEF Counts, cJSON!Length
    <3>2. k \in 0..m
      BY <2>1, <2>2
    <3>3. 0 \in 0..m /\ f[0].at = start
      BY <2>1 DEF Found, Scans
    <3>4. start <= end
      BY <3>3, ScanAhead DEF StillAhead
    <3>5. start \in 0..m
      BY <2>1, <2>2, <3>4
    <3>6. f[i].at \in 0..m
      <4>1. f[i].at <= end
        BY <2>4, ScanAhead DEF StillAhead
      <4> QED BY <2>1, <2>2, <2>4, <4>1
    <3> QED BY <2>4, <3>1, <3>2, <3>5, <3>6
  <2>7. w.at = k + part.units /\ w.out = u.out \o part.out
    BY <1>2, <1>5
  <2>8. ((o + d) + f[i].skipped) + P[start] <= P[k + part.units]
    <3> DEFINE a == f[n].skipped
               b == f[i].skipped
               x == P[start]
               y == P[k]
               z == P[k + part.units]
    <3>1. /\ a \in Nat /\ b \in Nat /\ x \in Nat /\ y \in Nat /\ z \in Nat
          /\ (o + a) + x <= y /\ (d + b) + y <= z + a
      BY <1>1, <2>1, <2>4, <2>6
    <3> HIDE DEF a, b, x, y, z, o
    <3>2. ((o + d) + b) + x <= z
      BY <2>5, <3>1
    <3> QED BY <3>2 DEF a, b, x, y, z
  <2> QED BY <2>4, <2>5, <2>7, <2>8 DEF CopyAhead, w
<1> QED BY <1>3, <1>4, <1>5

\* What a string is parsed into fits into what is allocated for it, however it
\* is escaped and wherever it starts: the unescaped bytes and the NUL are no more
\* than the bytes between the quotes, less one for each escape sequence, and two.
THEOREM StringsInRoom ==
  ASSUME NEW H, NEW item,
         NEW s \in [heap : H, text : Seq(Int), offset : Nat, depth : Nat, ok : BOOLEAN, beyond : BOOLEAN]
  PROVE  cJSON!parse_string(s, item).beyond = s.beyond
<1> DEFINE m == cJSON!Length(s)
           start == s.offset + 1
           scanned == cJSON!Scanned(s, start)
           end == scanned.at
           u == cJSON!Unescaped(s, start, end)
           between == cJSON!Bytes(SubSeq(s.text, start + 1, end))
           allocated == (between + 2) - scanned.skipped
           copied == [s EXCEPT !.heap[item].type = "string", !.heap[item].value = u.out, !.offset = end + 1,
                               !.beyond = @ \/ cJSON!Bytes(u.out) + 1 > allocated]
           p == cJSON!parse_string(s, item)
<1>1. /\ s.text \in Seq(Int) /\ start \in Nat /\ m \in Nat
  BY LenProperties DEF cJSON!Length
<1>2. p = IF cJSON!Here(s) # cJSON!Quote \/ end >= m \/ ~u.ok THEN cJSON!Stop(s) ELSE copied
  BY DEF cJSON!parse_string
<1>3. cJSON!Stop(s).beyond = s.beyond
  BY DEF cJSON!Stop
<1>4. PICK f : Scans(f, s, start) /\ scanned = f[m]
  BY <1>1, ScanIs
<1>5. scanned \in [at : Nat, skipped : Nat]
  <2>1. m \in 0..m
    BY <1>1
  <2> QED BY <1>4, <2>1 DEF Scans
<1>6. end \in Nat /\ scanned.skipped \in Nat
  BY <1>5
<1> HIDE DEF scanned, u, p, m, start
<1>7. CASE ~(end >= m)
  <2>1. end < m
    BY <1>1, <1>6, <1>7
  <2>2. PICK P : Counts(P, s.text) /\ cJSON!Bytes(s.text) = P[Len(s.text)]
    BY <1>1, BytesIs
  <2>3. Found(f, s, start, P) /\ end = f[cJSON!Length(s)].at
    BY <1>1, <1>4, <2>1, <2>2 DEF Found, m
  <2>4. PICK g : Copies(g, s, start, end) /\ u = g[m]
    BY <1>1, <1>6, CopyIs DEF u, m
  <2> DEFINE V == [at : Nat, out : Seq(Int), ok : BOOLEAN]
             G == {i \in 0..m : CopyAhead(g[i], f, s, start, P)}
  <2>5. /\ g \in [0..m -> V] /\ g[0] = [at |-> start, out |-> <<>>, ok |-> TRUE]
        /\ \A i \in 1..m : g[i] = CopyTurn(s, end, g[i-1])
    BY <2>4 DEF Copies, m
  <2>6. /\ P \in [0..m -> Nat] /\ f \in [0..m -> [at : Nat, skipped : Nat]]
        /\ f[0] = [at |-> start, skipped |-> 0] /\ 0 \in 0..m /\ m \in 0..m
    BY <1>1, <2>2, <2>3 DEF Found, Scans, Counts, cJSON!Length, m
  <2>7. start <= end /\ start \in 0..m /\ end \in 0..m
    <3>1. f[0].at <= end
      BY <2>3, <2>6, ScanAhead DEF StillAhead, m
    <3>2. f[0].at = start
      BY <2>6
    <3> HIDE DEF end
    <3> QED BY <1>1, <1>6, <2>1, <3>1, <3>2
  <2>8. \A i \in 0..m : i \in G
    <3>1. 0 \in G
      <4>1. g[0].at = start /\ g[0].out = <<>> /\ f[0].at = start /\ f[0].skipped = 0
        BY <2>5, <2>6
      <4>2. P[start] \in Nat
        BY <2>6, <2>7
      <4>3. (0 + 0) + P[start] <= P[start]
        BY <4>2
      <4>4. CopyAhead(g[0], f, s, start, P)
        BY <2>6, <4>1, <4>3, BytesNone DEF CopyAhead, m
      <4> QED BY <2>6, <4>4
    <3>2. ASSUME NEW i \in 1..m, i-1 \in G PROVE i \in G
      <4> DEFINE x == g[i-1]
      <4>1. i \in 0..m /\ i-1 \in 0..m /\ CopyAhead(x, f, s, start, P)
        BY <1>1, <3>2
      <4>2. x \in V
        BY <2>5, <4>1
      <4> HIDE DEF x
      <4>3. /\ x.at \in Nat /\ x.out \in Seq(Int) /\ x.ok \in BOOLEAN /\ DOMAIN x = {"at", "out", "ok"}
            /\ x = [y \in DOMAIN x |-> x[y]]
        BY <4>2
      <4>4. CopyAhead(CopyTurn(s, end, x), f, s, start, P)
        BY <2>3, <4>1, <4>3, CopyFits
      <4> QED BY <2>5, <4>1, <4>4 DEF x
    <3> HIDE DEF G
    <3> QED BY <1>1, <3>1, <3>2, CountingUp
  <2>9. CopyAhead(u, f, s, start, P)
    BY <2>4, <2>6, <2>8
  <2>10. PICK n : n \in 0..m /\ f[n].at = u.at /\ (cJSON!Bytes(u.out) + f[n].skipped) + P[start] <= P[u.at]
    BY <2>9 DEF CopyAhead, m
  <2>11. StillAhead(f, s, P, n)
    BY <2>3, <2>10, ScanAhead DEF m
  <2>12. P[u.at] + scanned.skipped <= P[end] + f[n].skipped /\ u.at <= end
    BY <1>4, <2>10, <2>11 DEF StillAhead, m
  <2>13. between = P[end] - P[start]
    <3>1. start \in 0..Len(s.text) /\ end \in start..Len(s.text)
      BY <1>1, <1>6, <2>1, <2>7 DEF m, cJSON!Length
    <3> HIDE DEF end
    <3> QED BY <1>1, <2>2, <3>1, BytesPart
  <2>14. cJSON!Bytes(u.out) \in Nat /\ P[start] \in Nat /\ P[end] \in Nat /\ P[u.at] \in Nat /\ f[n].skipped \in Nat
    <3>1. u \in V
      BY <2>4, <2>5, <2>6
    <3>2. cJSON!Bytes(u.out) \in Nat
      BY <3>1, BytesConcat
    <3>3. u.at \in 0..m
      BY <1>1, <1>6, <2>1, <2>12, <3>1
    <3> QED BY <2>6, <2>7, <2>10, <3>2, <3>3
  <2> DEFINE o == cJSON!Bytes(u.out)
  <2>15. o + 1 <= allocated
    <3> DEFINE a == f[n].skipped
               b == scanned.skipped
               x == P[start]
               y == P[u.at]
               z == P[end]
    <3>1. /\ o \in Nat /\ a \in Nat /\ b \in Nat /\ x \in Nat /\ y \in Nat /\ z \in Nat
          /\ (o + a) + x <= y /\ y + b <= z + a /\ between = z - x
      BY <1>6, <2>10, <2>12, <2>13, <2>14
    <3> HIDE DEF a, b, x, y, z, o, between
    <3>2. o + 1 <= (between + 2) - b
      BY <3>1
    <3> QED BY <3>2 DEF b
  <2>16. ~(o + 1 > allocated)
    <3>1. o \in Nat /\ allocated \in Int
      BY <1>6, <2>13, <2>14
    <3> HIDE DEF o, allocated
    <3> QED BY <2>15, <3>1
  <2>17. copied.beyond = s.beyond
    BY <2>16
  <2> QED BY <1>2, <1>3, <1>7, <2>17 DEF p
<1> QED BY <1>2, <1>3, <1>7 DEF p
=============================================================================
