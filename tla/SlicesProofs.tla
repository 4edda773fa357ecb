---------------------------- MODULE SlicesProofs ----------------------------
(***************************************************************************)
(* Facts about sequences that the proofs of the poolers cite.              *)
(***************************************************************************)
EXTENDS Slices, TLAPS

\* Removing a position keeps the other elements, each once.
LEMMA RemoveIndexProperties ==
  ASSUME NEW S, NEW s \in Seq(S), Distinct(s), NEW i \in DOMAIN s
  PROVE  /\ RemoveIndex(s, i) \in Seq(S)
         /\ Distinct(RemoveIndex(s, i))
         /\ Elements(RemoveIndex(s, i)) = Elements(s) \ {s[i]}
<1> DEFINE t == RemoveIndex(s, i)
<1>1. Len(s) \in Nat /\ DOMAIN s = 1..Len(s) /\ i \in 1..Len(s)
  OBVIOUS
<1>2. /\ DOMAIN t = 1..(Len(s) - 1)
      /\ \A k \in 1..(Len(s) - 1) : t[k] = IF k < i THEN s[k] ELSE s[k + 1]
  BY Zenon DEF RemoveIndex
<1>3. t \in Seq(S)
  <2>1. \A k \in 1..(Len(s) - 1) : (IF k < i THEN s[k] ELSE s[k + 1]) \in S
    BY <1>1
  <2> QED  BY <1>1, <2>1 DEF RemoveIndex
<1> HIDE DEF t
<1>4. Distinct(t)
  <2> SUFFICES ASSUME NEW j \in 1..(Len(s) - 1), NEW k \in 1..(Len(s) - 1), t[j] = t[k]
               PROVE  j = k
    BY Zenon, <1>2 DEF Distinct
  <2> DEFINE at(n) == IF n < i THEN n ELSE n + 1
  <2>1. at(j) \in DOMAIN s /\ at(k) \in DOMAIN s /\ s[at(j)] = s[at(k)]
    BY <1>1, <1>2
  <2>2. at(j) = at(k)
    BY Zenon, <2>1 DEF Distinct
  <2> QED  BY <1>1, <2>2
<1>5. ASSUME NEW x \in Elements(t) PROVE x \in Elements(s) \ {s[i]}
  BY <1>1, <1>2, <1>5 DEF Elements, Distinct
<1>6. ASSUME NEW x \in Elements(s) \ {s[i]} PROVE x \in Elements(t)
  <2>1. PICK k \in 1..Len(s) : s[k] = x /\ k # i
    BY Zenon, <1>1, <1>6 DEF Elements
  <2>2. CASE k < i
    <3>1. k \in 1..(Len(s) - 1) /\ t[k] = x
      BY <1>1, <1>2, <2>1, <2>2
    <3> QED  BY Zenon, <1>2, <3>1 DEF Elements
  <2>3. CASE k > i
    <3>1. k - 1 \in 1..(Len(s) - 1) /\ t[k - 1] = x
      BY <1>1, <1>2, <2>1, <2>3
    <3> QED  BY Zenon, <1>2, <3>1 DEF Elements
  <2> QED  BY <1>1, <2>1, <2>2, <2>3
<1>7. Elements(t) = Elements(s) \ {s[i]}
  BY Zenon, <1>5, <1>6
<1> QED  BY Zenon, <1>3, <1>4, <1>7 DEF t

\* slices.Remove and slices.Delete take x out and keep the rest.
LEMMA RemoveProperties ==
  ASSUME NEW S, NEW s \in Seq(S), Distinct(s), NEW x
  PROVE  /\ Remove(s, x) \in Seq(S)
         /\ Distinct(Remove(s, x))
         /\ Elements(Remove(s, x)) = Elements(s) \ {x}
<1>1. CASE \E i \in DOMAIN s : IsIndex(s, x, i)
  <2> DEFINE i == CHOOSE k \in DOMAIN s : IsIndex(s, x, k)
  <2>1. i \in DOMAIN s /\ s[i] = x
    BY Zenon, <1>1 DEF IsIndex
  <2>2. Remove(s, x) = RemoveIndex(s, i)
    BY Zenon, <1>1 DEF Remove
  <2> HIDE DEF i
  <2> QED  BY <2>1, <2>2, RemoveIndexProperties
<1>2. CASE ~ \E i \in DOMAIN s : IsIndex(s, x, i)
  <2>1. x \notin Elements(s)
    <3> SUFFICES ASSUME NEW k \in DOMAIN s, s[k] = x PROVE FALSE
      BY Zenon DEF Elements
    <3>1. \E i \in DOMAIN s : s[i] = x /\ \A j \in 1..(i - 1) : s[j] # x
      BY DEF Distinct
    <3> QED  BY Zenon, <1>2, <3>1 DEF IsIndex
  <2> QED  BY Zenon, <1>2, <2>1 DEF Remove
<1> QED  BY Zenon, <1>1, <1>2

\* append: a new last element.
LEMMA AppendElements ==
  ASSUME NEW S, NEW s \in Seq(S), NEW x \in S
  PROVE  /\ Append(s, x) \in Seq(S)
         /\ Elements(Append(s, x)) = Elements(s) \cup {x}
         /\ Distinct(s) /\ x \notin Elements(s) => Distinct(Append(s, x))
<1> DEFINE t == Append(s, x)
<1>1. /\ t \in Seq(S) /\ Len(s) \in Nat /\ Len(t) = Len(s) + 1
      /\ DOMAIN s = 1..Len(s) /\ DOMAIN t = 1..(Len(s) + 1)
      /\ \A k \in 1..Len(s) : t[k] = s[k]
      /\ t[Len(s) + 1] = x
  OBVIOUS
<1> HIDE DEF t
<1>2. ASSUME NEW y \in Elements(t) PROVE y \in Elements(s) \cup {x}
  BY <1>1, <1>2 DEF Elements
<1>3. ASSUME NEW y \in Elements(s) PROVE y \in Elements(t)
  <2>1. PICK k \in 1..Len(s) : y = s[k]
    BY Zenon, <1>1 DEF Elements
  <2> QED  BY <1>1, <2>1 DEF Elements
<1>4. x \in Elements(t)
  BY <1>1 DEF Elements
<1>5. Distinct(s) /\ x \notin Elements(s) => Distinct(t)
  BY <1>1 DEF Distinct, Elements
<1> QED  BY Zenon, <1>1, <1>2, <1>3, <1>4, <1>5 DEF t

\* s[:len(s)-1]: the last element is taken.
LEMMA FrontElements ==
  ASSUME NEW S, NEW s \in Seq(S), s # <<>>, Distinct(s)
  PROVE  LET t == SubSeq(s, 1, Len(s) - 1)
             x == s[Len(s)]
         IN  /\ t \in Seq(S) /\ x \in S /\ x \in Elements(s)
             /\ Elements(t) = Elements(s) \ {x}
             /\ Distinct(t)
<1> DEFINE t == SubSeq(s, 1, Len(s) - 1)
           x == s[Len(s)]
<1>1. /\ t \in Seq(S) /\ Len(s) \in Nat \ {0}
      /\ DOMAIN s = 1..Len(s) /\ DOMAIN t = 1..(Len(s) - 1)
      /\ \A k \in 1..(Len(s) - 1) : t[k] = s[k]
      /\ x \in S
  OBVIOUS
<1> HIDE DEF t
<1>2. ASSUME NEW y \in Elements(t) PROVE y \in Elements(s) \ {x}
  BY <1>1, <1>2 DEF Elements, Distinct
<1>3. ASSUME NEW y \in Elements(s) \ {x} PROVE y \in Elements(t)
  <2>1. PICK k \in 1..Len(s) : y = s[k] /\ k # Len(s)
    BY Zenon, <1>1 DEF Elements
  <2>2. k \in 1..(Len(s) - 1)
    <3>1. Len(s) \in Nat /\ k # Len(s)
      BY Zenon, <1>1, <2>1
    <3> QED  BY <3>1
  <2>3. t[k] = y
    BY Zenon, <1>1, <2>1, <2>2
  <2> QED  BY Zenon, <1>1, <2>2, <2>3 DEF Elements
<1>4. Distinct(t)
  BY <1>1 DEF Distinct
<1>5. x \in Elements(s)
  BY <1>1 DEF Elements
<1> HIDE DEF x
<1>6. Elements(t) = Elements(s) \ {x}
  BY Zenon, <1>2, <1>3
<1> QED  BY Zenon, <1>1, <1>4, <1>5, <1>6 DEF t, x

\* PopFront of a ring: the first element is taken.
LEMMA TailElements ==
  ASSUME NEW S, NEW s \in Seq(S), s # <<>>, Distinct(s)
  PROVE  /\ Tail(s) \in Seq(S) /\ Head(s) \in S /\ Head(s) \in Elements(s)
         /\ Elements(Tail(s)) = Elements(s) \ {Head(s)}
         /\ Distinct(Tail(s))
<1> DEFINE t == Tail(s)
           x == Head(s)
<1>1. /\ t \in Seq(S) /\ Len(s) \in Nat \ {0}
      /\ DOMAIN s = 1..Len(s) /\ DOMAIN t = 1..(Len(s) - 1)
      /\ \A k \in 1..(Len(s) - 1) : t[k] = s[k + 1]
      /\ x = s[1] /\ x \in S
  OBVIOUS
<1> HIDE DEF t, x
<1>2. ASSUME NEW y \in Elements(t) PROVE y \in Elements(s) \ {x}
  BY <1>1, <1>2 DEF Elements, Distinct
<1>3. ASSUME NEW y \in Elements(s) \ {x} PROVE y \in Elements(t)
  <2>1. PICK k \in 1..Len(s) : y = s[k] /\ k # 1
    BY Zenon, <1>1 DEF Elements
  <2>2. k - 1 \in 1..(Len(s) - 1) /\ t[k - 1] = y
    BY <1>1, <2>1
  <2> QED  BY Zenon, <1>1, <2>2 DEF Elements
<1>4. Distinct(t)
  <2>1. SUFFICES ASSUME NEW i \in 1..(Len(s) - 1), NEW j \in 1..(Len(s) - 1),
                        t[i] = t[j]
                 PROVE  i = j
    BY Zenon, <1>1 DEF Distinct
  <2>2. i + 1 \in DOMAIN s /\ j + 1 \in DOMAIN s /\ s[i + 1] = s[j + 1]
    BY <1>1, <2>1
  <2>3. i + 1 = j + 1
    BY Zenon, <2>2 DEF Distinct
  <2> QED  BY <2>3
<1>5. x \in Elements(s)
  BY <1>1 DEF Elements
<1>6. Elements(t) = Elements(s) \ {x}
  BY Zenon, <1>2, <1>3
<1> QED  BY Zenon, <1>1, <1>4, <1>5, <1>6 DEF t, x

\* The elements of a slice of S are in S.
LEMMA ElementsType ==
  ASSUME NEW S, NEW s \in Seq(S)
  PROVE  Elements(s) \subseteq S
BY DEF Elements

\* The empty slice.
LEMMA EmptyElements ==
  /\ \A S : <<>> \in Seq(S)
  /\ Elements(<<>>) = {}
  /\ Distinct(<<>>)
BY DEF Elements, Distinct

\* Only the empty slice has no elements.
LEMMA NoElements ==
  ASSUME NEW S, NEW s \in Seq(S), Elements(s) = {}
  PROVE  s = <<>>
<1>1. SUFFICES ASSUME s # <<>> PROVE FALSE
  BY Zenon
<1>2. 1 \in DOMAIN s
  BY <1>1
<1> QED  BY Zenon, <1>2 DEF Elements

=============================================================================
