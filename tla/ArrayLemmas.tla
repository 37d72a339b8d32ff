---------------------------- MODULE ArrayLemmas ----------------------------
(***************************************************************************)
(* What the loops over arrays come to: the first place with a property,    *)
(* and the contents of an array after an element was appended, put in      *)
(* front, or taken out with the rest moved up.  And what counters come to: *)
(* sums over finite sets and arrays, and sums modulo a word's width.       *)
(***************************************************************************)
EXTENDS Integers, Sequences, FiniteSets, Functions, SequencesExt, SequenceTheorems,
        FiniteSetTheorems, WellFoundedInduction, TLAPS

LEMMA LeastNumber ==
  ASSUME NEW T, T \subseteq Nat, T # {}
  PROVE  \E i \in T : \A j \in T : i <= j
<1>1. PICK i \in T : \A j \in T : ~ (<<j, i>> \in OpToRel(<, Nat))
  BY WFMin, NatLessThanWellFounded
<1>2. \A j \in T : ~ (j < i)
  BY <1>1 DEF OpToRel
<1> QED
  BY <1>2

LEMMA RemoveAtProperties ==
  ASSUME NEW S, NEW s \in Seq(S), NEW i \in 1 .. Len(s)
  PROVE  /\ RemoveAt(s, i) \in Seq(S)
         /\ Len(RemoveAt(s, i)) = Len(s) - 1
         /\ \A j \in 1 .. Len(s) - 1 :
              RemoveAt(s, i)[j] = s[IF j < i THEN j ELSE j + 1]
<1> DEFINE a == SubSeq(s, 1, i - 1)
           b == SubSeq(s, i + 1, Len(s))
<1>1. Len(s) \in Nat
  BY LenProperties
<1>2. a \in Seq(S) /\ Len(a) = i - 1 /\ \A j \in 1 .. i - 1 : a[j] = s[j]
  BY <1>1, SubSeqProperties
<1>3. /\ b \in Seq(S) /\ Len(b) = Len(s) - i
      /\ \A j \in 1 .. Len(s) - i : b[j] = s[i + j]
  BY <1>1, SubSeqProperties
<1>4. /\ a \o b \in Seq(S) /\ Len(a \o b) = Len(a) + Len(b)
      /\ \A j \in 1 .. Len(a) + Len(b) :
           (a \o b)[j] = IF j <= Len(a) THEN a[j] ELSE b[j - Len(a)]
  BY <1>2, <1>3, ConcatProperties
<1>5. RemoveAt(s, i) = a \o b
  BY DEF RemoveAt
<1> HIDE DEF a, b
<1>6. Len(a) + Len(b) = Len(s) - 1
  BY <1>1, <1>2, <1>3
<1>7. ASSUME NEW j \in 1 .. Len(s) - 1
      PROVE  (a \o b)[j] = s[IF j < i THEN j ELSE j + 1]
  <2>1. CASE j < i
    <3>1. j \in 1 .. Len(a) + Len(b) /\ j <= Len(a) /\ j \in 1 .. i - 1
      BY <1>1, <1>2, <1>6, <2>1
    <3> QED
      BY <1>2, <1>4, <2>1, <3>1
  <2>2. CASE ~ (j < i)
    <3>1. /\ j - Len(a) \in 1 .. Len(s) - i /\ i + (j - Len(a)) = j + 1
          /\ j \in 1 .. Len(a) + Len(b) /\ ~ (j <= Len(a))
      BY <1>1, <1>2, <1>6, <2>2
    <3>2. (a \o b)[j] = b[j - Len(a)]
      BY <1>4, <3>1
    <3>3. b[j - Len(a)] = s[j + 1]
      BY <1>3, <3>1
    <3> QED
      BY <2>2, <3>2, <3>3
  <2> QED
    BY <2>1, <2>2
<1> QED
  BY <1>4, <1>5, <1>6, <1>7

\* Without its element at i an array lists the others, each once.
LEMMA RemoveAtElements ==
  ASSUME NEW S, NEW s \in Seq(S), NEW i \in 1 .. Len(s), IsInjective(s)
  PROVE  /\ ToSet(RemoveAt(s, i)) = ToSet(s) \ {s[i]}
         /\ IsInjective(RemoveAt(s, i))
<1> DEFINE n == RemoveAt(s, i)
<1>1. /\ n \in Seq(S) /\ Len(n) = Len(s) - 1 /\ Len(s) \in Nat
      /\ \A j \in 1 .. Len(s) - 1 : n[j] = s[IF j < i THEN j ELSE j + 1]
  BY RemoveAtProperties, LenProperties
<1>2. DOMAIN s = 1 .. Len(s) /\ DOMAIN n = 1 .. Len(n)
  BY <1>1, LenProperties
<1>3. \A j, k \in 1 .. Len(s) : s[j] = s[k] => j = k
  BY <1>2 DEF IsInjective
<1> HIDE DEF n
<1>4. ASSUME NEW j \in 1 .. Len(n)
      PROVE  \E k \in 1 .. Len(s) :
               k # i /\ n[j] = s[k] /\ k = IF j < i THEN j ELSE j + 1
  <2>1. CASE j < i
    BY <1>1, <2>1
  <2>2. CASE ~ (j < i)
    <3>1. j + 1 \in 1 .. Len(s) /\ j + 1 # i /\ j \in 1 .. Len(s) - 1
      BY <1>1, <2>2
    <3>2. n[j] = s[j + 1]
      BY <1>1, <2>2, <3>1
    <3> QED
      BY <2>2, <3>1, <3>2
  <2> QED
    BY <2>1, <2>2
<1>5. ASSUME NEW k \in 1 .. Len(s), k # i
      PROVE  \E j \in 1 .. Len(n) : n[j] = s[k]
  <2>1. CASE k < i
    <3>1. k \in 1 .. Len(n) /\ n[k] = s[k]
      BY <1>1, <2>1
    <3> QED
      BY <3>1
  <2>2. CASE ~ (k < i)
    <3>1. k - 1 \in 1 .. Len(n) /\ ~ (k - 1 < i) /\ (k - 1) + 1 = k
      BY <1>1, <1>5, <2>2
    <3>2. n[k - 1] = s[k]
      BY <1>1, <3>1
    <3> QED
      BY <3>1, <3>2
  <2> QED
    BY <2>1, <2>2
<1>6. \A x : x \in ToSet(n) <=> \E j \in 1 .. Len(n) : x = n[j]
  BY <1>2 DEF ToSet
<1>7. \A x : x \in ToSet(s) <=> \E k \in 1 .. Len(s) : x = s[k]
  BY <1>2 DEF ToSet
<1>8. \A x : x \in ToSet(n) => x \in ToSet(s) /\ x # s[i]
  BY <1>3, <1>4, <1>6, <1>7
<1>9. \A x : x \in ToSet(s) /\ x # s[i] => x \in ToSet(n)
  BY <1>5, <1>6, <1>7
<1>10. ToSet(n) = ToSet(s) \ {s[i]}
  BY <1>8, <1>9
<1>11. ASSUME NEW j \in 1 .. Len(n), NEW k \in 1 .. Len(n), n[j] = n[k]
       PROVE  j = k
  <2>1. PICK p \in 1 .. Len(s) : n[j] = s[p] /\ p = IF j < i THEN j ELSE j + 1
    BY <1>4
  <2>2. PICK q \in 1 .. Len(s) : n[k] = s[q] /\ q = IF k < i THEN k ELSE k + 1
    BY <1>4
  <2>3. p = q
    BY <1>3, <1>11, <2>1, <2>2
  <2> QED
    BY <1>1, <2>1, <2>2, <2>3
<1>12. IsInjective(n)
  BY <1>2, <1>11 DEF IsInjective
<1> QED
  BY <1>10, <1>12 DEF n

LEMMA AppendElements ==
  ASSUME NEW S, NEW s \in Seq(S), NEW e \in S
  PROVE  /\ Append(s, e) \in Seq(S) /\ Len(Append(s, e)) = Len(s) + 1
         /\ ToSet(Append(s, e)) = ToSet(s) \cup {e}
         /\ IsInjective(s) /\ e \notin ToSet(s) => IsInjective(Append(s, e))
<1> DEFINE n == Append(s, e)
<1>1. /\ n \in Seq(S) /\ Len(n) = Len(s) + 1 /\ n[Len(s) + 1] = e
      /\ \A i \in 1 .. Len(s) : n[i] = s[i]
      /\ Len(s) \in Nat
  BY AppendProperties, LenProperties
<1>2. DOMAIN s = 1 .. Len(s) /\ DOMAIN n = 1 .. Len(s) + 1
  BY <1>1, LenProperties
<1> HIDE DEF n
<1>3. \A x : x \in ToSet(s) <=> \E i \in 1 .. Len(s) : x = s[i]
  BY <1>2 DEF ToSet
<1>4. \A x : x \in ToSet(n) <=> \E i \in 1 .. Len(s) + 1 : x = n[i]
  BY <1>2 DEF ToSet
<1>5. \A i \in 1 .. Len(s) + 1 : i \in 1 .. Len(s) \/ i = Len(s) + 1
  BY <1>1
<1>6. \A i \in 1 .. Len(s) : i \in 1 .. Len(s) + 1
  BY <1>1
<1>7. \A x : x \in ToSet(n) <=> x \in ToSet(s) \/ x = e
  <2>1. Len(s) + 1 \in 1 .. Len(s) + 1
    BY <1>1
  <2> QED
    BY <1>1, <1>3, <1>4, <1>5, <1>6, <2>1
<1>8. ToSet(n) = ToSet(s) \cup {e}
  BY <1>7
<1>9. ASSUME IsInjective(s), e \notin ToSet(s),
             NEW i \in 1 .. Len(s) + 1, NEW j \in 1 .. Len(s) + 1, n[i] = n[j]
      PROVE  i = j
  <2>1. \A k \in 1 .. Len(s) : s[k] # e
    BY <1>3, <1>9
  <2>2. \A k, l \in 1 .. Len(s) : s[k] = s[l] => k = l
    BY <1>2, <1>9 DEF IsInjective
  <2> QED
    BY <1>1, <1>5, <1>9, <2>1, <2>2
<1>10. IsInjective(s) /\ e \notin ToSet(s) => IsInjective(n)
  BY <1>2, <1>9 DEF IsInjective
<1> QED
  BY <1>1, <1>8, <1>10 DEF n

LEMMA PushElements ==
  ASSUME NEW S, NEW s \in Seq(S), NEW e \in S
  PROVE  /\ <<e>> \o s \in Seq(S)
         /\ ToSet(<<e>> \o s) = ToSet(s) \cup {e}
         /\ IsInjective(s) /\ e \notin ToSet(s) => IsInjective(<<e>> \o s)
<1> DEFINE n == <<e>> \o s
<1>1. <<e>> \in Seq(S) /\ Len(<<e>>) = 1 /\ <<e>>[1] = e /\ Len(s) \in Nat
  BY LenProperties
<1>2. /\ n \in Seq(S) /\ Len(n) = 1 + Len(s)
      /\ \A i \in 1 .. 1 + Len(s) : n[i] = IF i <= 1 THEN <<e>>[i] ELSE s[i - 1]
  BY <1>1, ConcatProperties
<1>3. DOMAIN s = 1 .. Len(s) /\ DOMAIN n = 1 .. 1 + Len(s)
  BY <1>2, LenProperties
<1> HIDE DEF n
<1>4. n[1] = e /\ \A i \in 1 .. Len(s) : n[i + 1] = s[i]
  <2>1. 1 \in 1 .. 1 + Len(s)
    BY <1>1
  <2>2. \A i \in 1 .. Len(s) :
          i + 1 \in 1 .. 1 + Len(s) /\ ~ (i + 1 <= 1) /\ (i + 1) - 1 = i
    BY <1>1
  <2> QED
    BY <1>1, <1>2, <2>1, <2>2
<1>5. \A i \in 1 .. 1 + Len(s) : i = 1 \/ \E j \in 1 .. Len(s) : i = j + 1
  <2> SUFFICES ASSUME NEW i \in 1 .. 1 + Len(s), i # 1
               PROVE  \E j \in 1 .. Len(s) : i = j + 1
    OBVIOUS
  <2>1. i - 1 \in 1 .. Len(s) /\ i = (i - 1) + 1
    BY <1>1
  <2> QED
    BY <2>1
<1>6. \A x : x \in ToSet(s) <=> \E i \in 1 .. Len(s) : x = s[i]
  BY <1>3 DEF ToSet
<1>7. \A x : x \in ToSet(n) <=> \E i \in 1 .. 1 + Len(s) : x = n[i]
  BY <1>3 DEF ToSet
<1>8. \A x : x \in ToSet(n) <=> x \in ToSet(s) \/ x = e
  <2>1. 1 \in 1 .. 1 + Len(s) /\ \A i \in 1 .. Len(s) : i + 1 \in 1 .. 1 + Len(s)
    BY <1>1
  <2> QED
    BY <1>4, <1>5, <1>6, <1>7, <2>1
<1>9. ASSUME IsInjective(s), e \notin ToSet(s),
             NEW i \in 1 .. 1 + Len(s), NEW j \in 1 .. 1 + Len(s), n[i] = n[j]
      PROVE  i = j
  <2>1. \A k \in 1 .. Len(s) : s[k] # e
    BY <1>6, <1>9
  <2>2. \A k, l \in 1 .. Len(s) : s[k] = s[l] => k = l
    BY <1>3, <1>9 DEF IsInjective
  <2>3. CASE i = 1 \/ j = 1
    BY <1>4, <1>5, <1>9, <2>1, <2>3
  <2>4. CASE i # 1 /\ j # 1
    <3>1. PICK k \in 1 .. Len(s) : i = k + 1
      BY <1>5, <2>4
    <3>2. PICK l \in 1 .. Len(s) : j = l + 1
      BY <1>5, <2>4
    <3>3. s[k] = s[l]
      BY <1>4, <1>9, <3>1, <3>2
    <3> QED
      BY <2>2, <3>1, <3>2, <3>3
  <2> QED
    BY <2>3, <2>4
<1>10. IsInjective(s) /\ e \notin ToSet(s) => IsInjective(n)
  BY <1>3, <1>9 DEF IsInjective
<1>11. ToSet(n) = ToSet(s) \cup {e}
  BY <1>8
<1> QED
  BY <1>2, <1>10, <1>11 DEF n

LEMMA TailElements ==
  ASSUME NEW S, NEW s \in Seq(S), s # <<>>, IsInjective(s)
  PROVE  /\ Tail(s) \in Seq(S) /\ Head(s) \in ToSet(s)
         /\ ToSet(Tail(s)) = ToSet(s) \ {Head(s)}
         /\ IsInjective(Tail(s))
<1> DEFINE n == Tail(s)
<1>1. /\ n \in Seq(S) /\ Len(s) \in Nat /\ Len(s) > 0 /\ Len(n) = Len(s) - 1
      /\ \A i \in 1 .. Len(n) : n[i] = s[i + 1]
      /\ Head(s) = s[1]
  BY HeadTailProperties, LenProperties, EmptySeq
<1>2. DOMAIN s = 1 .. Len(s) /\ DOMAIN n = 1 .. Len(n)
  BY <1>1, LenProperties
<1> HIDE DEF n
<1>3. \A j, k \in 1 .. Len(s) : s[j] = s[k] => j = k
  BY <1>2 DEF IsInjective
<1>4. \A x : x \in ToSet(s) <=> \E i \in 1 .. Len(s) : x = s[i]
  BY <1>2 DEF ToSet
<1>5. \A x : x \in ToSet(n) <=> \E i \in 1 .. Len(n) : x = n[i]
  BY <1>2 DEF ToSet
<1>6. \A i \in 1 .. Len(n) : i + 1 \in 1 .. Len(s) /\ i + 1 # 1
  BY <1>1
<1>7. ASSUME NEW i \in 1 .. Len(s), i # 1
      PROVE  \E j \in 1 .. Len(n) : s[i] = n[j]
  <2>1. i - 1 \in 1 .. Len(n) /\ (i - 1) + 1 = i
    BY <1>1, <1>7
  <2> QED
    BY <1>1, <2>1
<1>8. 1 \in 1 .. Len(s)
  BY <1>1
<1>9. \A x : x \in ToSet(n) <=> x \in ToSet(s) /\ x # Head(s)
  <2>1. ASSUME NEW i \in 1 .. Len(n)
        PROVE  n[i] \in ToSet(s) /\ n[i] # Head(s)
    BY <1>1, <1>3, <1>4, <1>6, <1>8
  <2>2. ASSUME NEW i \in 1 .. Len(s), s[i] # Head(s) PROVE s[i] \in ToSet(n)
    BY <1>1, <1>5, <1>7, <2>2
  <2> QED
    BY <1>4, <1>5, <2>1, <2>2
<1>10. ToSet(n) = ToSet(s) \ {Head(s)}
  BY <1>9
<1>11. ASSUME NEW i \in 1 .. Len(n), NEW j \in 1 .. Len(n), n[i] = n[j]
       PROVE  i = j
  <2>1. s[i + 1] = s[j + 1]
    BY <1>1, <1>11
  <2>2. i + 1 = j + 1
    BY <1>3, <1>6, <2>1
  <2> QED
    BY <1>1, <2>2
<1>12. IsInjective(n)
  BY <1>2, <1>11 DEF IsInjective
<1>13. Head(s) \in ToSet(s)
  BY <1>1, <1>4, <1>8
<1> QED
  BY <1>1, <1>10, <1>12, <1>13 DEF n

\* All elements but the last.
LEMMA FrontElements ==
  ASSUME NEW S, NEW s \in Seq(S), IsInjective(s), Len(s) > 0
  PROVE  /\ Last(s) \in S /\ Last(s) \in ToSet(s)
         /\ Front(s) \in Seq(S) /\ IsInjective(Front(s))
         /\ ToSet(Front(s)) = ToSet(s) \ {Last(s)}
<1> DEFINE n == Len(s) - 1
           f == SubSeq(s, 1, n)
<1>1. DOMAIN s = 1 .. Len(s) /\ Len(s) \in Nat /\ Len(s) \in 1 .. Len(s)
  BY LenProperties
<1>2. \A i \in 1 .. Len(s) : s[i] \in S
  BY ElementOfSeq
<1>3. f \in Seq(S) /\ Len(f) = n /\ \A i \in 1 .. n : f[i] = s[i]
  BY <1>1, SubSeqProperties
<1>13. n \in Nat /\ Len(s) = n + 1
  BY <1>1
<1> HIDE DEF f, n
<1>4. DOMAIN f = 1 .. n
  BY <1>3, LenProperties
<1>5. \A i, j \in 1 .. Len(s) : s[i] = s[j] => i = j
  BY <1>1 DEF IsInjective
<1>6. \A x : x \in ToSet(s) <=> \E i \in 1 .. Len(s) : x = s[i]
  BY <1>1 DEF ToSet
<1>7. \A x : x \in ToSet(f) <=> \E i \in 1 .. n : x = f[i]
  BY <1>4 DEF ToSet
<1>8. \A i \in 1 .. Len(s) : i \in 1 .. n \/ i = Len(s)
  BY <1>13
<1>9. \A i \in 1 .. n : i \in 1 .. Len(s) /\ i # Len(s)
  BY <1>13
<1>10. ToSet(f) = ToSet(s) \ {s[Len(s)]}
  <2>1. ASSUME NEW x \in ToSet(f) PROVE x \in ToSet(s) /\ x # s[Len(s)]
    <3>1. PICK i \in 1 .. n : x = f[i]
      BY <1>7
    <3>2. x = s[i] /\ i \in 1 .. Len(s) /\ i # Len(s)
      BY <1>3, <1>9, <3>1
    <3> QED
      BY <1>1, <1>5, <1>6, <3>2
  <2>2. ASSUME NEW x \in ToSet(s), x # s[Len(s)] PROVE x \in ToSet(f)
    <3>1. PICK i \in 1 .. Len(s) : x = s[i]
      BY <1>6
    <3>2. i \in 1 .. n
      BY <1>8, <2>2, <3>1
    <3> QED
      BY <1>3, <1>7, <3>1, <3>2
  <2> QED
    BY <2>1, <2>2
<1>11. IsInjective(f)
  BY <1>3, <1>4, <1>5, <1>9 DEF IsInjective
<1>12. Front(s) = f /\ Last(s) = s[Len(s)]
  BY DEF Front, Last, f, n
<1> QED
  BY <1>1, <1>2, <1>3, <1>6, <1>10, <1>11, <1>12

-----------------------------------------------------------------------------
(* Sums over finite sets, as the community modules define them. *)

\* The recursion of MapThenFoldSet, for a sum.
Pick(T) == CHOOSE x \in T : TRUE
SumsTo(f, g, A) ==
  g = [T \in A |-> IF T = {} THEN 0 ELSE f[Pick(T)] + g[T \ {Pick(T)}]]
Small(S, n) == {T \in SUBSET S : Cardinality(T) <= n}

LEMMA SmallerByOne ==
  ASSUME NEW T, IsFiniteSet(T), NEW x \in T
  PROVE  /\ IsFiniteSet(T \ {x}) /\ Cardinality(T) \in Nat
         /\ Cardinality(T \ {x}) = Cardinality(T) - 1
         /\ Cardinality(T \ {x}) \in Nat
BY FS_RemoveElement, FS_CardinalityType

LEMMA PickIn ==
  ASSUME NEW T, T # {}
  PROVE  Pick(T) \in T
BY DEF Pick

LEMMA SumsUpTo ==
  ASSUME NEW S, IsFiniteSet(S), NEW f, NEW n \in Nat
  PROVE  \E g : SumsTo(f, g, Small(S, n))
<1> DEFINE bad == {m \in Nat : ~ \E g : SumsTo(f, g, Small(S, m))}
<1>1. \A T \in SUBSET S : IsFiniteSet(T) /\ Cardinality(T) \in Nat
  BY FS_Subset, FS_CardinalityType
<1> SUFFICES ASSUME bad # {} PROVE FALSE
  OBVIOUS
<1>2. PICK m \in bad : \A j \in bad : m <= j
  <2>1. bad \subseteq Nat
    OBVIOUS
  <2> HIDE DEF bad
  <2> QED
    BY <2>1, LeastNumber
<1>3. m # 0
  <2> SUFFICES ASSUME m = 0 PROVE FALSE
    OBVIOUS
  <2> DEFINE g == [T \in Small(S, 0) |-> 0]
  <2>1. \A T \in Small(S, 0) : T = {}
    BY <1>1, FS_EmptySet DEF Small
  <2>2. SumsTo(f, g, Small(S, 0))
    BY <2>1 DEF SumsTo
  <2> QED
    BY <2>2
<1>4. m \in Nat /\ m - 1 \in Nat /\ m - 1 \notin bad
  BY <1>2, <1>3
<1>5. PICK g : SumsTo(f, g, Small(S, m - 1))
  BY <1>4
<1> DEFINE h == [T \in Small(S, m) |->
                   IF T = {} THEN 0 ELSE f[Pick(T)] + g[T \ {Pick(T)}]]
<1>6. ASSUME NEW T \in Small(S, m), T # {}
      PROVE  T \ {Pick(T)} \in Small(S, m - 1) /\ T \ {Pick(T)} \in Small(S, m)
  <2>1. T \in SUBSET S /\ Cardinality(T) <= m /\ Pick(T) \in T
    BY <1>6, PickIn DEF Small
  <2>2. /\ Cardinality(T) \in Nat
        /\ Cardinality(T \ {Pick(T)}) = Cardinality(T) - 1
    BY <1>1, <2>1, SmallerByOne
  <2> QED
    BY <1>4, <2>1, <2>2 DEF Small
<1>7. ASSUME NEW T \in Small(S, m - 1) PROVE h[T] = g[T]
  <2>1. T \in Small(S, m)
    BY <1>1, <1>4 DEF Small
  <2> QED
    BY <1>5, <2>1 DEF SumsTo
<1>8. SumsTo(f, h, Small(S, m))
  <2>1. ASSUME NEW T \in Small(S, m)
        PROVE  h[T] = IF T = {} THEN 0 ELSE f[Pick(T)] + h[T \ {Pick(T)}]
    BY <1>6, <1>7
  <2> HIDE DEF h
  <2>2. h = [T \in Small(S, m) |-> h[T]]
    BY DEF h
  <2> QED
    BY <2>1, <2>2 DEF SumsTo
<1> QED
  BY <1>2, <1>8

\* A set of subsets that has a set as soon as it has all that lack one of its
\* elements has them all.
LEMMA SubsetInduction ==
  ASSUME NEW S, IsFiniteSet(S), NEW Good,
         \A T \in SUBSET S : (\A x \in T : T \ {x} \in Good) => T \in Good
  PROVE  S \in Good
<1> DEFINE bad == {Cardinality(T) : T \in (SUBSET S) \ Good}
<1>1. \A T \in SUBSET S : IsFiniteSet(T) /\ Cardinality(T) \in Nat
  BY FS_Subset, FS_CardinalityType
<1> SUFFICES ASSUME (SUBSET S) \ Good # {} PROVE FALSE
  OBVIOUS
<1>2. bad \subseteq Nat /\ bad # {}
  BY <1>1
<1>3. PICK m \in bad : \A j \in bad : m <= j
  <2> HIDE DEF bad
  <2> QED
    BY <1>2, LeastNumber
<1>4. PICK T \in (SUBSET S) \ Good : m = Cardinality(T)
  BY <1>3
<1>5. ASSUME NEW x \in T PROVE T \ {x} \in Good
  <2>1. Cardinality(T \ {x}) = m - 1 /\ m \in Nat
    BY <1>1, <1>4, SmallerByOne
  <2>2. T \ {x} \in SUBSET S /\ Cardinality(T \ {x}) \notin bad
    BY <1>2, <1>3, <2>1
  <2>3. \A U \in (SUBSET S) \ Good : Cardinality(U) \in bad
    OBVIOUS
  <2> HIDE DEF bad
  <2> QED
    BY <2>2, <2>3
<1> QED
  BY <1>4, <1>5

\* SumFunctionOnSet by its recursion.
SumsOf(f, g, S) ==
  g[{}] = 0 /\ \A T \in SUBSET S : T # {} => g[T] = f[Pick(T)] + g[T \ {Pick(T)}]

LEMMA SumUnfolds ==
  ASSUME NEW S, IsFiniteSet(S), NEW f
  PROVE  \E g : SumFunctionOnSet(f, S) = g[S] /\ SumsOf(f, g, S)
<1> DEFINE g == CHOOSE g : SumsTo(f, g, SUBSET S)
<1>1. SumFunctionOnSet(f, S) = g[S]
  BY DEF SumFunctionOnSet, FoldFunctionOnSet, MapThenFoldSet, SumsTo, Pick
<1>2. Small(S, Cardinality(S)) = SUBSET S /\ Cardinality(S) \in Nat
  BY FS_Subset, FS_CardinalityType DEF Small
<1>3. \E u : SumsTo(f, u, SUBSET S)
  <2>1. \E u : SumsTo(f, u, Small(S, Cardinality(S)))
    BY <1>2, SumsUpTo
  <2> QED
    BY <1>2, <2>1
<1>4. SumsTo(f, g, SUBSET S)
  BY <1>3
<1> HIDE DEF g
<1>5. g[{}] = 0
  BY <1>4 DEF SumsTo
<1>6. \A T \in SUBSET S : T # {} => g[T] = f[Pick(T)] + g[T \ {Pick(T)}]
  BY <1>4 DEF SumsTo
<1> QED
  BY <1>1, <1>5, <1>6 DEF SumsOf

LEMMA SumsAgree ==
  ASSUME NEW S, IsFiniteSet(S), NEW e, NEW f, NEW g, NEW h,
         \A x \in S : e[x] = f[x], SumsOf(e, g, S), SumsOf(f, h, S)
  PROVE  g[S] = h[S]
<1> DEFINE Good == {T \in SUBSET S : g[T] = h[T]}
<1>1. ASSUME NEW T \in SUBSET S, \A x \in T : T \ {x} \in Good
      PROVE  T \in Good
  <2>1. CASE T = {}
    BY <2>1 DEF SumsOf
  <2>2. CASE T # {}
    <3>1. Pick(T) \in T
      BY <2>2, PickIn
    <3>2. g[T \ {Pick(T)}] = h[T \ {Pick(T)}] /\ e[Pick(T)] = f[Pick(T)]
      BY <1>1, <3>1
    <3> QED
      BY <2>2, <3>2 DEF SumsOf
  <2> QED
    BY <2>1, <2>2
<1> HIDE DEF Good
<1>2. S \in Good
  BY <1>1, SubsetInduction
<1> QED
  BY <1>2 DEF Good

LEMMA SumOfNone ==
  ASSUME NEW f
  PROVE  SumFunctionOnSet(f, {}) = 0
BY FS_EmptySet, SumUnfolds DEF SumsOf

LEMMA SumOfSame ==
  ASSUME NEW S, IsFiniteSet(S), NEW e, NEW f, \A x \in S : e[x] = f[x]
  PROVE  SumFunctionOnSet(e, S) = SumFunctionOnSet(f, S)
<1>1. PICK g : SumFunctionOnSet(e, S) = g[S] /\ SumsOf(e, g, S)
  BY SumUnfolds
<1>2. PICK h : SumFunctionOnSet(f, S) = h[S] /\ SumsOf(f, h, S)
  BY SumUnfolds
<1> QED
  BY <1>1, <1>2, SumsAgree

LEMMA SumPicked ==
  ASSUME NEW S, IsFiniteSet(S), S # {}, NEW f
  PROVE  SumFunctionOnSet(f, S) = f[Pick(S)] + SumFunctionOnSet(f, S \ {Pick(S)})
<1> DEFINE R == S \ {Pick(S)}
<1>1. PICK g : SumFunctionOnSet(f, S) = g[S] /\ SumsOf(f, g, S)
  BY SumUnfolds
<1>2. IsFiniteSet(R) /\ R \subseteq S
  BY FS_Subset
<1> HIDE DEF R
<1>3. PICK h : SumFunctionOnSet(f, R) = h[R] /\ SumsOf(f, h, R)
  BY <1>2, SumUnfolds
<1>4. SumsOf(f, g, R)
  BY <1>1, <1>2 DEF SumsOf
<1>5. g[R] = h[R]
  BY <1>2, <1>3, <1>4, SumsAgree
<1>6. g[S] = f[Pick(S)] + g[R]
  BY <1>1 DEF SumsOf, R
<1> QED
  BY <1>1, <1>3, <1>5, <1>6 DEF R

LEMMA SumIsInt ==
  ASSUME NEW S, IsFiniteSet(S), NEW f, \A x \in S : f[x] \in Int
  PROVE  SumFunctionOnSet(f, S) \in Int
<1> DEFINE Good == {T \in SUBSET S : SumFunctionOnSet(f, T) \in Int}
<1>1. ASSUME NEW T \in SUBSET S, \A x \in T : T \ {x} \in Good
      PROVE  T \in Good
  <2>1. CASE T = {}
    BY <2>1, SumOfNone
  <2>2. CASE T # {}
    <3>1. Pick(T) \in T /\ IsFiniteSet(T)
      BY <2>2, PickIn, FS_Subset
    <3>2. SumFunctionOnSet(f, T) = f[Pick(T)] + SumFunctionOnSet(f, T \ {Pick(T)})
      BY <2>2, <3>1, SumPicked
    <3> QED
      BY <1>1, <3>1, <3>2
  <2> QED
    BY <2>1, <2>2
<1> HIDE DEF Good
<1>2. S \in Good
  BY <1>1, SubsetInduction
<1> QED
  BY <1>2 DEF Good

\* Any element can be taken out of a sum.
LEMMA SumTakesOut ==
  ASSUME NEW S, IsFiniteSet(S), NEW f, \A y \in S : f[y] \in Int, NEW x \in S
  PROVE  SumFunctionOnSet(f, S) = f[x] + SumFunctionOnSet(f, S \ {x})
<1> DEFINE Out(T) == \A y \in T :
                       SumFunctionOnSet(f, T) = f[y] + SumFunctionOnSet(f, T \ {y})
           Good == {T \in SUBSET S : Out(T)}
<1>1. ASSUME NEW T \in SUBSET S, \A z \in T : T \ {z} \in Good
      PROVE  T \in Good
  <2> SUFFICES ASSUME NEW y \in T
               PROVE  SumFunctionOnSet(f, T) = f[y] + SumFunctionOnSet(f, T \ {y})
    OBVIOUS
  <2> DEFINE p == Pick(T)
  <2>1. p \in T /\ IsFiniteSet(T)
    BY PickIn, FS_Subset
  <2>2. SumFunctionOnSet(f, T) = f[p] + SumFunctionOnSet(f, T \ {p})
    BY <2>1, SumPicked
  <2> HIDE DEF p
  <2>3. CASE y = p
    BY <2>2, <2>3
  <2>4. CASE y # p
    <3>1. SumFunctionOnSet(f, T \ {p}) = f[y] + SumFunctionOnSet(f, (T \ {p}) \ {y})
      BY <1>1, <2>1, <2>4
    <3>2. SumFunctionOnSet(f, T \ {y}) = f[p] + SumFunctionOnSet(f, (T \ {y}) \ {p})
      BY <1>1, <2>1, <2>4
    <3> DEFINE R == (T \ {p}) \ {y}
    <3>3. R = (T \ {y}) \ {p} /\ R \subseteq S
      OBVIOUS
    <3>4. IsFiniteSet(R) /\ \A z \in R : f[z] \in Int
      BY <3>3, FS_Subset
    <3> HIDE DEF R
    <3>5. SumFunctionOnSet(f, R) \in Int /\ f[p] \in Int /\ f[y] \in Int
      BY <2>1, <3>4, SumIsInt
    <3>6. /\ SumFunctionOnSet(f, T \ {p}) = f[y] + SumFunctionOnSet(f, R)
          /\ SumFunctionOnSet(f, T \ {y}) = f[p] + SumFunctionOnSet(f, R)
      BY <3>1, <3>2, <3>3 DEF R
    <3> QED
      BY <2>2, <3>5, <3>6
  <2> QED
    BY <2>3, <2>4
<1> HIDE DEF Good
<1>2. S \in Good
  BY <1>1, SubsetInduction
<1> QED
  BY <1>2 DEF Good

LEMMA SumTakesIn ==
  ASSUME NEW S, IsFiniteSet(S), NEW f, \A y \in S : f[y] \in Int,
         NEW x, x \notin S, f[x] \in Int
  PROVE  SumFunctionOnSet(f, S \cup {x}) = f[x] + SumFunctionOnSet(f, S)
<1>1. IsFiniteSet(S \cup {x}) /\ (S \cup {x}) \ {x} = S
  BY FS_AddElement
<1>2. \A y \in S \cup {x} : f[y] \in Int
  OBVIOUS
<1> QED
  BY <1>1, <1>2, SumTakesOut

\* The sum over two sets without a common element.
LEMMA SumJoins ==
  ASSUME NEW S, IsFiniteSet(S), NEW T, IsFiniteSet(T), S \cap T = {},
         NEW f, \A x \in S \cup T : f[x] \in Int
  PROVE  SumFunctionOnSet(f, S \cup T) = SumFunctionOnSet(f, S) + SumFunctionOnSet(f, T)
<1> DEFINE Good == {U \in SUBSET T : SumFunctionOnSet(f, S \cup U)
                                       = SumFunctionOnSet(f, S) + SumFunctionOnSet(f, U)}
<1>0. SumFunctionOnSet(f, S) \in Int
  BY SumIsInt
<1>1. ASSUME NEW U \in SUBSET T, \A x \in U : U \ {x} \in Good PROVE U \in Good
  <2>1. CASE U = {}
    <3>1. S \cup U = S /\ SumFunctionOnSet(f, U) = 0
      BY <2>1, SumOfNone
    <3>2. SumFunctionOnSet(f, S \cup U) = SumFunctionOnSet(f, S) + SumFunctionOnSet(f, U)
      <4> DEFINE k == SumFunctionOnSet(f, S)
      <4>1. k \in Int /\ k = k + 0
        BY <1>0
      <4> HIDE DEF k
      <4> QED
        BY <3>1, <4>1 DEF k
    <3> QED
      BY <3>2
  <2>2. CASE U # {}
    <3>1. PICK x \in U : TRUE
      BY <2>2
    <3> DEFINE R == U \ {x}
               W == S \cup U
    <3>2. SumFunctionOnSet(f, S \cup R) = SumFunctionOnSet(f, S) + SumFunctionOnSet(f, R)
      BY <1>1, <3>1
    <3>3. /\ IsFiniteSet(U) /\ IsFiniteSet(R) /\ IsFiniteSet(W) /\ x \in W /\ W \ {x} = S \cup R
          /\ f[x] \in Int /\ (\A y \in U : f[y] \in Int) /\ (\A y \in W : f[y] \in Int)
          /\ (\A y \in R : f[y] \in Int)
      BY <3>1, FS_Subset, FS_Union
    <3> HIDE DEF R, W
    <3>4. SumFunctionOnSet(f, W) = f[x] + SumFunctionOnSet(f, S \cup R)
      BY <3>3, SumTakesOut
    <3>5. SumFunctionOnSet(f, U) = f[x] + SumFunctionOnSet(f, R)
      BY <3>1, <3>3, SumTakesOut DEF R
    <3>6. SumFunctionOnSet(f, R) \in Int
      BY <3>3, SumIsInt
    <3>7. SumFunctionOnSet(f, W) = SumFunctionOnSet(f, S) + SumFunctionOnSet(f, U)
      BY <1>0, <3>2, <3>3, <3>4, <3>5, <3>6
    <3> QED
      BY <3>7 DEF W
  <2> QED
    BY <2>1, <2>2
<1> HIDE DEF Good
<1>2. T \in Good
  BY <1>1, SubsetInduction
<1> QED
  BY <1>2 DEF Good

LEMMA SumIsZero ==
  ASSUME NEW S, IsFiniteSet(S), NEW f, \A x \in S : f[x] = 0
  PROVE  SumFunctionOnSet(f, S) = 0
<1> DEFINE Good == {U \in SUBSET S : SumFunctionOnSet(f, U) = 0}
<1>1. ASSUME NEW U \in SUBSET S, \A x \in U : U \ {x} \in Good PROVE U \in Good
  <2>1. CASE U = {}
    BY <2>1, SumOfNone
  <2>2. CASE U # {}
    <3>1. PICK x \in U : TRUE
      BY <2>2
    <3>2. SumFunctionOnSet(f, U \ {x}) = 0 /\ f[x] = 0
      BY <1>1, <3>1
    <3>3. IsFiniteSet(U) /\ \A y \in U : f[y] \in Int
      BY FS_Subset
    <3>4. SumFunctionOnSet(f, U) = f[x] + SumFunctionOnSet(f, U \ {x})
      BY <3>1, <3>3, SumTakesOut
    <3>5. SumFunctionOnSet(f, U) = 0
      BY <3>2, <3>4
    <3> QED
      BY <3>5
  <2> QED
    BY <2>1, <2>2
<1> HIDE DEF Good
<1>2. S \in Good
  BY <1>1, SubsetInduction
<1> QED
  BY <1>2 DEF Good

LEMMA SumChanges ==
  ASSUME NEW S, IsFiniteSet(S), NEW c \in S, NEW f, NEW g,
         \A x \in S : f[x] \in Int /\ g[x] \in Int, \A x \in S : x # c => f[x] = g[x]
  PROVE  SumFunctionOnSet(g, S) = SumFunctionOnSet(f, S) - f[c] + g[c]
<1> DEFINE R == S \ {c}
<1>1. SumFunctionOnSet(f, S) = f[c] + SumFunctionOnSet(f, R)
  BY SumTakesOut
<1>2. SumFunctionOnSet(g, S) = g[c] + SumFunctionOnSet(g, R)
  BY SumTakesOut
<1>3. IsFiniteSet(R) /\ \A x \in R : f[x] \in Int /\ f[x] = g[x]
  BY FS_Subset
<1> HIDE DEF R
<1>4. SumFunctionOnSet(f, R) = SumFunctionOnSet(g, R) /\ SumFunctionOnSet(f, R) \in Int
  BY <1>3, SumOfSame, SumIsInt
<1> QED
  BY <1>1, <1>2, <1>4

\* A sum does not depend on the names of its terms.
Renames(b, S, U, e, f) ==
  /\ \A x \in S : b[x] \in U /\ e[x] = f[b[x]]
  /\ \A x, y \in S : b[x] = b[y] => x = y
  /\ \A u \in U : \E x \in S : b[x] = u

LEMMA SumRenamed ==
  ASSUME NEW S, IsFiniteSet(S), NEW U, NEW e, NEW f, NEW b, Renames(b, S, U, e, f),
         \A x \in S : e[x] \in Int
  PROVE  SumFunctionOnSet(e, S) = SumFunctionOnSet(f, U)
<1> DEFINE Img(T) == {b[x] : x \in T}
           Good == {T \in SUBSET S : /\ IsFiniteSet(Img(T))
                      /\ SumFunctionOnSet(e, T) = SumFunctionOnSet(f, Img(T))}
<1>0. /\ \A x \in S : b[x] \in U /\ e[x] = f[b[x]]
      /\ \A x, y \in S : b[x] = b[y] => x = y
      /\ \A u \in U : \E x \in S : b[x] = u
  BY DEF Renames
<1>1. ASSUME NEW T \in SUBSET S, \A x \in T : T \ {x} \in Good
      PROVE  T \in Good
  <2>1. CASE T = {}
    <3>1. Img(T) = {}
      BY <2>1
    <3> QED
      BY <2>1, <3>1, SumOfNone, FS_EmptySet
  <2>2. CASE T # {}
    <3>1. PICK x \in T : TRUE
      BY <2>2
    <3> DEFINE R == T \ {x}
    <3>2. /\ R \in Good /\ IsFiniteSet(R) /\ IsFiniteSet(T)
          /\ \A y \in T : e[y] \in Int
      BY <1>1, <3>1, FS_Subset
    <3>3. Img(T) = Img(R) \cup {b[x]} /\ b[x] \notin Img(R)
      <4>1. Img(T) = Img(R) \cup {b[x]}
        BY <3>1
      <4>2. b[x] \notin Img(R)
        BY <1>0, <3>1
      <4> QED
        BY <4>1, <4>2
    <3>4. SumFunctionOnSet(e, T) = e[x] + SumFunctionOnSet(e, R)
      BY <3>1, <3>2, SumTakesOut
    <3>5. IsFiniteSet(Img(R)) /\ SumFunctionOnSet(e, R) = SumFunctionOnSet(f, Img(R))
      BY <3>2
    <3>6. (\A z \in Img(R) : f[z] \in Int) /\ f[b[x]] = e[x] /\ e[x] \in Int
      BY <1>0, <3>1
    <3> HIDE DEF R, Img
    <3>7. SumFunctionOnSet(f, Img(R) \cup {b[x]}) = f[b[x]] + SumFunctionOnSet(f, Img(R))
      BY <3>3, <3>5, <3>6, SumTakesIn
    <3>8. IsFiniteSet(Img(R) \cup {b[x]})
      BY <3>5, FS_AddElement
    <3> QED
      BY <3>3, <3>4, <3>5, <3>6, <3>7, <3>8
  <2> QED
    BY <2>1, <2>2
<1> HIDE DEF Good
<1>2. S \in Good
  BY <1>1, SubsetInduction
<1>3. SumFunctionOnSet(e, S) = SumFunctionOnSet(f, Img(S))
  BY <1>2 DEF Good
<1>4. Img(S) = U
  BY <1>0
<1> QED
  BY <1>3, <1>4

-----------------------------------------------------------------------------
(* Sums over arrays. *)

LEMMA TotalIsSum ==
  ASSUME NEW n \in Nat, NEW f, DOMAIN f = 1 .. n, \A i \in 1 .. n : f[i] \in Int
  PROVE  /\ SumFunction(f) = SumFunctionOnSet(f, 1 .. n) /\ SumFunction(f) \in Int
         /\ IsFiniteSet(1 .. n)
<1>1. IsFiniteSet(1 .. n)
  BY FS_Interval
<1> QED
  BY <1>1, SumIsInt DEF SumFunction

LEMMA TotalSame ==
  ASSUME NEW n \in Nat, NEW e, NEW f, DOMAIN e = 1 .. n, DOMAIN f = 1 .. n,
         \A i \in 1 .. n : e[i] \in Int /\ e[i] = f[i]
  PROVE  SumFunction(e) = SumFunction(f)
<1>1. IsFiniteSet(1 .. n)
  BY FS_Interval
<1> QED
  BY <1>1, SumOfSame DEF SumFunction

LEMMA TotalAppended ==
  ASSUME NEW n \in Nat, NEW e, NEW f, DOMAIN e = 1 .. n, DOMAIN f = 1 .. n + 1,
         \A i \in 1 .. n : e[i] = f[i], \A i \in 1 .. n + 1 : f[i] \in Int
  PROVE  SumFunction(f) = SumFunction(e) + f[n + 1]
<1>1. IsFiniteSet(1 .. n) /\ 1 .. n + 1 = (1 .. n) \cup {n + 1} /\ n + 1 \notin 1 .. n
  <2>1. IsFiniteSet(1 .. n)
    BY FS_Interval
  <2>2. 1 .. n + 1 = (1 .. n) \cup {n + 1} /\ n + 1 \notin 1 .. n
    OBVIOUS
  <2> QED
    BY <2>1, <2>2
<1>2. \A i \in 1 .. n : f[i] \in Int
  BY <1>1
<1>3. SumFunctionOnSet(f, (1 .. n) \cup {n + 1}) = f[n + 1] + SumFunctionOnSet(f, 1 .. n)
  BY <1>1, <1>2, SumTakesIn
<1>4. SumFunctionOnSet(e, 1 .. n) = SumFunctionOnSet(f, 1 .. n)
  BY <1>1, SumOfSame
<1>5. SumFunctionOnSet(f, 1 .. n) \in Int /\ f[n + 1] \in Int
  BY <1>1, <1>2, SumIsInt
<1>6. SumFunction(e) = SumFunctionOnSet(e, 1 .. n)
  BY DEF SumFunction
<1>7. SumFunction(f) = SumFunctionOnSet(f, (1 .. n) \cup {n + 1})
  BY <1>1 DEF SumFunction
<1> QED
  BY <1>3, <1>4, <1>5, <1>6, <1>7

LEMMA TotalChanged ==
  ASSUME NEW n \in Nat, NEW e, NEW f, DOMAIN e = 1 .. n, DOMAIN f = 1 .. n,
         NEW k \in 1 .. n, \A i \in 1 .. n : i # k => e[i] = f[i],
         \A i \in 1 .. n : e[i] \in Int /\ f[i] \in Int
  PROVE  SumFunction(f) = SumFunction(e) - e[k] + f[k]
<1> DEFINE R == (1 .. n) \ {k}
<1>1. IsFiniteSet(1 .. n) /\ IsFiniteSet(R)
  BY FS_Interval, FS_Subset
<1>2. SumFunctionOnSet(e, R) = SumFunctionOnSet(f, R)
  BY <1>1, SumOfSame
<1>3. SumFunctionOnSet(f, R) \in Int
  BY <1>1, SumIsInt
<1>4. SumFunctionOnSet(e, 1 .. n) = e[k] + SumFunctionOnSet(e, R)
  BY <1>1, SumTakesOut
<1>5. SumFunctionOnSet(f, 1 .. n) = f[k] + SumFunctionOnSet(f, R)
  BY <1>1, SumTakesOut
<1> HIDE DEF R
<1> QED
  BY <1>2, <1>3, <1>4, <1>5 DEF SumFunction

\* The element at k leaves, and those behind it move up.
Shifted(e, f, n, k) ==
  \A i \in 1 .. n - 1 : e[i] = IF i < k THEN f[i] ELSE f[i + 1]

LEMMA TotalRemoved ==
  ASSUME NEW n \in Nat, NEW k \in 1 .. n, NEW e, NEW f,
         DOMAIN e = 1 .. n - 1, DOMAIN f = 1 .. n,
         Shifted(e, f, n, k), \A i \in 1 .. n : f[i] \in Int
  PROVE  SumFunction(e) = SumFunction(f) - f[k]
<1> DEFINE R == (1 .. n) \ {k}
           b == [i \in 1 .. n - 1 |-> IF i < k THEN i ELSE i + 1]
<1>1. IsFiniteSet(1 .. n) /\ IsFiniteSet(1 .. n - 1)
  BY FS_Interval
<1>2. \A i \in 1 .. n - 1 : e[i] = f[b[i]] /\ e[i] \in Int
  BY DEF Shifted
<1>3. \A i, j \in 1 .. n - 1 : b[i] = b[j] => i = j
  OBVIOUS
<1>4. \A i \in 1 .. n - 1 : b[i] \in R
  OBVIOUS
<1>5. \A j \in R : \E i \in 1 .. n - 1 : b[i] = j
  <2> SUFFICES ASSUME NEW j \in R PROVE \E i \in 1 .. n - 1 : b[i] = j
    OBVIOUS
  <2>1. CASE j < k
    <3>1. j \in 1 .. n - 1 /\ b[j] = j
      BY <2>1
    <3> QED
      BY <3>1
  <2>2. CASE ~ (j < k)
    <3>1. j - 1 \in 1 .. n - 1 /\ b[j - 1] = j
      BY <2>2
    <3> QED
      BY <3>1
  <2> QED
    BY <2>1, <2>2
<1>6. SumFunctionOnSet(f, 1 .. n) = f[k] + SumFunctionOnSet(f, R)
  BY <1>1, SumTakesOut
<1>7. SumFunctionOnSet(f, R) \in Int
  BY <1>1, FS_Subset, SumIsInt
<1>8. SumFunctionOnSet(e, 1 .. n - 1) = SumFunctionOnSet(f, R)
  <2> DEFINE D == 1 .. n - 1
  <2>1. IsFiniteSet(D) /\ \A i \in D : e[i] \in Int
    BY <1>1, <1>2
  <2>2. Renames(b, D, R, e, f)
    <3> HIDE DEF R, b
    <3> QED
      BY <1>2, <1>3, <1>4, <1>5 DEF Renames
  <2> HIDE DEF D, R, b
  <2>3. SumFunctionOnSet(e, D) = SumFunctionOnSet(f, R)
    BY <2>1, <2>2, SumRenamed
  <2> QED
    BY <2>3 DEF D
<1> HIDE DEF R, b
<1> QED
  BY <1>6, <1>7, <1>8 DEF SumFunction

-----------------------------------------------------------------------------
(* Counters modulo a word's width. *)

LEMMA ModRange ==
  ASSUME NEW a \in Int, NEW w \in Nat \ {0}
  PROVE  a % w \in 0 .. w - 1 /\ a \div w \in Int /\ a = w * (a \div w) + (a % w)
OBVIOUS

LEMMA ModUnique ==
  ASSUME NEW q \in Int, NEW w \in Nat \ {0}, NEW r \in 0 .. w - 1
  PROVE  (w * q + r) % w = r
OBVIOUS

LEMMA ModPeriod ==
  ASSUME NEW a \in Int, NEW k \in Int, NEW w \in Nat \ {0}
  PROVE  (a + w * k) % w = a % w
<1> DEFINE q == a \div w
           r == a % w
<1>1. r \in 0 .. w - 1 /\ q \in Int /\ a = w * q + r
  BY ModRange
<1> HIDE DEF q, r
<1>2. a + w * k = w * (q + k) + r
  <2>1. w * (q + k) = w * q + w * k
    BY <1>1
  <2>2. w * q \in Int /\ w * k \in Int /\ r \in Int
    BY <1>1
  <2> QED
    BY <1>1, <2>1, <2>2
<1>3. q + k \in Int
  BY <1>1
<1>4. (w * (q + k) + r) % w = r
  BY <1>1, <1>3, ModUnique
<1> QED
  BY <1>2, <1>4 DEF r

LEMMA ModAdds ==
  ASSUME NEW a \in Int, NEW b \in Int, NEW w \in Nat \ {0}
  PROVE  ((a % w) + b) % w = (a + b) % w
<1> DEFINE q == a \div w
           r == a % w
<1>1. r \in 0 .. w - 1 /\ q \in Int /\ a = w * q + r
  BY ModRange
<1> HIDE DEF q, r
<1>2. a + b = (r + b) + w * q /\ r + b \in Int
  <2>1. w * q \in Int /\ r \in Int
    BY <1>1
  <2> QED
    BY <1>1, <2>1
<1>3. ((r + b) + w * q) % w = (r + b) % w
  BY <1>1, <1>2, ModPeriod
<1> QED
  BY <1>2, <1>3 DEF r

LEMMA ModSubtracts ==
  ASSUME NEW a \in Int, NEW b \in Int, NEW w \in Nat \ {0}
  PROVE  (a - (b % w)) % w = (a - b) % w
<1> DEFINE q == b \div w
           r == b % w
<1>1. r \in 0 .. w - 1 /\ q \in Int /\ b = w * q + r
  BY ModRange
<1> HIDE DEF q, r
<1>2. a - r = (a - b) + w * q
  <2>1. w * q \in Int /\ r \in Int
    BY <1>1
  <2> QED
    BY <1>1, <2>1
<1> DEFINE c == a - b
<1>3. c \in Int
  OBVIOUS
<1> HIDE DEF c
<1>4. (c + w * q) % w = c % w
  BY <1>1, <1>3, ModPeriod
<1> QED
  BY <1>2, <1>4 DEF r, c

-----------------------------------------------------------------------------
(* Loops: recursive functions over 0 .. n. *)

\* What holds at the start and is kept by every round holds throughout.
LEMMA RoundsKeep ==
  ASSUME NEW n \in Nat, NEW Good, 0 \in Good, \A k \in 1 .. n : k - 1 \in Good => k \in Good
  PROVE  \A k \in 0 .. n : k \in Good
<1> DEFINE bad == (0 .. n) \ Good
<1> SUFFICES ASSUME bad # {} PROVE FALSE
  OBVIOUS
<1>1. bad \subseteq Nat
  OBVIOUS
<1>2. PICK m \in bad : \A j \in bad : m <= j
  <2> HIDE DEF bad
  <2> QED
    BY <1>1, LeastNumber
<1>3. m \in 1 .. n /\ m - 1 \in 0 .. n /\ ~ (m <= m - 1)
  BY <1>2
<1>4. m - 1 \in Good
  BY <1>2, <1>3
<1> QED
  BY <1>2, <1>3, <1>4

\* The states of a loop whose body is a function.
Rounds(f, n, S, a, body) ==
  f \in [0 .. n -> S] /\ f[0] = a /\ \A k \in 1 .. n : f[k] = body[<<k, f[k - 1]>>]

LEMMA RoundsExist ==
  ASSUME NEW n \in Nat, NEW S, NEW a \in S, NEW body \in [(1 .. n) \X S -> S]
  PROVE  \E f : Rounds(f, n, S, a, body)
<1> DEFINE Upto(f, m) == /\ f \in [0 .. m -> S] /\ f[0] = a
                         /\ \A k \in 1 .. m : f[k] = body[<<k, f[k - 1]>>]
           Good == {m \in 0 .. n : \E f : Upto(f, m)}
<1>1. 0 \in Good
  <2>1. Upto([k \in 0 .. 0 |-> a], 0)
    OBVIOUS
  <2> HIDE DEF Upto
  <2> QED
    BY <2>1
<1>2. ASSUME NEW m \in 1 .. n, m - 1 \in Good PROVE m \in Good
  <2>1. PICK f : Upto(f, m - 1)
    BY <1>2
  <2> DEFINE v == body[<<m, f[m - 1]>>]
             g == [k \in 0 .. m |-> IF k = m THEN v ELSE f[k]]
  <2>2. f[m - 1] \in S
    BY <2>1
  <2>3. v \in S
    BY <2>2
  <2> HIDE DEF v
  <2>4. g \in [0 .. m -> S] /\ g[0] = a
    BY <2>1, <2>3
  <2>5. ASSUME NEW k \in 1 .. m PROVE g[k] = body[<<k, g[k - 1]>>]
    <3>1. CASE k = m
      <4>1. g[k] = v /\ g[k - 1] = f[m - 1]
        BY <3>1
      <4> QED
        BY <3>1, <4>1 DEF v
    <3>2. CASE k # m
      <4>1. k \in 1 .. m - 1 /\ g[k] = f[k] /\ g[k - 1] = f[k - 1]
        BY <3>2
      <4> QED
        BY <2>1, <4>1
    <3> QED
      BY <3>1, <3>2
  <2> HIDE DEF g
  <2>6. Upto(g, m)
    BY <2>4, <2>5
  <2> QED
    BY <2>6
<1> HIDE DEF Good
<1>3. n \in Good
  BY <1>1, <1>2, RoundsKeep
<1> QED
  BY <1>3 DEF Good, Rounds

\* A loop whose rounds keep a relation between their number and the state: the
\* function of its states exists, and the relation holds throughout.
Goes(f, n, S, a, step) ==
  f[0] = a /\ \A k \in 1 .. n : f[k - 1] \in S => f[k] = step[f[k - 1]]
KeptBy(n, S, a, step, Good) ==
  /\ <<0, a>> \in Good
  /\ \A k \in 1 .. n, s \in S :
       <<k - 1, s>> \in Good => step[s] \in S /\ <<k, step[s]>> \in Good

\* The function of a loop's states, by the number of its rounds, exists.
LEMMA LoopExists ==
  ASSUME NEW n \in Nat, NEW S, NEW a \in S, NEW step, NEW Good, KeptBy(n, S, a, step, Good)
  PROVE  \E f : f = [k \in 0 .. n |-> f[k]] /\ Goes(f, n, S, a, step)
<1> DEFINE next(k, s) == IF <<k - 1, s>> \in Good THEN step[s] ELSE a
           body == [x \in (1 .. n) \X S |-> next(x[1], x[2])]
<1>1. ASSUME NEW k \in 1 .. n, NEW s \in S PROVE next(k, s) \in S
  BY DEF KeptBy
<1>2. body \in [(1 .. n) \X S -> S]
  <2>1. ASSUME NEW x \in (1 .. n) \X S PROVE x[1] \in 1 .. n /\ x[2] \in S
    OBVIOUS
  <2> HIDE DEF next
  <2> QED
    BY <1>1, <2>1
<1>3. PICK f : Rounds(f, n, S, a, body)
  <2> HIDE DEF body
  <2> QED
    BY <1>2, RoundsExist
<1>4. /\ f \in [0 .. n -> S] /\ f[0] = a
      /\ \A k \in 1 .. n : f[k] = next(k, f[k - 1])
  <2>1. f \in [0 .. n -> S] /\ f[0] = a
    BY <1>3 DEF Rounds
  <2>2. ASSUME NEW k \in 1 .. n PROVE f[k] = next(k, f[k - 1])
    <3>1. k - 1 \in 0 .. n
      OBVIOUS
    <3>2. f[k] = body[<<k, f[k - 1]>>]
      BY <1>3 DEF Rounds
    <3>3. <<k, f[k - 1]>> \in (1 .. n) \X S
      BY <2>1, <3>1
    <3> HIDE DEF next
    <3> QED
      BY <3>2, <3>3
  <2> QED
    BY <2>1, <2>2
<1> HIDE DEF body
<1> DEFINE Right == {k \in 0 .. n : <<k, f[k]>> \in Good}
<1>5. 0 \in Right
  BY <1>4 DEF KeptBy
<1>6. ASSUME NEW k \in 1 .. n, k - 1 \in Right PROVE k \in Right
  <2>1. k - 1 \in 0 .. n /\ f[k - 1] \in S /\ <<k - 1, f[k - 1]>> \in Good
    BY <1>4, <1>6
  <2>2. f[k] = step[f[k - 1]]
    BY <1>4, <2>1
  <2>3. <<k, f[k]>> \in Good
    BY <2>1, <2>2 DEF KeptBy
  <2> QED
    BY <2>3
<1> HIDE DEF Right
<1>7. \A k \in 0 .. n : k \in Right
  BY <1>5, <1>6, RoundsKeep
<1>8. ASSUME NEW k \in 1 .. n PROVE f[k] = step[f[k - 1]]
  <2>1. k - 1 \in 0 .. n
    OBVIOUS
  <2>2. <<k - 1, f[k - 1]>> \in Good
    BY <1>7, <2>1 DEF Right
  <2> QED
    BY <1>4, <2>2
<1> QED
  BY <1>4, <1>8 DEF Goes

\* What every round keeps holds after any number of them.
LEMMA LoopKeeps ==
  ASSUME NEW n \in Nat, NEW S, NEW a \in S, NEW step, NEW Good, KeptBy(n, S, a, step, Good),
         NEW f, Goes(f, n, S, a, step)
  PROVE  \A k \in 0 .. n : f[k] \in S /\ <<k, f[k]>> \in Good
<1> DEFINE Right == {k \in 0 .. n : f[k] \in S /\ <<k, f[k]>> \in Good}
<1>1. 0 \in Right
  BY DEF KeptBy, Goes
<1>2. ASSUME NEW k \in 1 .. n, k - 1 \in Right PROVE k \in Right
  <2>1. f[k - 1] \in S /\ <<k - 1, f[k - 1]>> \in Good /\ f[k] = step[f[k - 1]]
    BY <1>2 DEF Goes
  <2>2. f[k] \in S /\ <<k, f[k]>> \in Good
    BY <2>1 DEF KeptBy
  <2> QED
    BY <2>2
<1> HIDE DEF Right
<1>3. \A k \in 0 .. n : k \in Right
  BY <1>1, <1>2, RoundsKeep
<1> QED
  BY <1>3 DEF Right

\* Where the elements are after an insertion.
LEMMA InsertAtProperties ==
  ASSUME NEW S, NEW s \in Seq(S), NEW i \in 1 .. Len(s) + 1, NEW e \in S
  PROVE  /\ InsertAt(s, i, e) \in Seq(S)
         /\ Len(InsertAt(s, i, e)) = Len(s) + 1
         /\ \A j \in 1 .. Len(s) + 1 :
              InsertAt(s, i, e)[j] = IF j < i THEN s[j] ELSE IF j = i THEN e ELSE s[j - 1]
<1> DEFINE a == SubSeq(s, 1, i - 1)
           m == <<e>>
           b == SubSeq(s, i, Len(s))
<1>1. Len(s) \in Nat
  BY LenProperties
<1>2. a \in Seq(S) /\ Len(a) = i - 1 /\ \A j \in 1 .. i - 1 : a[j] = s[j]
  BY <1>1, SubSeqProperties
<1>3. m \in Seq(S) /\ Len(m) = 1 /\ m[1] = e
  OBVIOUS
<1>4. /\ b \in Seq(S) /\ Len(b) = Len(s) - i + 1
      /\ \A j \in 1 .. Len(s) - i + 1 : b[j] = s[i + j - 1]
  BY <1>1, SubSeqProperties
<1>5. InsertAt(s, i, e) = (a \o m) \o b
  BY DEF InsertAt
<1> HIDE DEF a, m, b
<1>6. /\ a \o m \in Seq(S) /\ Len(a \o m) = i
      /\ \A j \in 1 .. i : (a \o m)[j] = IF j <= Len(a) THEN a[j] ELSE m[j - Len(a)]
  <2>1. i \in Int /\ Len(a) + Len(m) = i
    BY <1>1, <1>2, <1>3
  <2>2. /\ a \o m \in Seq(S) /\ Len(a \o m) = Len(a) + Len(m)
        /\ \A j \in 1 .. Len(a) + Len(m) :
             (a \o m)[j] = IF j <= Len(a) THEN a[j] ELSE m[j - Len(a)]
    BY <1>2, <1>3, ConcatProperties
  <2> QED
    BY <2>1, <2>2
<1> DEFINE c == a \o m
<1>7. c[i] = e /\ \A j \in 1 .. i - 1 : c[j] = s[j]
  <2>1. i - Len(a) = 1 /\ ~ (i <= Len(a)) /\ i \in 1 .. i
    BY <1>2
  <2>2. c[i] = e
    BY <1>3, <1>6, <2>1
  <2>3. ASSUME NEW j \in 1 .. i - 1 PROVE c[j] = s[j]
    <3>1. j \in 1 .. i /\ j <= Len(a)
      BY <1>2
    <3> QED
      BY <1>2, <1>6, <3>1
  <2> QED
    BY <2>2, <2>3
<1>8. c \in Seq(S) /\ Len(c) = i
  BY <1>6
<1> HIDE DEF c
<1>9. /\ c \o b \in Seq(S) /\ Len(c \o b) = Len(s) + 1
      /\ \A j \in 1 .. Len(s) + 1 : (c \o b)[j] = IF j <= Len(c) THEN c[j] ELSE b[j - Len(c)]
  BY <1>1, <1>4, <1>8, ConcatProperties
<1>10. ASSUME NEW j \in 1 .. Len(s) + 1
       PROVE  (c \o b)[j] = IF j < i THEN s[j] ELSE IF j = i THEN e ELSE s[j - 1]
  <2>1. CASE j < i
    <3>1. j \in 1 .. i - 1 /\ j <= Len(c)
      BY <1>1, <1>8, <2>1
    <3> QED
      BY <1>7, <1>9, <2>1, <3>1
  <2>2. CASE j = i
    <3>1. j <= Len(c) /\ ~ (j < i)
      BY <1>1, <1>8, <2>2
    <3>2. (c \o b)[j] = c[i]
      BY <1>9, <2>2, <3>1
    <3> QED
      BY <1>7, <2>2, <3>1, <3>2
  <2>3. CASE j > i
    <3>1. j - i \in 1 .. Len(s) - i + 1 /\ i + (j - i) - 1 = j - 1 /\ ~ (j <= Len(c))
      BY <1>1, <1>8, <2>3
    <3>2. b[j - i] = s[j - 1]
      BY <1>4, <3>1
    <3>3. j - Len(c) = j - i /\ ~ (j < i) /\ j # i
      BY <1>1, <1>8, <2>3
    <3>4. (c \o b)[j] = b[j - Len(c)]
      BY <1>9, <3>1
    <3> QED
      BY <3>2, <3>3, <3>4
  <2>4. j < i \/ j = i \/ j > i
    <3>1. i \in Int /\ j \in Int
      BY <1>1
    <3> QED
      BY <3>1
  <2> QED
    BY <2>1, <2>2, <2>3, <2>4
<1> QED
  BY <1>5, <1>9, <1>10 DEF c

=============================================================================
