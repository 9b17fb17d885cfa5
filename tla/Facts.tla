-------------------------------- MODULE Facts --------------------------------
(* Facts about naturals, sequences and counts that the proofs of several
   components cite.  Those about naturals take the place of induction. *)
EXTENDS Integers, Loops, Links, SequenceTheorems, FiniteSetTheorems, WellFoundedInduction, TLAPS

(* Every non-empty set of naturals has a least element, stated for a set so
   that it can be cited: it is what replaces induction in these proofs. *)
LEMMA LeastNatural ==
  ASSUME NEW T \in SUBSET Nat, T # {}
  PROVE  \E n \in T : \A m \in T : n <= m
<1> DEFINE R == {ss \in Nat \X Nat : ss[1] < ss[2]}
<1>1. IsWellFoundedOn(R, Nat)
  BY NatLessThanWellFounded DEF OpToRel
<1>2. PICK n \in T : \A m \in T : ~(<<m, n>> \in R)
  <2> HIDE DEF R
  <2> QED BY <1>1, WFMin
<1>3. \A m \in T : ~(m < n)
  BY <1>2
<1> QED BY <1>3

(* A bounded one has a greatest element, too. *)
LEMMA GreatestNatural ==
  ASSUME NEW T \in SUBSET Nat, T # {}, NEW b \in Nat, \A m \in T : m <= b
  PROVE  \E n \in T : \A m \in T : m <= n
<1> DEFINE U == {k \in Nat : \A m \in T : m <= k}
<1>1. PICK k \in U : \A j \in U : k <= j
  <2>1. U \in SUBSET Nat /\ b \in U
    OBVIOUS
  <2> QED BY <2>1, LeastNatural
<1>2. k \in T
  <2> SUFFICES ASSUME k \notin T PROVE FALSE
    OBVIOUS
  <2>1. \A m \in T : m <= k - 1
    BY <1>1
  <2>2. k - 1 \in U
    <3>1. PICK m \in T : TRUE
      OBVIOUS
    <3>2. m \in Nat /\ m <= k - 1 /\ k \in Nat
      BY <2>1
    <3>3. k - 1 \in Nat
      BY <3>2
    <3> QED BY <2>1, <3>3
  <2> QED BY <1>1, <2>2
<1> QED BY <1>1, <1>2

(* What holds of 0, and of n + 1 if it holds of n, holds of every natural: the
   naturals it holds of are given as a set. *)
LEMMA EveryNatural ==
  ASSUME NEW T, 0 \in T, \A n \in Nat : n \in T => n + 1 \in T
  PROVE  Nat \subseteq T
<1> SUFFICES ASSUME Nat \ T # {} PROVE FALSE
  OBVIOUS
<1>1. PICK n \in Nat \ T : \A m \in Nat \ T : n <= m
  BY LeastNatural
<1>2. n - 1 \in Nat /\ n - 1 \in T
  BY <1>1
<1> QED BY <1>1, <1>2
-----------------------------------------------------------------------------
(* A loop keeps what its body keeps: the results and the numbers of the rounds
   after which they may be there are given as a set. *)
LEMMA LoopInvariant ==
  ASSUME NEW body, NEW start, NEW rounds \in Nat, NEW P,
         <<start, 0>> \in P,
         \A k \in 1 .. rounds : \A x : <<x, k - 1>> \in P => <<body[k][x], k>> \in P
  PROVE  <<Loop(body, start, rounds), rounds>> \in P
<1> DEFINE Is(f, n) == f = [k \in 0 .. n |-> IF k = 0 THEN start ELSE body[k][f[k - 1]]]
           T == {n \in Nat : \E f : Is(f, n)}
           after == CHOOSE f : Is(f, rounds)
<1>1. Nat \subseteq T
  <2>1. 0 \in T
    <3>1. Is([k \in 0 .. 0 |-> start], 0)
      OBVIOUS
    <3> QED BY <3>1
  <2>2. ASSUME NEW n \in Nat, n \in T PROVE n + 1 \in T
    <3>1. PICK f : Is(f, n)
      BY <2>2
    <3> DEFINE g == [k \in 0 .. n + 1 |-> IF k = n + 1 THEN body[n + 1][f[n]] ELSE f[k]]
    <3>2. ASSUME NEW k \in 0 .. n + 1
          PROVE  g[k] = IF k = 0 THEN start ELSE body[k][g[k - 1]]
      <4>1. CASE k = n + 1
        <5>1. g[k] = body[n + 1][f[n]] /\ g[n] = f[n] /\ k - 1 = n /\ k # 0
          BY <4>1
        <5> QED BY <4>1, <5>1
      <4>2. CASE k \in 0 .. n
        <5>1. g[k] = f[k] /\ (k # 0 => g[k - 1] = f[k - 1])
          BY <4>2
        <5>2. f[k] = IF k = 0 THEN start ELSE body[k][f[k - 1]]
          BY <3>1, <4>2
        <5> QED BY <5>1, <5>2
      <4> QED BY <4>1, <4>2
    <3>3. g = [k \in 0 .. n + 1 |-> IF k = 0 THEN start ELSE body[k][g[k - 1]]]
      BY <3>2
    <3>4. Is(g, n + 1)
      BY <3>3
    <3> HIDE DEF g, Is
    <3> QED BY <3>4
  <2> HIDE DEF T
  <2> QED BY <2>1, <2>2, EveryNatural
<1>2. Is(after, rounds)
  <2>1. \E f : Is(f, rounds)
    BY <1>1
  <2> HIDE DEF Is
  <2> QED BY <2>1
<1>3. Loop(body, start, rounds) = after[rounds]
  BY DEF Loop
<1> HIDE DEF after
<1>4. \A k \in 0 .. rounds : after[k] = IF k = 0 THEN start ELSE body[k][after[k - 1]]
  BY <1>2
<1> HIDE DEF Is
<1> DEFINE U == {n \in Nat : n \in 0 .. rounds => <<after[n], n>> \in P}
<1>5. Nat \subseteq U
  <2>1. 0 \in U
    BY <1>4
  <2>2. ASSUME NEW n \in Nat, n \in U PROVE n + 1 \in U
    <3> SUFFICES ASSUME n + 1 \in 0 .. rounds PROVE <<after[n + 1], n + 1>> \in P
      OBVIOUS
    <3>1. <<after[n], (n + 1) - 1>> \in P
      BY <2>2
    <3>2. after[n + 1] = body[n + 1][after[n]]
      BY <1>4
    <3> QED BY <3>1, <3>2
  <2> HIDE DEF U
  <2> QED BY <2>1, <2>2, EveryNatural
<1> QED BY <1>3, <1>5

(* The simplest case: what a loop makes stays in a set. *)
LEMMA LoopStays ==
  ASSUME NEW body, NEW start, NEW rounds \in Nat, NEW S, start \in S,
         \A k \in 1 .. rounds : \A x \in S : body[k][x] \in S
  PROVE  Loop(body, start, rounds) \in S
<1>1. \A k \in 1 .. rounds : \A x : <<x, k - 1>> \in S \X Nat => <<body[k][x], k>> \in S \X Nat
  OBVIOUS
<1>2. <<start, 0>> \in S \X Nat
  OBVIOUS
<1>3. <<Loop(body, start, rounds), rounds>> \in S \X Nat
  BY <1>1, <1>2, LoopInvariant
<1> QED BY <1>3
-----------------------------------------------------------------------------
(* What Append, Tail and Insert do to a sequence, position by position. *)
LEMMA Appended ==
  ASSUME NEW S, NEW s \in Seq(S), NEW e \in S
  PROVE  /\ Append(s, e) \in Seq(S)
         /\ DOMAIN Append(s, e) = 1 .. Len(s) + 1 /\ DOMAIN s = 1 .. Len(s) /\ Len(s) \in Nat
         /\ \A i \in 1 .. Len(s) : Append(s, e)[i] = s[i]
         /\ Append(s, e)[Len(s) + 1] = e
BY AppendProperties, LenProperties

LEMMA Tailed ==
  ASSUME NEW S, NEW s \in Seq(S), s # <<>>
  PROVE  /\ Tail(s) \in Seq(S) /\ Len(Tail(s)) = Len(s) - 1
         /\ DOMAIN Tail(s) = 1 .. Len(s) - 1 /\ DOMAIN s = 1 .. Len(s) /\ Len(s) \in Nat \ {0}
         /\ \A i \in 1 .. Len(s) - 1 : Tail(s)[i] = s[i + 1]
         /\ Head(s) = s[1] /\ s[1] \in S
<1>1. Len(s) \in Nat \ {0} /\ DOMAIN s = 1 .. Len(s)
  BY EmptySeq, LenProperties
<1>2. Head(s) = s[1]
  BY <1>1
<1>3. Tail(s) \in Seq(S) /\ Len(Tail(s)) = Len(s) - 1 /\ \A i \in 1 .. Len(Tail(s)) : Tail(s)[i] = s[i + 1]
  BY HeadTailProperties
<1>4. DOMAIN Tail(s) = 1 .. Len(Tail(s))
  BY <1>3, LenProperties
<1>5. s[1] \in S
  BY <1>1, ElementOfSeq
<1> QED BY <1>1, <1>2, <1>3, <1>4, <1>5
-----------------------------------------------------------------------------
(* How many elements of a sequence are in a set. *)
HowMany(s, W) == Cardinality({i \in DOMAIN s : s[i] \in W})

LEMMA CountNatural ==
  ASSUME NEW S, NEW s \in Seq(S), NEW W
  PROVE  /\ IsFiniteSet({i \in DOMAIN s : s[i] \in W})
         /\ HowMany(s, W) \in 0 .. Len(s) /\ Len(s) \in Nat
<1>1. Len(s) \in Nat /\ DOMAIN s = 1 .. Len(s)
  BY LenProperties
<1>2. IsFiniteSet(1 .. Len(s)) /\ Cardinality(1 .. Len(s)) = Len(s)
  <2> DEFINE n == Len(s)
  <2>1. /\ IsFiniteSet(1 .. n)
        /\ Cardinality(1 .. n) = IF 1 > n THEN 0 ELSE n - 1 + 1
    BY <1>1, FS_Interval
  <2>2. (IF 1 > n THEN 0 ELSE n - 1 + 1) = n
    BY <1>1
  <2> QED BY <2>1, <2>2
<1>3. {i \in DOMAIN s : s[i] \in W} \subseteq 1 .. Len(s)
  <2> SUFFICES {i \in DOMAIN s : s[i] \in W} \subseteq DOMAIN s
    BY <1>1
  <2> QED OBVIOUS
<1>4. /\ IsFiniteSet({i \in DOMAIN s : s[i] \in W})
      /\ Cardinality({i \in DOMAIN s : s[i] \in W}) <= Len(s)
  BY <1>2, <1>3, FS_Subset
<1> QED BY <1>1, <1>4, FS_CardinalityType DEF HowMany

LEMMA CountNone ==
  ASSUME NEW S, NEW s \in Seq(S), NEW W, \A i \in DOMAIN s : s[i] \notin W
  PROVE  HowMany(s, W) = 0
<1>1. {i \in DOMAIN s : s[i] \in W} = {}
  OBVIOUS
<1> QED BY <1>1, FS_EmptySet DEF HowMany

LEMMA CountConcat ==
  ASSUME NEW S, NEW s \in Seq(S), NEW t \in Seq(S), NEW W
  PROVE  HowMany(s \o t, W) = HowMany(s, W) + HowMany(t, W)
<1> DEFINE u == s \o t
           A == {i \in DOMAIN s : s[i] \in W}
           B == {i \in DOMAIN t : t[i] \in W}
           C == {i \in DOMAIN u : u[i] \in W}
           D == {i + Len(s) : i \in B}
           shift == [i \in B |-> i + Len(s)]
<1>1. /\ Len(s) \in Nat /\ DOMAIN s = 1 .. Len(s)
      /\ Len(t) \in Nat /\ DOMAIN t = 1 .. Len(t)
  BY LenProperties
<1>2. /\ DOMAIN u = 1 .. Len(s) + Len(t)
      /\ \A i \in 1 .. Len(s) : u[i] = s[i]
      /\ \A i \in 1 .. Len(t) : u[i + Len(s)] = t[i]
  <2>1. u \in Seq(S) /\ Len(u) = Len(s) + Len(t)
    BY ConcatProperties
  <2>2. \A i \in 1 .. Len(s) + Len(t) : u[i] = IF i <= Len(s) THEN s[i] ELSE t[i - Len(s)]
    BY ConcatProperties
  <2> QED BY <1>1, <2>1, <2>2, LenProperties
<1>3. C = A \cup D /\ A \cap D = {}
  <2> HIDE DEF u
  <2>1. ASSUME NEW i \in C PROVE i \in A \cup D
    <3>1. CASE i <= Len(s)
      BY <1>1, <1>2, <3>1
    <3>2. CASE i > Len(s)
      <4>1. i - Len(s) \in 1 .. Len(t) /\ i = (i - Len(s)) + Len(s)
        BY <1>1, <1>2, <3>2
      <4>2. i - Len(s) \in B
        BY <1>1, <1>2, <4>1
      <4> QED BY <4>1, <4>2
    <3> QED BY <1>1, <1>2, <3>1, <3>2
  <2> QED BY <1>1, <1>2, <2>1
<1>4. IsFiniteSet(A) /\ IsFiniteSet(B)
  BY CountNatural
<1>5. IsFiniteSet(D) /\ Cardinality(D) = Cardinality(B)
  <2>1. shift \in Bijection(B, D)
    <3>1. shift \in [B -> D]
      OBVIOUS
    <3>2. \A i, j \in B : shift[i] = shift[j] => i = j
      BY <1>1
    <3>3. \A k \in D : \E i \in B : shift[i] = k
      OBVIOUS
    <3> QED BY <3>1, <3>2, <3>3 DEF Bijection, Injection, Surjection, IsInjective
  <2> QED BY <1>4, <2>1, FS_Bijection DEF ExistsBijection
<1>6. Cardinality(A \cap D) = 0 /\ Cardinality(A) \in Nat /\ Cardinality(B) \in Nat
  BY <1>3, <1>4, FS_EmptySet, FS_CardinalityType
<1>7. Cardinality(C) = Cardinality(A) + Cardinality(D) - Cardinality(A \cap D)
  BY <1>3, <1>4, <1>5, FS_Union
<1>8. Cardinality(C) = Cardinality(A) + Cardinality(B)
  <2> HIDE DEF A, B, C, D
  <2> QED BY <1>5, <1>6, <1>7
<1> QED BY <1>8 DEF HowMany

LEMMA CountOne ==
  ASSUME NEW S, NEW e \in S, NEW W
  PROVE  HowMany(<<e>>, W) = IF e \in W THEN 1 ELSE 0
<1>1. DOMAIN <<e>> = {1} /\ <<e>>[1] = e
  OBVIOUS
<1>2. CASE e \in W
  <2>1. {i \in DOMAIN <<e>> : <<e>>[i] \in W} = {1}
    BY <1>1, <1>2
  <2> QED BY <1>2, <2>1, FS_Singleton DEF HowMany
<1>3. CASE e \notin W
  <2>1. {i \in DOMAIN <<e>> : <<e>>[i] \in W} = {}
    BY <1>1, <1>3
  <2> QED BY <1>3, <2>1, FS_EmptySet DEF HowMany
<1> QED BY <1>2, <1>3

LEMMA CountAppend ==
  ASSUME NEW S, NEW s \in Seq(S), NEW e \in S, NEW W
  PROVE  HowMany(Append(s, e), W) = HowMany(s, W) + IF e \in W THEN 1 ELSE 0
<1>1. <<e>> \in Seq(S) /\ Append(s, e) = s \o <<e>>
  BY AppendIsConcat
<1>2. HowMany(s \o <<e>>, W) = HowMany(s, W) + HowMany(<<e>>, W)
  BY <1>1, CountConcat
<1> QED BY <1>1, <1>2, CountOne

LEMMA CountTail ==
  ASSUME NEW S, NEW s \in Seq(S), s # <<>>, NEW W
  PROVE  HowMany(s, W) = HowMany(Tail(s), W) + IF Head(s) \in W THEN 1 ELSE 0
<1>1. Tail(s) \in Seq(S) /\ Head(s) \in S /\ <<Head(s)>> \in Seq(S) /\ s = <<Head(s)>> \o Tail(s)
  BY HeadTailProperties, HeadTailAppend
<1>2. HowMany(<<Head(s)>> \o Tail(s), W) = HowMany(<<Head(s)>>, W) + HowMany(Tail(s), W)
  BY <1>1, CountConcat
<1>3. HowMany(Tail(s), W) \in Nat
  <2>1. HowMany(Tail(s), W) \in 0 .. Len(Tail(s)) /\ Len(Tail(s)) \in Nat
    BY <1>1, CountNatural
  <2> QED BY <2>1
<1>4. HowMany(<<Head(s)>>, W) = IF Head(s) \in W THEN 1 ELSE 0
  BY <1>1, CountOne
<1>5. HowMany(s, W) = HowMany(<<Head(s)>>, W) + HowMany(Tail(s), W)
  BY <1>1, <1>2
<1> DEFINE n == HowMany(Tail(s), W)
<1> HIDE DEF n
<1>6. HowMany(s, W) = (IF Head(s) \in W THEN 1 ELSE 0) + n
  BY <1>4, <1>5 DEF n
<1>7. n \in Nat
  BY <1>3 DEF n
<1>8. HowMany(s, W) = n + IF Head(s) \in W THEN 1 ELSE 0
  BY <1>6, <1>7
<1> QED BY <1>8 DEF n
-----------------------------------------------------------------------------
(* Linked lists.  The elements that can be met at all. *)
Met(D, next, nil, from) ==
  LET closed == {S \in SUBSET D :
                   /\ from = nil \/ from \in S
                   /\ \A x \in S : next[x] = nil \/ next[x] \in S}
  IN  {x \in D : \A S \in closed : x \in S}

LEMMA LinkedMet ==
  ASSUME NEW D, NEW nil, nil \notin D, NEW next, NEW from, NEW s \in Seq(D),
         Linked(next, nil, from, s)
  PROVE  Met(D, next, nil, from) = Elements(s)
<1> DEFINE closed == {S \in SUBSET D :
                        /\ from = nil \/ from \in S
                        /\ \A x \in S : next[x] = nil \/ next[x] \in S}
<1>1. Len(s) \in Nat /\ (s # <<>> => 1 \in 1 .. Len(s)) /\ (s = <<>> => Len(s) = 0)
      /\ \A i \in 1 .. Len(s) : s[i] \in D
  BY LenProperties, EmptySeq, ElementOfSeq
<1>2. Elements(s) \in closed
  <2>1. from = nil \/ from \in Elements(s)
    BY <1>1 DEF Elements, Linked
  <2>2. ASSUME NEW i \in 1 .. Len(s) PROVE next[s[i]] = nil \/ next[s[i]] \in Elements(s)
    <3>1. CASE i < Len(s)
      <4>1. i + 1 \in 1 .. Len(s) /\ next[s[i]] = s[i + 1]
        BY <1>1, <3>1 DEF Linked
      <4> QED BY <4>1 DEF Elements
    <3>2. CASE ~(i < Len(s))
      BY <3>2 DEF Linked
    <3> QED BY <3>1, <3>2
  <2> QED BY <1>1, <2>1, <2>2 DEF Elements
<1>3. ASSUME NEW S \in closed, NEW x \in Elements(s) PROVE x \in S
  <2> DEFINE T == {n \in Nat : n + 1 \in 1 .. Len(s) => s[n + 1] \in S}
  <2>1. 0 \in T
    BY <1>1, <1>3 DEF Linked
  <2>2. ASSUME NEW n \in Nat, n \in T PROVE n + 1 \in T
    <3> SUFFICES ASSUME (n + 1) + 1 \in 1 .. Len(s) PROVE s[(n + 1) + 1] \in S
      OBVIOUS
    <3>1. n + 1 \in 1 .. Len(s) /\ n + 1 < Len(s)
      BY <1>1
    <3>2. s[n + 1] \in S /\ next[s[n + 1]] = s[(n + 1) + 1]
      BY <2>2, <3>1 DEF Linked
    <3>3. s[(n + 1) + 1] \in D
      BY <1>1
    <3> QED BY <3>2, <3>3
  <2>3. Nat \subseteq T
    <3> HIDE DEF T
    <3> QED BY <2>1, <2>2, EveryNatural
  <2>4. PICK i \in 1 .. Len(s) : x = s[i]
    BY DEF Elements
  <2> DEFINE k == i - 1
  <2>5. k \in Nat /\ k + 1 = i
    BY <1>1
  <2> HIDE DEF k
  <2>6. k \in T
    <3> HIDE DEF T
    <3> QED BY <2>3, <2>5
  <2>7. k + 1 \in 1 .. Len(s) => s[k + 1] \in S
    BY <2>6
  <2> QED BY <2>4, <2>5, <2>7
<1>4. Elements(s) \subseteq D
  BY <1>1 DEF Elements
<1> QED BY <1>2, <1>3, <1>4 DEF Met

(* A list is one sequence only, *)
LEMMA LinkedPrefix ==
  ASSUME NEW D, NEW nil, nil \notin D, NEW next, NEW from, NEW s \in Seq(D), NEW r \in Seq(D),
         Linked(next, nil, from, s), Linked(next, nil, from, r)
  PROVE  Len(s) <= Len(r) /\ \A i \in 1 .. Len(s) : s[i] = r[i]
<1> DEFINE n == Len(s)
           o == Len(r)
           T == {k \in Nat : k + 1 \in 1 .. n => k + 1 \in 1 .. o /\ s[k + 1] = r[k + 1]}
<1>1. n \in Nat /\ o \in Nat /\ (s = <<>> <=> n = 0) /\ (r = <<>> <=> o = 0)
  BY LenProperties, EmptySeq
<1>2. (\A i \in 1 .. n : s[i] \in D) /\ (\A i \in 1 .. o : r[i] \in D)
  BY ElementOfSeq
<1>3. /\ \A i \in 1 .. n : next[s[i]] = IF i < n THEN s[i + 1] ELSE nil
      /\ \A i \in 1 .. o : next[r[i]] = IF i < o THEN r[i + 1] ELSE nil
      /\ from = IF s = <<>> THEN nil ELSE s[1]
      /\ from = IF r = <<>> THEN nil ELSE r[1]
  BY DEF Linked
<1> HIDE DEF n, o
<1>4. 0 \in T
  <2>1. 0 + 1 = 1
    OBVIOUS
  <2>2. 1 \in 1 .. n => 1 \in 1 .. o /\ s[1] = r[1]
    BY <1>1, <1>2, <1>3
  <2> QED BY <2>1, <2>2
<1>5. ASSUME NEW k \in Nat, k \in T PROVE k + 1 \in T
  <2> SUFFICES ASSUME (k + 1) + 1 \in 1 .. n
               PROVE  (k + 1) + 1 \in 1 .. o /\ s[(k + 1) + 1] = r[(k + 1) + 1]
    OBVIOUS
  <2>1. k + 1 \in 1 .. n /\ k + 1 < n
    BY <1>1
  <2>2. k + 1 \in 1 .. o /\ s[k + 1] = r[k + 1]
    BY <1>5, <2>1
  <2>3. next[s[k + 1]] = s[(k + 1) + 1] /\ s[(k + 1) + 1] # nil
    BY <1>2, <1>3, <2>1
  <2>4. k + 1 < o /\ next[r[k + 1]] = r[(k + 1) + 1]
    BY <1>3, <2>2, <2>3
  <2> QED BY <1>1, <2>2, <2>3, <2>4
<1>6. Nat \subseteq T
  <2> HIDE DEF T
  <2> QED BY <1>4, <1>5, EveryNatural
<1>7. ASSUME NEW i \in 1 .. n PROVE i \in 1 .. o /\ s[i] = r[i]
  <2> DEFINE k == i - 1
  <2>1. k \in Nat /\ k + 1 = i
    BY <1>1
  <2> HIDE DEF k
  <2>2. k \in T
    <3> HIDE DEF T
    <3> QED BY <1>6, <2>1
  <2>3. k + 1 \in 1 .. n => k + 1 \in 1 .. o /\ s[k + 1] = r[k + 1]
    BY <2>2
  <2> QED BY <2>1, <2>3
<1>8. n <= o
  BY <1>1, <1>7
<1> QED BY <1>7, <1>8 DEF n, o

LEMMA LinkedUnique ==
  ASSUME NEW D, NEW nil, nil \notin D, NEW next, NEW from, NEW s \in Seq(D), NEW r \in Seq(D),
         Linked(next, nil, from, s), Linked(next, nil, from, r)
  PROVE  s = r
<1>1. Len(s) <= Len(r) /\ Len(r) <= Len(s) /\ \A i \in 1 .. Len(s) : s[i] = r[i]
  BY LinkedPrefix
<1>2. Len(s) = Len(r)
  BY <1>1, LenProperties
<1> QED BY <1>1, <1>2, SeqEqual

(* and no longer than there are elements, so that Followed finds it. *)
LEMMA LinkedFollowed ==
  ASSUME NEW D, NEW nil, nil \notin D, NEW next, NEW from, NEW s \in Seq(D),
         Linked(next, nil, from, s), IsFiniteSet(D), NEW most \in Nat, Cardinality(D) <= most
  PROVE  Followed(D, most, next, nil, from) = s
<1> DEFINE n == Len(s)
           All == UNION {[1 .. k -> D] : k \in 0 .. most}
<1>1. n \in Nat /\ s \in [1 .. n -> D]
  BY LenProperties
<1>2. n <= most
  <2> SUFFICES ASSUME most < n PROVE FALSE
    BY <1>1
  <2>1. IsFiniteSet(1 .. n) /\ Cardinality(1 .. n) = n
    <3> HIDE DEF n
    <3>1. 1 \in Int /\ n \in Int
      BY <1>1
    <3>2. IsFiniteSet(1 .. n) /\ Cardinality(1 .. n) = IF 1 > n THEN 0 ELSE n - 1 + 1
      BY <3>1, FS_Interval
    <3> QED BY <1>1, <3>2
  <2>2. Cardinality(D) \in Nat
    BY FS_CardinalityType
  <2> HIDE DEF n
  <2>3. Cardinality(D) < Cardinality(1 .. n)
    BY <1>1, <2>1, <2>2
  <2>4. \E i, j \in 1 .. n : i # j /\ s[i] = s[j]
    BY <1>1, <2>1, <2>3, FS_PigeonHole
  <2> QED BY <2>4 DEF Linked, n
<1>3. s \in All
  <2>1. n \in 0 .. most
    BY <1>1, <1>2
  <2> HIDE DEF n
  <2> QED BY <1>1, <2>1
<1>4. \A r \in All : r \in Seq(D)
  <2> SUFFICES ASSUME NEW k \in 0 .. most, NEW r \in [1 .. k -> D] PROVE r \in Seq(D)
    OBVIOUS
  <2>1. k \in Nat
    OBVIOUS
  <2> QED BY <2>1
<1> HIDE DEF All
<1>5. \A r \in All : Linked(next, nil, from, r) => r = s
  BY <1>4, LinkedUnique
<1>6. (CHOOSE r \in All : Linked(next, nil, from, r)) = s
  BY <1>3, <1>5
<1> QED BY <1>6 DEF Followed, All

(* A list whose links stay as they are. *)
LEMMA LinkedKeeps ==
  ASSUME NEW D, NEW nil, NEW next, NEW next2, NEW from, NEW s \in Seq(D),
         Linked(next, nil, from, s), \A x \in Elements(s) : next2[x] = next[x]
  PROVE  Linked(next2, nil, from, s)
BY DEF Linked, Elements

LEMMA AppendElements ==
  ASSUME NEW D, NEW s \in Seq(D), NEW e \in D
  PROVE  /\ Append(s, e) \in Seq(D) /\ Append(s, e) # <<>> /\ Len(Append(s, e)) = Len(s) + 1
         /\ Elements(Append(s, e)) = Elements(s) \cup {e}
         /\ Append(s, e)[Len(s) + 1] = e
<1> DEFINE r == Append(s, e)
           n == Len(s)
<1>1. /\ r \in Seq(D) /\ n \in Nat /\ Len(r) = n + 1
      /\ \A i \in 1 .. n : r[i] = s[i] /\ s[i] \in D
      /\ r[n + 1] = e
  BY AppendProperties, LenProperties, ElementOfSeq
<1> HIDE DEF r, n
<1>2. r # <<>>
  BY <1>1, EmptySeq
<1>3. Elements(r) = Elements(s) \cup {e}
  <2>1. 1 .. n + 1 = (1 .. n) \cup {n + 1}
    BY <1>1
  <2> QED BY <1>1, <2>1 DEF Elements, n
<1> QED BY <1>1, <1>2, <1>3 DEF r, n

(* A new last element. *)
LEMMA LinkedAppend ==
  ASSUME NEW D, NEW nil, nil \notin D, NEW next, NEW next2, NEW from, NEW s \in Seq(D),
         Linked(next, nil, from, s), NEW e \in D, e \notin Elements(s), next2[e] = nil,
         s # <<>> => next2[s[Len(s)]] = e,
         \A x \in Elements(s) : x = s[Len(s)] \/ next2[x] = next[x],
         NEW from2, from2 = IF from = nil THEN e ELSE from
  PROVE  Append(s, e) \in Seq(D) /\ Linked(next2, nil, from2, Append(s, e))
<1> DEFINE r == Append(s, e)
           n == Len(s)
<1>1. /\ r \in Seq(D) /\ n \in Nat /\ Len(r) = n + 1
      /\ \A i \in 1 .. n : r[i] = s[i] /\ s[i] \in D
      /\ r[n + 1] = e
  BY AppendProperties, LenProperties, ElementOfSeq
<1>2. (s = <<>> <=> n = 0) /\ r # <<>>
  BY <1>1, EmptySeq
<1>4. from2 = r[1]
  <2>1. CASE n = 0
    BY <1>1, <1>2, <2>1 DEF Linked
  <2>2. CASE n # 0
    <3>1. 1 \in 1 .. n
      BY <1>1, <2>2
    <3>2. from = s[1] /\ s[1] \in D /\ r[1] = s[1]
      BY <1>1, <1>2, <2>2, <3>1 DEF Linked
    <3> QED BY <3>2
  <2> QED BY <2>1, <2>2
<1>5. ASSUME NEW i \in 1 .. n + 1
      PROVE  next2[r[i]] = IF i < n + 1 THEN r[i + 1] ELSE nil
  <2>1. CASE i = n + 1
    BY <1>1, <2>1
  <2>2. CASE i = n
    <3>1. n \in 1 .. n /\ s # <<>>
      BY <1>1, <1>2, <2>2
    <3> QED BY <1>1, <2>2, <3>1
  <2>3. CASE i < n
    <3>1. i \in 1 .. n /\ i + 1 \in 1 .. n /\ n \in 1 .. n
      BY <1>1, <2>3
    <3>2. s[i] # s[n]
      BY <2>3, <3>1 DEF Linked
    <3>3. next2[s[i]] = next[s[i]] /\ next[s[i]] = s[i + 1]
      BY <2>3, <3>1, <3>2 DEF Elements, Linked
    <3>4. r[i] = s[i] /\ r[i + 1] = s[i + 1] /\ i < n + 1
      BY <1>1, <2>3, <3>1
    <3> QED BY <3>3, <3>4
  <2> QED BY <1>1, <2>1, <2>2, <2>3
<1>6. ASSUME NEW i \in 1 .. n + 1, NEW j \in 1 .. n + 1, r[i] = r[j] PROVE i = j
  <2>1. \A k \in 1 .. n : s[k] # e
    BY DEF Elements
  <2>2. (i \in 1 .. n \/ i = n + 1) /\ (j \in 1 .. n \/ j = n + 1)
    BY <1>1
  <2> HIDE DEF r, n
  <2>3. \A k, l \in 1 .. n : s[k] = s[l] => k = l
    BY DEF Linked, n
  <2> QED BY <1>1, <1>6, <2>1, <2>2, <2>3
<1> HIDE DEF r
<1>7. Linked(next2, nil, from2, r)
  BY <1>1, <1>2, <1>4, <1>5, <1>6 DEF Linked
<1> QED BY <1>1, <1>7 DEF r

(* The list without its first element. *)
LEMMA LinkedTail ==
  ASSUME NEW D, NEW nil, nil \notin D, NEW next, NEW from, NEW s \in Seq(D),
         Linked(next, nil, from, s), from # nil
  PROVE  /\ s # <<>> /\ from = s[1] /\ from \in Elements(s)
         /\ Tail(s) \in Seq(D) /\ Linked(next, nil, next[from], Tail(s))
         /\ Elements(Tail(s)) = Elements(s) \ {from}
         /\ Tail(s) # <<>> => Tail(s)[Len(Tail(s))] = s[Len(s)]
         /\ next[from] = nil <=> Tail(s) = <<>>
         /\ from = s[Len(s)] <=> Tail(s) = <<>>
<1> DEFINE r == Tail(s)
           n == Len(s)
<1>1. s # <<>> /\ from = s[1]
  BY DEF Linked
<1>2. /\ r \in Seq(D) /\ Len(r) = n - 1 /\ n \in Nat \ {0}
      /\ \A i \in 1 .. n - 1 : r[i] = s[i + 1]
  BY <1>1, Tailed
<1>3. r = <<>> <=> n = 1
  <2> HIDE DEF r
  <2>1. r = <<>> <=> Len(r) = 0
    BY <1>2, EmptySeq
  <2> QED BY <1>2, <2>1
<1>4. \A i \in 1 .. n : s[i] \in D
  BY ElementOfSeq
<1> HIDE DEF r
<1>5. next[from] = IF r = <<>> THEN nil ELSE r[1]
  <2>1. 1 \in 1 .. n /\ next[s[1]] = IF 1 < n THEN s[1 + 1] ELSE nil
    BY <1>2 DEF Linked
  <2> QED BY <1>1, <1>2, <1>3, <2>1
<1>6. ASSUME NEW i \in 1 .. n - 1 PROVE next[r[i]] = IF i < n - 1 THEN r[i + 1] ELSE nil
  <2>1. i + 1 \in 1 .. n /\ next[s[i + 1]] = IF i + 1 < n THEN s[(i + 1) + 1] ELSE nil
    BY <1>2 DEF Linked
  <2> QED BY <1>2, <2>1
<1>7. ASSUME NEW i \in 1 .. n - 1, NEW j \in 1 .. n - 1, r[i] = r[j] PROVE i = j
  <2>1. i + 1 \in 1 .. n /\ j + 1 \in 1 .. n /\ s[i + 1] = s[j + 1]
    BY <1>2, <1>7
  <2>2. i + 1 = j + 1
    BY <2>1 DEF Linked
  <2> QED BY <2>2
<1>8. Linked(next, nil, next[from], r)
  BY <1>2, <1>5, <1>6, <1>7 DEF Linked
<1>9. Elements(r) = Elements(s) \ {from}
  <2>1. ASSUME NEW i \in 1 .. n - 1 PROVE r[i] \in Elements(s) /\ r[i] # from
    <3>1. i + 1 \in 1 .. n /\ 1 \in 1 .. n /\ i + 1 # 1 /\ r[i] = s[i + 1]
      BY <1>2
    <3>2. s[i + 1] # s[1]
      BY <3>1 DEF Linked
    <3> QED BY <1>1, <3>1, <3>2 DEF Elements
  <2>2. ASSUME NEW i \in 1 .. n, s[i] # from PROVE s[i] \in Elements(r)
    <3>1. i - 1 \in 1 .. n - 1 /\ (i - 1) + 1 = i
      BY <1>1, <1>2, <2>2
    <3>2. r[i - 1] = s[i]
      BY <1>2, <3>1
    <3> QED BY <1>2, <3>1, <3>2 DEF Elements
  <2> QED BY <1>2, <2>1, <2>2 DEF Elements
<1>10. r # <<>> => r[Len(r)] = s[n]
  <2> SUFFICES ASSUME r # <<>> PROVE r[Len(r)] = s[n]
    OBVIOUS
  <2>1. n - 1 \in 1 .. n - 1 /\ (n - 1) + 1 = n
    BY <1>2, <1>3
  <2> QED BY <1>2, <2>1
<1>11. next[from] = nil <=> r = <<>>
  <2>1. r # <<>> => r[1] \in D
    <3> SUFFICES ASSUME r # <<>> PROVE r[1] \in D
      OBVIOUS
    <3>1. 1 \in 1 .. n - 1 /\ 1 + 1 \in 1 .. n
      BY <1>2, <1>3
    <3> QED BY <1>2, <1>4, <3>1
  <2> QED BY <1>5, <2>1
<1>12. from = s[n] <=> r = <<>>
  <2>1. 1 \in 1 .. n /\ n \in 1 .. n
    BY <1>2
  <2>2. s[1] = s[n] <=> 1 = n
    BY <2>1 DEF Linked
  <2> QED BY <1>1, <1>3, <2>2
<1>13. from \in Elements(s)
  <2>1. 1 \in 1 .. n
    BY <1>2
  <2> QED BY <1>1, <2>1 DEF Elements
<1> QED BY <1>1, <1>2, <1>8, <1>9, <1>10, <1>11, <1>12, <1>13 DEF r

(* A new first element. *)
LEMMA LinkedPush ==
  ASSUME NEW D, NEW nil, nil \notin D, NEW next, NEW next2, NEW from, NEW s \in Seq(D),
         Linked(next, nil, from, s), NEW e \in D, e \notin Elements(s), next2[e] = from,
         \A x \in Elements(s) : next2[x] = next[x]
  PROVE  \E r \in Seq(D) : Linked(next2, nil, e, r) /\ Elements(r) = Elements(s) \cup {e}
<1> DEFINE n == Len(s)
           r == [i \in 1 .. n + 1 |-> IF i = 1 THEN e ELSE s[i - 1]]
<1>1. n \in Nat /\ (s = <<>> <=> n = 0) /\ \A i \in 1 .. n : s[i] \in D
  BY LenProperties, EmptySeq, ElementOfSeq
<1>2. r \in Seq(D) /\ Len(r) = n + 1 /\ r # <<>>
  <2> HIDE DEF n
  <2>1. \A i \in 1 .. n + 1 : r[i] \in D
    BY <1>1
  <2>2. r \in [1 .. n + 1 -> D] /\ n + 1 \in Nat
    BY <1>1, <2>1
  <2> HIDE DEF r
  <2>3. r \in Seq(D) /\ Len(r) = n + 1
    BY <2>2, IsASeq, LenProperties
  <2> QED BY <1>1, <2>3, EmptySeq
<1>3. /\ r[1] = e
      /\ \A i \in 1 .. n : i + 1 \in 1 .. n + 1 /\ r[i + 1] = s[i]
      /\ \A i \in 1 .. n + 1 : i = 1 \/ (i - 1 \in 1 .. n /\ r[i] = s[i - 1])
  BY <1>1
<1> HIDE DEF r, n
<1>4. ASSUME NEW i \in 1 .. n + 1
      PROVE  next2[r[i]] = IF i < n + 1 THEN r[i + 1] ELSE nil
  <2>1. CASE i = 1 /\ n = 0
    BY <1>1, <1>3, <2>1 DEF Linked
  <2>2. CASE i = 1 /\ n # 0
    <3>1. 1 \in 1 .. n /\ r[1 + 1] = s[1] /\ 1 < n + 1
      BY <1>1, <1>3, <2>2
    <3> QED BY <1>1, <1>3, <2>2, <3>1 DEF Linked
  <2>3. CASE i # 1
    <3>1. i - 1 \in 1 .. n /\ r[i] = s[i - 1]
      BY <1>3, <2>3
    <3>2. next2[s[i - 1]] = IF i - 1 < n THEN s[(i - 1) + 1] ELSE nil
      BY <3>1 DEF Linked, Elements, n
    <3>3. i < n + 1 => (i \in 1 .. n /\ r[i + 1] = s[i])
      BY <1>1, <1>3
    <3>4. (i - 1) + 1 = i /\ (i - 1 < n <=> i < n + 1)
      BY <1>1
    <3> QED BY <3>1, <3>2, <3>3, <3>4
  <2> QED BY <2>1, <2>2, <2>3
<1>5. ASSUME NEW i \in 1 .. n + 1, NEW j \in 1 .. n + 1, r[i] = r[j] PROVE i = j
  <2>1. \A k \in 1 .. n : s[k] # e
    BY DEF Elements, n
  <2>2. \A k, l \in 1 .. n : s[k] = s[l] => k = l
    BY DEF Linked, n
  <2>3. CASE i = 1 \/ j = 1
    BY <1>3, <1>5, <2>1, <2>3
  <2>4. CASE i # 1 /\ j # 1
    <3>1. i - 1 \in 1 .. n /\ j - 1 \in 1 .. n /\ s[i - 1] = s[j - 1]
      BY <1>3, <1>5, <2>4
    <3>2. i - 1 = j - 1
      BY <2>2, <3>1
    <3> QED BY <3>2
  <2> QED BY <2>3, <2>4
<1>6. Linked(next2, nil, e, r)
  BY <1>2, <1>3, <1>4, <1>5 DEF Linked
<1>7. Elements(r) = Elements(s) \cup {e}
  <2>1. \A x \in Elements(r) : x \in Elements(s) \cup {e}
    <3>1. Elements(r) = {r[i] : i \in 1 .. n + 1} /\ Elements(s) = {s[i] : i \in 1 .. n}
      BY <1>2 DEF Elements, n
    <3>2. \A i \in 1 .. n + 1 : r[i] \in Elements(s) \cup {e}
      BY <1>3, <3>1
    <3> QED BY <3>1, <3>2
  <2>2. \A x \in Elements(s) : x \in Elements(r)
    BY <1>2, <1>3 DEF Elements, n
  <2>3. e \in Elements(r)
    <3>1. 1 \in 1 .. n + 1
      BY <1>1
    <3> QED BY <1>2, <1>3, <3>1 DEF Elements
  <2> QED BY <2>1, <2>2, <2>3
<1> QED BY <1>2, <1>6, <1>7

-----------------------------------------------------------------------------
(* A list, and a queue with a pointer to its last element, of the elements of a set. *)
IsList(D, next, nil, from, S) ==
  \E s \in Seq(D) : Linked(next, nil, from, s) /\ Elements(s) = S

IsQueue(D, next, nil, head, tail, S) ==
  \E s \in Seq(D) : /\ Linked(next, nil, head, s) /\ Elements(s) = S
                    /\ tail = IF s = <<>> THEN nil ELSE s[Len(s)]

LEMMA ElementsIn ==
  ASSUME NEW D, NEW s \in Seq(D)
  PROVE  /\ Elements(s) \subseteq D /\ (s = <<>> <=> Elements(s) = {})
         /\ s # <<>> => s[1] \in Elements(s) /\ s[Len(s)] \in Elements(s)
<1>1. Len(s) \in Nat /\ (s = <<>> <=> Len(s) = 0) /\ \A i \in 1 .. Len(s) : s[i] \in D
  BY LenProperties, EmptySeq, ElementOfSeq
<1>2. s # <<>> => 1 \in 1 .. Len(s) /\ Len(s) \in 1 .. Len(s)
  BY <1>1
<1>3. s = <<>> => Elements(s) = {}
  BY <1>1 DEF Elements
<1> QED BY <1>1, <1>2, <1>3 DEF Elements

LEMMA ListFacts ==
  ASSUME NEW D, NEW nil, nil \notin D, NEW next, NEW from, NEW S,
         IsList(D, next, nil, from, S)
  PROVE  /\ S \subseteq D /\ from \in D \cup {nil} /\ (from = nil <=> S = {})
         /\ from # nil => from \in S
         /\ Met(D, next, nil, from) = S
         /\ from = nil \/ \E x \in S : next[x] = nil
<1>1. PICK s \in Seq(D) : Linked(next, nil, from, s) /\ Elements(s) = S
  BY DEF IsList
<1>2. S \subseteq D /\ (s = <<>> <=> S = {}) /\ (s # <<>> => s[1] \in S /\ s[Len(s)] \in S)
  BY <1>1, ElementsIn
<1>3. from = IF s = <<>> THEN nil ELSE s[1]
  BY <1>1 DEF Linked
<1>4. s # <<>> => next[s[Len(s)]] = nil
  <2>1. s # <<>> => Len(s) \in 1 .. Len(s) /\ ~(Len(s) < Len(s))
    <3>1. Len(s) \in Nat /\ (s = <<>> <=> Len(s) = 0)
      BY LenProperties, EmptySeq
    <3> QED BY <3>1
  <2> QED BY <1>1, <2>1 DEF Linked
<1>5. Met(D, next, nil, from) = S
  BY <1>1, LinkedMet
<1> QED BY <1>2, <1>3, <1>4, <1>5

LEMMA QueueFacts ==
  ASSUME NEW D, NEW nil, nil \notin D, NEW next, NEW head, NEW tail, NEW S,
         IsQueue(D, next, nil, head, tail, S)
  PROVE  /\ IsList(D, next, nil, head, S)
         /\ tail \in D \cup {nil} /\ (tail = nil <=> S = {})
         /\ tail # nil => tail \in S /\ next[tail] = nil
<1>1. PICK s \in Seq(D) : /\ Linked(next, nil, head, s) /\ Elements(s) = S
                          /\ tail = IF s = <<>> THEN nil ELSE s[Len(s)]
  BY DEF IsQueue
<1>2. S \subseteq D /\ (s = <<>> <=> S = {}) /\ (s # <<>> => s[Len(s)] \in S)
  BY <1>1, ElementsIn
<1>3. s # <<>> => next[s[Len(s)]] = nil
  <2>1. s # <<>> => Len(s) \in 1 .. Len(s) /\ ~(Len(s) < Len(s))
    <3>1. Len(s) \in Nat /\ (s = <<>> <=> Len(s) = 0)
      BY LenProperties, EmptySeq
    <3> QED BY <3>1
  <2> QED BY <1>1, <2>1 DEF Linked
<1> QED BY <1>1, <1>2, <1>3 DEF IsList

LEMMA EmptyQueue ==
  ASSUME NEW D, NEW nil, NEW next
  PROVE  IsQueue(D, next, nil, nil, nil, {})
<1>1. <<>> \in Seq(D) /\ Elements(<<>>) = {} /\ Linked(next, nil, nil, <<>>)
  BY DEF Elements, Linked
<1> QED BY <1>1 DEF IsQueue

LEMMA ListKeeps ==
  ASSUME NEW D, NEW nil, NEW next, NEW next2, NEW from, NEW S,
         IsList(D, next, nil, from, S), \A x \in S : next2[x] = next[x]
  PROVE  IsList(D, next2, nil, from, S)
BY LinkedKeeps DEF IsList

LEMMA QueueKeeps ==
  ASSUME NEW D, NEW nil, NEW next, NEW next2, NEW head, NEW tail, NEW S,
         IsQueue(D, next, nil, head, tail, S), \A x \in S : next2[x] = next[x]
  PROVE  IsQueue(D, next2, nil, head, tail, S)
BY LinkedKeeps DEF IsQueue

(* What is to be known of the links before and after for each change of a queue,
   named so that the lemma about it can be cited. *)
Appends(D, next, next2, nil, head, head2, tail, S, e) ==
  /\ nil \notin D /\ IsQueue(D, next, nil, head, tail, S) /\ e \in D /\ e \notin S
  /\ next2[e] = nil /\ (tail # nil => next2[tail] = e)
  /\ \A x \in S \ {tail} : next2[x] = next[x]
  /\ head2 = IF head = nil THEN e ELSE head

LEMMA AppendsLinked ==
  ASSUME NEW D, NEW nil, NEW next, NEW next2, NEW head, NEW head2, NEW tail, NEW S, NEW e,
         Appends(D, next, next2, nil, head, head2, tail, S, e),
         NEW s \in Seq(D), Linked(next, nil, head, s), Elements(s) = S,
         tail = IF s = <<>> THEN nil ELSE s[Len(s)]
  PROVE  Append(s, e) \in Seq(D) /\ Linked(next2, nil, head2, Append(s, e))
<1> USE DEF Appends
<1>1. s # <<>> => tail # nil /\ tail = s[Len(s)]
  BY ElementsIn
<1>2. \A x \in Elements(s) : x = s[Len(s)] \/ next2[x] = next[x]
  BY <1>1, ElementsIn
<1>3. e \notin Elements(s) /\ (s # <<>> => next2[s[Len(s)]] = e)
  BY <1>1
<1> QED BY <1>2, <1>3, LinkedAppend

LEMMA QueueAppend ==
  ASSUME NEW D, NEW nil, NEW next, NEW next2, NEW head, NEW head2, NEW tail, NEW S, NEW e,
         Appends(D, next, next2, nil, head, head2, tail, S, e)
  PROVE  IsQueue(D, next2, nil, head2, e, S \cup {e})
<1>1. PICK s \in Seq(D) : /\ Linked(next, nil, head, s) /\ Elements(s) = S
                          /\ tail = IF s = <<>> THEN nil ELSE s[Len(s)]
  BY DEF Appends, IsQueue
<1> DEFINE r == Append(s, e)
<1>2. r \in Seq(D) /\ Linked(next2, nil, head2, r)
  BY <1>1, AppendsLinked
<1>3. Elements(r) = S \cup {e} /\ r # <<>> /\ r[Len(r)] = e
  BY <1>1, AppendElements DEF Appends
<1> HIDE DEF r
<1> QED BY <1>2, <1>3 DEF IsQueue

Popped(D, next, next2, nil, head, tail, tail2, S) ==
  /\ nil \notin D /\ IsQueue(D, next, nil, head, tail, S) /\ head # nil
  /\ \A x \in S \ {head} : next2[x] = next[x]
  /\ tail2 = IF head = tail THEN nil ELSE tail

LEMMA QueuePop ==
  ASSUME NEW D, NEW nil, NEW next, NEW next2, NEW head, NEW tail, NEW tail2, NEW S,
         Popped(D, next, next2, nil, head, tail, tail2, S)
  PROVE  IsQueue(D, next2, nil, next[head], tail2, S \ {head})
<1> USE DEF Popped
<1>1. PICK s \in Seq(D) : /\ Linked(next, nil, head, s) /\ Elements(s) = S
                          /\ tail = IF s = <<>> THEN nil ELSE s[Len(s)]
  BY DEF IsQueue
<1> DEFINE r == Tail(s)
<1>2. /\ s # <<>> /\ head \in S
      /\ r \in Seq(D) /\ Linked(next, nil, next[head], r) /\ Elements(r) = S \ {head}
      /\ r # <<>> => r[Len(r)] = s[Len(s)]
      /\ head = s[Len(s)] <=> r = <<>>
  BY <1>1, LinkedTail
<1> HIDE DEF r
<1>3. Linked(next2, nil, next[head], r)
  BY <1>2, LinkedKeeps
<1>4. tail2 = IF r = <<>> THEN nil ELSE r[Len(r)]
  BY <1>1, <1>2
<1> QED BY <1>2, <1>3, <1>4 DEF IsQueue

LEMMA QueuePopTail ==
  ASSUME NEW D, NEW nil, NEW next, NEW next2, NEW head, NEW tail, NEW tail2, NEW S,
         Popped(D, next, next2, nil, head, tail, tail2, S)
  PROVE  tail2 = IF next[head] = nil THEN nil ELSE tail
<1>1. PICK s \in Seq(D) : /\ Linked(next, nil, head, s) /\ Elements(s) = S
                          /\ tail = IF s = <<>> THEN nil ELSE s[Len(s)]
  BY DEF Popped, IsQueue
<1>2. s # <<>> /\ (next[head] = nil <=> Tail(s) = <<>>) /\ (head = s[Len(s)] <=> Tail(s) = <<>>)
  BY <1>1, LinkedTail DEF Popped
<1> QED BY <1>1, <1>2 DEF Popped

LEMMA ListPop ==
  ASSUME NEW D, NEW nil, nil \notin D, NEW next, NEW next2, NEW from, NEW S,
         IsList(D, next, nil, from, S), from # nil,
         \A x \in S \ {from} : next2[x] = next[x]
  PROVE  IsList(D, next2, nil, next[from], S \ {from}) /\ (next[from] = nil <=> S = {from})
<1>1. PICK s \in Seq(D) : Linked(next, nil, from, s) /\ Elements(s) = S
  BY DEF IsList
<1> DEFINE r == Tail(s)
<1>2. /\ from \in S
      /\ r \in Seq(D) /\ Linked(next, nil, next[from], r) /\ Elements(r) = S \ {from}
      /\ next[from] = nil <=> r = <<>>
  BY <1>1, LinkedTail
<1> HIDE DEF r
<1>3. Linked(next2, nil, next[from], r)
  BY <1>2, LinkedKeeps
<1>4. r = <<>> <=> S = {from}
  <2>1. r = <<>> <=> Elements(r) = {}
    BY <1>2, ElementsIn
  <2> QED BY <1>2, <2>1
<1> QED BY <1>2, <1>3, <1>4 DEF IsList

LEMMA ListPush ==
  ASSUME NEW D, NEW nil, nil \notin D, NEW next, NEW next2, NEW from, NEW S,
         IsList(D, next, nil, from, S), NEW e \in D, e \notin S, next2[e] = from,
         \A x \in S : next2[x] = next[x]
  PROVE  IsList(D, next2, nil, e, S \cup {e})
BY LinkedPush DEF IsList

(* An element taken out: the link of the one before it, or the pointer to the
   first, now goes round it. *)
Removed(D, next, next2, nil, head, head2, tail, tail2, S, e, prev) ==
  /\ nil \notin D /\ IsQueue(D, next, nil, head, tail, S) /\ e \in S
  /\ IF head = e THEN prev = nil ELSE prev \in S /\ next[prev] = e
  /\ prev # nil => next2[prev] = next[e]
  /\ \A x \in S \ {prev} : next2[x] = next[x]
  /\ head2 = IF prev = nil THEN next[e] ELSE head
  /\ tail2 = IF tail = e THEN prev ELSE tail

LEMMA QueueRemove ==
  ASSUME NEW D, NEW nil, NEW next, NEW next2, NEW head, NEW head2, NEW tail, NEW tail2,
         NEW S, NEW e, NEW prev,
         Removed(D, next, next2, nil, head, head2, tail, tail2, S, e, prev)
  PROVE  IsQueue(D, next2, nil, head2, tail2, S \ {e})
<1> USE DEF Removed
<1>0. PICK s \in Seq(D) : /\ Linked(next, nil, head, s) /\ Elements(s) = S
                          /\ tail = IF s = <<>> THEN nil ELSE s[Len(s)]
  BY DEF IsQueue
<1> DEFINE n == Len(s)
<1>1. n \in Nat /\ (s = <<>> <=> n = 0) /\ \A i \in 1 .. n : s[i] \in D
  BY LenProperties, EmptySeq, ElementOfSeq
<1> HIDE DEF n
<1>2. PICK k \in 1 .. n : s[k] = e
  BY <1>0 DEF Elements, n
<1>3. /\ \A i \in 1 .. n : next[s[i]] = IF i < n THEN s[i + 1] ELSE nil
      /\ \A i, j \in 1 .. n : s[i] = s[j] => i = j
      /\ head = IF s = <<>> THEN nil ELSE s[1]
  BY <1>0 DEF Linked, n
<1> DEFINE r == [i \in 1 .. n - 1 |-> IF i < k THEN s[i] ELSE s[i + 1]]
<1>4. n # 0 /\ n - 1 \in Nat /\ 1 \in 1 .. n /\ n \in 1 .. n /\ head = s[1] /\ s # <<>>
  BY <1>1, <1>2, <1>3
<1>5. r \in Seq(D) /\ Len(r) = n - 1 /\ (r = <<>> <=> n = 1)
  <2>1. \A i \in 1 .. n - 1 : r[i] \in D
    BY <1>1, <1>2, <1>4
  <2>2. r \in [1 .. n - 1 -> D]
    BY <2>1
  <2> HIDE DEF r
  <2>3. r \in Seq(D) /\ Len(r) = n - 1
    BY <1>4, <2>2, IsASeq, LenProperties
  <2>4. r = <<>> <=> Len(r) = 0
    BY <2>3, EmptySeq
  <2> QED BY <1>1, <2>3, <2>4
<1>6. IF k = 1 THEN prev = nil ELSE k - 1 \in 1 .. n /\ prev = s[k - 1] /\ prev # nil
  <2>1. CASE k = 1
    BY <1>2, <1>4, <2>1
  <2>2. CASE k # 1
    <3>1. head # e /\ k - 1 \in 1 .. n
      BY <1>1, <1>2, <1>3, <1>4, <2>2
    <3>2. PICK i \in 1 .. n : prev = s[i] /\ next[s[i]] = s[k]
      BY <1>0, <1>2, <3>1 DEF Elements, n
    <3>3. s[k] # nil
      BY <1>1, <1>2
    <3>4. i < n /\ s[i + 1] = s[k] /\ i + 1 \in 1 .. n
      BY <1>1, <1>3, <3>2, <3>3
    <3>5. i + 1 = k
      BY <1>2, <1>3, <3>4
    <3>6. i = k - 1
      BY <1>1, <3>5
    <3> QED BY <1>1, <2>2, <3>1, <3>2, <3>6
  <2> QED BY <2>1, <2>2
<1>7. /\ \A i \in 1 .. n - 1 : i < k => r[i] = s[i] /\ i \in 1 .. n
      /\ \A i \in 1 .. n - 1 : ~(i < k) => r[i] = s[i + 1] /\ i + 1 \in 1 .. n
  BY <1>1, <1>2, <1>4
<1> HIDE DEF r
<1>8. head2 = IF r = <<>> THEN nil ELSE r[1]
  <2>1. CASE k = 1
    <3>1. prev = nil /\ next[s[1]] = IF 1 < n THEN s[1 + 1] ELSE nil
      BY <1>3, <1>4, <1>6, <2>1
    <3>2. n # 1 => 1 \in 1 .. n - 1 /\ r[1] = s[1 + 1] /\ 1 < n
      BY <1>1, <1>4, <1>7, <2>1
    <3> QED BY <1>2, <1>5, <2>1, <3>1, <3>2
  <2>2. CASE k # 1
    <3>1. 1 \in 1 .. n - 1 /\ 1 < k /\ n # 1
      BY <1>1, <1>2, <2>2
    <3> QED BY <1>4, <1>5, <1>6, <1>7, <2>2, <3>1
  <2> QED BY <2>1, <2>2
<1>9. ASSUME NEW i \in 1 .. n - 1
      PROVE  next2[r[i]] = IF i < n - 1 THEN r[i + 1] ELSE nil
  <2>1. \A j \in 1 .. n : s[j] = prev \/ next2[s[j]] = next[s[j]]
    BY <1>0 DEF Elements, n
  <2>2. CASE i = k - 1
    <3>1. k # 1 /\ r[i] = prev /\ prev # nil
      BY <1>1, <1>2, <1>6, <1>7, <2>2
    <3>2. next2[r[i]] = IF k < n THEN s[k + 1] ELSE nil
      BY <1>2, <1>3, <3>1
    <3>3. k < n => i < n - 1 /\ k \in 1 .. n - 1 /\ i + 1 = k
      BY <1>1, <1>2, <2>2
    <3>4. k < n => r[k] = s[k + 1]
      BY <1>1, <1>2, <1>7, <3>3
    <3>5. ~(k < n) => ~(i < n - 1)
      BY <1>1, <1>2, <2>2
    <3> QED BY <3>2, <3>3, <3>4, <3>5
  <2>3. CASE i < k - 1
    <3>1. i < k /\ r[i] = s[i] /\ i \in 1 .. n /\ i + 1 \in 1 .. n /\ i < n
      BY <1>1, <1>2, <1>7, <2>3
    <3>2. i < n - 1 /\ i + 1 \in 1 .. n - 1 /\ i + 1 < k
      BY <1>1, <1>2, <2>3
    <3>3. r[i + 1] = s[i + 1]
      BY <1>7, <3>2
    <3>4. s[i] # prev
      <4>1. k # 1
        BY <1>1, <2>3
      <4>2. prev = s[k - 1] /\ k - 1 \in 1 .. n
        BY <1>6, <4>1
      <4>3. s[i] = s[k - 1] => i = k - 1
        BY <1>3, <3>1, <4>2
      <4> QED BY <1>1, <1>2, <2>3, <4>2, <4>3
    <3> QED BY <1>3, <2>1, <3>1, <3>2, <3>3, <3>4
  <2>4. CASE ~(i < k)
    <3>1. r[i] = s[i + 1] /\ i + 1 \in 1 .. n
      BY <1>7, <2>4
    <3>2. next[s[i + 1]] = IF i + 1 < n THEN s[(i + 1) + 1] ELSE nil
      BY <1>3, <3>1
    <3>3. s[i + 1] # prev
      <4>1. CASE k = 1
        <5>1. prev = nil /\ s[i + 1] \in D
          BY <1>1, <1>6, <3>1, <4>1
        <5> QED BY <5>1
      <4>2. CASE k # 1
        <5>1. prev = s[k - 1] /\ k - 1 \in 1 .. n
          BY <1>6, <4>2
        <5>2. s[i + 1] = s[k - 1] => i + 1 = k - 1
          BY <1>3, <3>1, <5>1
        <5> QED BY <1>1, <1>2, <2>4, <5>1, <5>2
      <4> QED BY <4>1, <4>2
    <3>4. i < n - 1 => i + 1 \in 1 .. n - 1 /\ ~(i + 1 < k) /\ i + 1 < n
      BY <1>1, <1>2, <2>4
    <3>5. i < n - 1 => r[i + 1] = s[(i + 1) + 1]
      BY <1>7, <3>4
    <3>6. ~(i < n - 1) => ~(i + 1 < n)
      BY <1>1
    <3> QED BY <2>1, <3>1, <3>2, <3>3, <3>4, <3>5, <3>6
  <2>5. i = k - 1 \/ i < k - 1 \/ ~(i < k)
    BY <1>1, <1>2
  <2> QED BY <2>2, <2>3, <2>4, <2>5
<1>10. ASSUME NEW i \in 1 .. n - 1, NEW j \in 1 .. n - 1, r[i] = r[j] PROVE i = j
  <2> DEFINE a == IF i < k THEN i ELSE i + 1
             b == IF j < k THEN j ELSE j + 1
  <2>1. a \in 1 .. n /\ b \in 1 .. n /\ s[a] = s[b]
    BY <1>7, <1>10
  <2>2. a = b
    <3> HIDE DEF a, b
    <3> QED BY <1>3, <2>1
  <2> QED BY <1>1, <1>2, <2>2
<1>11. Linked(next2, nil, head2, r)
  BY <1>5, <1>8, <1>9, <1>10 DEF Linked
<1>12. Elements(r) = Elements(s) \ {e}
  <2>1. ASSUME NEW i \in 1 .. n - 1 PROVE r[i] \in Elements(s) /\ r[i] # e
    <3> DEFINE a == IF i < k THEN i ELSE i + 1
    <3>1. a \in 1 .. n /\ r[i] = s[a] /\ a # k
      BY <1>1, <1>2, <1>7
    <3> HIDE DEF a
    <3> QED BY <1>2, <1>3, <3>1 DEF Elements, n
  <2>2. ASSUME NEW i \in 1 .. n, s[i] # e PROVE s[i] \in Elements(r)
    <3>1. i # k
      BY <1>2, <2>2
    <3> DEFINE a == IF i < k THEN i ELSE i - 1
    <3>2. a \in 1 .. n - 1
      BY <1>1, <1>2, <3>1
    <3>3. r[a] = s[i]
      <4>1. CASE i < k
        BY <1>7, <3>2, <4>1
      <4>2. CASE ~(i < k)
        <5>1. a = i - 1 /\ ~(i - 1 < k) /\ (i - 1) + 1 = i
          BY <1>1, <1>2, <3>1, <4>2
        <5> HIDE DEF a
        <5> QED BY <1>7, <3>2, <5>1
      <4> QED BY <4>1, <4>2
    <3> HIDE DEF a
    <3> QED BY <1>5, <3>2, <3>3 DEF Elements
  <2>3. Elements(r) = {r[i] : i \in 1 .. n - 1} /\ Elements(s) = {s[i] : i \in 1 .. n}
    BY <1>5 DEF Elements, n
  <2> QED BY <2>1, <2>2, <2>3
<1>13. tail2 = IF r = <<>> THEN nil ELSE r[Len(r)]
  <2>0. tail2 = IF s[n] = e THEN prev ELSE s[n]
    BY <1>0, <1>4 DEF n
  <2>1. s[n] = e <=> n = k
    BY <1>2, <1>3, <1>4
  <2>2. CASE n = 1
    BY <1>1, <1>2, <1>5, <1>6, <2>0, <2>1, <2>2
  <2>3. CASE n # 1 /\ n = k
    <3>1. n - 1 \in 1 .. n - 1 /\ n - 1 < k
      BY <1>1, <1>4, <2>3
    <3>2. r[n - 1] = s[n - 1]
      BY <1>7, <3>1
    <3> QED BY <1>5, <1>6, <2>0, <2>1, <2>3, <3>2
  <2>4. CASE n # 1 /\ n # k
    <3>1. n - 1 \in 1 .. n - 1 /\ ~(n - 1 < k) /\ (n - 1) + 1 = n
      BY <1>1, <1>2, <1>4, <2>4
    <3>2. r[n - 1] = s[n]
      BY <1>7, <3>1
    <3> QED BY <1>5, <2>0, <2>1, <2>4, <3>2
  <2> QED BY <2>2, <2>3, <2>4
<1> QED BY <1>0, <1>5, <1>11, <1>12, <1>13 DEF IsQueue
=============================================================================
