----------------------------- MODULE DataProofs -----------------------------
(***************************************************************************)
(* Facts about the data that several components share: induction over      *)
(* numbers and finite sets, sequences, sorting by time and by rank, the    *)
(* arithmetic of fractions and sums.                                       *)
(*                                                                         *)
(* Induction is stated without operator parameters: a property is given as *)
(* the set of those that have it.  It follows from the well-foundedness of *)
(* the natural numbers and of the finite sets.                             *)
(***************************************************************************)
EXTENDS EventTime, Decimal, FiniteSetsExt, FiniteSetTheorems, FunctionTheorems,
        SequenceTheorems, TLAPS

NatPairs == {p \in Nat \X Nat : p[1] < p[2]}

LEMMA NatPairsWellFounded == IsWellFoundedOn(NatPairs, Nat)
<1>1. OpToRel(<, Nat) = NatPairs
  BY DEF OpToRel, NatPairs
<1>. QED BY <1>1, NatLessThanWellFounded

\* A set of naturals that is not empty has a least element.
LEMMA LeastNatural ==
  ASSUME NEW T, T \subseteq Nat, T # {}
  PROVE  \E x \in T : \A y \in T : x <= y
<1>1. PICK x \in T : \A y \in T : ~(<<y, x>> \in NatPairs)
  BY NatPairsWellFounded, WFMin
<1> SUFFICES ASSUME NEW y \in T PROVE x <= y
  OBVIOUS
<1>2. x \in Nat /\ y \in Nat
  OBVIOUS
<1>3. y < x => <<y, x>> \in NatPairs
  BY <1>2 DEF NatPairs
<1>. QED BY <1>1, <1>2, <1>3

LEMMA InductNat ==
  ASSUME NEW S, 0 \in S, \A n \in Nat : n \in S => n + 1 \in S
  PROVE  Nat \subseteq S
<1> DEFINE T == {n \in Nat : n \notin S}
<1>1. SUFFICES ASSUME T # {} PROVE FALSE
  OBVIOUS
<1>2. PICK x \in T : \A y \in T : x <= y
  BY <1>1, LeastNatural
<1>3. x \in Nat /\ x # 0 /\ x - 1 \in Nat
  OBVIOUS
<1>4. x - 1 \in S
  BY <1>2, <1>3
<1>5. (x - 1) + 1 \in S /\ (x - 1) + 1 = x
  BY <1>3, <1>4
<1>. QED BY <1>5

\* A set of integers with a bound has a greatest element.
LEMMA MaxOfBounded ==
  ASSUME NEW T, T \subseteq Int, T # {}, NEW b \in Int, \A x \in T : x <= b
  PROVE  Max(T) \in T /\ \A x \in T : x <= Max(T)
<1> DEFINE U == {b - x : x \in T}
<1>1. U \subseteq Nat /\ U # {}
  <2>1. ASSUME NEW x \in T PROVE b - x \in Nat
    <3>1. x \in Int /\ x <= b
      OBVIOUS
    <3>. QED BY <3>1
  <2>. QED BY <2>1
<1>2. PICK y \in U : \A z \in U : y <= z
  BY <1>1, LeastNatural
<1>3. PICK x \in T : y = b - x
  OBVIOUS
<1>4. \A z \in T : x >= z
  <2> SUFFICES ASSUME NEW z \in T PROVE x >= z
    OBVIOUS
  <2>1. b - z \in U /\ x \in Int /\ z \in Int
    OBVIOUS
  <2>. QED BY <1>2, <1>3, <2>1
<1>5. Max(T) \in T /\ \A z \in T : Max(T) >= z
  BY <1>3, <1>4 DEF Max
<1>. QED BY <1>5

\* What the greatest element is, given one.
LEMMA MaxIs ==
  ASSUME NEW T, T \subseteq Int, NEW m \in T, \A x \in T : x <= m
  PROVE  Max(T) = m
<1>1. Max(T) \in T /\ \A x \in T : x <= Max(T)
  <2>1. m \in Int /\ T # {}
    OBVIOUS
  <2>. QED BY <2>1, MaxOfBounded
<1>2. Max(T) \in Int /\ m \in Int /\ m <= Max(T) /\ Max(T) <= m
  BY <1>1
<1>. QED BY <1>2

\* A property of the empty set that holds of a finite set when it holds of the
\* set without one of its elements holds of all finite sets.
LEMMA InductFinite ==
  ASSUME NEW U, IsFiniteSet(U), NEW P, {} \in P,
         \A T \in SUBSET U : \A x \in U \ T : T \in P => T \cup {x} \in P
  PROVE  U \in P
<1> DEFINE S == {n \in Nat : \A T \in SUBSET U : Cardinality(T) = n => T \in P}
<1>1. 0 \in S
  BY FS_Subset, FS_EmptySet
<1>2. ASSUME NEW n \in Nat, n \in S PROVE n + 1 \in S
  <2> SUFFICES ASSUME NEW T \in SUBSET U, Cardinality(T) = n + 1 PROVE T \in P
    OBVIOUS
  <2>1. IsFiniteSet(T) /\ T # {}
    BY FS_Subset, FS_EmptySet
  <2>2. PICK x \in T : TRUE
    BY <2>1
  <2>3. Cardinality(T \ {x}) = n
    <3>1. Cardinality(T \ {x}) = Cardinality(T) - 1
      BY <2>1, FS_RemoveElement
    <3>. QED BY <3>1
  <2>4. T \ {x} \in P
    BY <1>2, <2>3
  <2>5. (T \ {x}) \cup {x} = T /\ x \in U \ (T \ {x}) /\ T \ {x} \in SUBSET U
    OBVIOUS
  <2>6. (T \ {x}) \cup {x} \in P
    BY <2>4, <2>5
  <2>. QED BY <2>5, <2>6
<1> HIDE DEF S
<1>3. Nat \subseteq S
  BY <1>1, <1>2, InductNat
<1>4. Cardinality(U) \in S
  BY <1>3, FS_CardinalityType
<1>. QED BY <1>4 DEF S
-----------------------------------------------------------------------------
\* A sequence is one of its own elements.
Elements(q) == {q[n] : n \in 1..Len(q)}

LEMMA ElementsOfSeq ==
  ASSUME NEW S, NEW q \in Seq(S)
  PROVE  q \in Seq(Elements(q)) /\ Elements(q) \subseteq S /\ Len(q) \in Nat
<1>1. Len(q) \in Nat /\ q = [n \in 1..Len(q) |-> q[n]]
  BY LenProperties
<1>2. \A n \in 1..Len(q) : q[n] \in S
  BY ElementOfSeq
<1>. QED BY <1>1, <1>2, IsASeq DEF Elements

LEMMA AppendElement ==
  ASSUME NEW q, q \in Seq(Elements(q)), NEW e
  PROVE  /\ Append(q, e) \in Seq(Elements(Append(q, e)))
         /\ Len(q) \in Nat
         /\ Len(Append(q, e)) = Len(q) + 1
         /\ \A n \in 1..Len(q) : Append(q, e)[n] = q[n]
         /\ Append(q, e)[Len(q) + 1] = e
<1> DEFINE S == Elements(q) \cup {e}
<1>1. q \in Seq(S) /\ e \in S
  BY SeqMonotonic
<1> HIDE DEF S
<1>2. /\ Append(q, e) \in Seq(S)
      /\ Len(Append(q, e)) = Len(q) + 1
      /\ \A n \in 1..Len(q) : Append(q, e)[n] = q[n]
      /\ Append(q, e)[Len(q) + 1] = e
  BY <1>1, AppendProperties
<1>3. Append(q, e) \in Seq(Elements(Append(q, e))) /\ Len(q) \in Nat
  BY <1>1, <1>2, ElementsOfSeq
<1>. QED BY <1>2, <1>3
-----------------------------------------------------------------------------
\* The positions at which the elements of a strict total order come, counted
\* from 0, are all the positions there are.
LEMMA RanksAreAll ==
  ASSUME NEW D, IsFiniteSet(D), NEW before \in [D -> SUBSET D],
         \A n \in D : n \notin before[n],
         \A n \in D : \A m \in before[n] : before[m] \subseteq before[n],
         \A m, n \in D : m = n \/ m \in before[n] \/ n \in before[m]
  PROVE  [n \in D |-> Cardinality(before[n])] \in Bijection(D, 0..Cardinality(D) - 1)
<1> DEFINE len == Cardinality(D)
           rank == [n \in D |-> Cardinality(before[n])]
<1>1. len \in Nat
  BY FS_CardinalityType
<1> HIDE DEF len
<1>2. IsFiniteSet(0..len - 1) /\ Cardinality(0..len - 1) = len
  <2> DEFINE a == 0
             b == len - 1
  <2>1. a \in Int /\ b \in Int /\ (IF a > b THEN 0 ELSE b - a + 1) = len
    BY <1>1
  <2> HIDE DEF a, b
  <2>2. IsFiniteSet(a..b) /\ Cardinality(a..b) = IF a > b THEN 0 ELSE b - a + 1
    BY <2>1, FS_Interval
  <2>. QED BY <2>1, <2>2 DEF a, b
<1>3. ASSUME NEW n \in D
      PROVE  rank[n] \in 0..len - 1
  <2>1. before[n] \in SUBSET D /\ before[n] # D
    OBVIOUS
  <2>2. IsFiniteSet(before[n]) /\ Cardinality(before[n]) <= len /\ Cardinality(before[n]) # len
    BY <2>1, FS_Subset DEF len
  <2>3. Cardinality(before[n]) \in Nat
    BY <2>2, FS_CardinalityType
  <2>. QED BY <1>1, <2>2, <2>3
<1>4. ASSUME NEW n \in D, NEW m \in before[n]
      PROVE  rank[m] # rank[n]
  <2>1. m \in D /\ before[m] \in SUBSET before[n] /\ before[m] # before[n]
    OBVIOUS
  <2>2. IsFiniteSet(before[n])
    BY FS_Subset
  <2>. QED BY <2>1, <2>2, FS_Subset
<1>5. \A m, n \in D : rank[m] = rank[n] => m = n
  BY <1>4
<1>6. rank \in [D -> 0..len - 1]
  BY <1>3
<1> HIDE DEF rank
<1>7. rank \in Injection(D, 0..len - 1)
  BY <1>5, <1>6, Fun_IsInj
<1>8. rank \in Surjection(D, 0..len - 1)
  BY <1>2, <1>7, FS_Injection DEF len
<1>9. rank \in Bijection(D, 0..len - 1)
  BY <1>7, <1>8 DEF Bijection
<1>. QED BY <1>9 DEF rank, len

\* What is chosen from a sequence is what any way of counting the places from
\* the first to the last one finds there.
LEMMA ChosenUnique ==
  ASSUME NEW S \in SUBSET Int, NEW c \in Nat, NEW p \in Bijection(1..c, S),
         \A k, l \in 1..c : k < l => p[k] < p[l], NEW seq
  PROVE  /\ IsFiniteSet(S) /\ Cardinality(S) = c
         /\ \A k \in 1..c : Chosen(seq, S)[k] = seq[p[k]]
<1> DEFINE D == 1..c
           below(n) == {m \in S : m < n}
<1>1. /\ p \in [D -> S]
      /\ \A a, b \in D : p[a] = p[b] => a = b
      /\ \A t \in S : \E s \in D : p[s] = t
  <2> DEFINE E == D
  <2>1. p \in Bijection(E, S)
    OBVIOUS
  <2> HIDE DEF E
  <2>2. /\ p \in [E -> S]
        /\ \A a, b \in E : p[a] = p[b] => a = b
        /\ \A t \in S : \E s \in E : p[s] = t
    BY <2>1, Fun_BijectionProperties
  <2>. QED BY <2>2 DEF E
<1>2. IsFiniteSet(D) /\ Cardinality(D) = c
  BY FS_Interval
<1>3. IsFiniteSet(S) /\ Cardinality(S) = c
  <2> DEFINE E == D
  <2>1. IsFiniteSet(E) /\ Cardinality(E) = c /\ Bijection(E, S) # {}
    BY <1>2
  <2> HIDE DEF E
  <2>. QED BY <2>1, FS_Bijection, Fun_ExistsBij
<1>4. ASSUME NEW k \in D
      PROVE  Cardinality(below(p[k])) = k - 1
  <2> DEFINE E == 1..(k - 1)
             T == below(p[k])
             q == [j \in E |-> p[j]]
  <2>1. IsFiniteSet(E) /\ Cardinality(E) = k - 1
    BY FS_Interval
  <2>2. \A j \in E : j \in D /\ j < k
    OBVIOUS
  <2>3. q \in [E -> T]
    BY <1>1, <2>2
  <2>4. \A a, b \in E : q[a] = q[b] => a = b
    BY <1>1, <2>2
  <2>5. ASSUME NEW t \in T
        PROVE  \E j \in E : q[j] = t
    <3>1. PICK j \in D : p[j] = t
      BY <1>1
    <3>2. p[j] < p[k] /\ p[j] \in Int /\ p[k] \in Int
      BY <1>1, <3>1
    <3>3. j # k /\ ~(k < j)
      BY <3>2
    <3>4. j \in E
      BY <3>3
    <3>. QED BY <3>1, <3>4
  <2> HIDE DEF E, T, q
  <2>6. q \in Bijection(E, T)
    BY <2>3, <2>4, <2>5, Fun_IsBij
  <2>7. ExistsBijection(E, T)
    BY <2>6, Fun_ExistsBij
  <2>8. Cardinality(T) = k - 1
    BY <2>1, <2>7, FS_Bijection
  <2>. QED BY <2>8 DEF T
<1>5. ASSUME NEW k \in D
      PROVE  Chosen(seq, S)[k] = seq[p[k]]
  <2> DEFINE n == CHOOSE i \in S : Cardinality(below(i)) = k - 1
  <2>1. n \in S /\ Cardinality(below(n)) = k - 1
    <3>1. p[k] \in S
      BY <1>1
    <3> HIDE DEF below
    <3>. QED BY <1>4, <3>1
  <2> HIDE DEF n, below
  <2>2. PICK j \in D : p[j] = n
    BY <1>1, <2>1
  <2>3. j - 1 = k - 1
    BY <1>4, <2>1, <2>2
  <2>4. n = p[k]
    BY <2>2, <2>3
  <2>5. Chosen(seq, S)[k] = seq[n]
    BY <1>3 DEF Chosen, n, below
  <2>. QED BY <2>4, <2>5
<1>. QED BY <1>3, <1>5

\* The places of what is chosen can be counted.
LEMMA ChosenIs ==
  ASSUME NEW S \in SUBSET Int, IsFiniteSet(S), NEW seq
  PROVE  /\ Cardinality(S) \in Nat
         /\ Chosen(seq, S) = [k \in 1..Cardinality(S) |-> Chosen(seq, S)[k]]
         /\ \E place \in Bijection(1..Cardinality(S), S) :
              /\ \A k, l \in 1..Cardinality(S) : k < l => place[k] < place[l]
              /\ \A k \in 1..Cardinality(S) : Chosen(seq, S)[k] = seq[place[k]]
<1> DEFINE c == Cardinality(S)
           D == 1..c
           before == [n \in S |-> {m \in S : m < n}]
           rank == [n \in S |-> Cardinality(before[n])]
           place == [k \in D |-> CHOOSE n \in S : rank[n] = k - 1]
<1>1. c \in Nat
  BY FS_CardinalityType
<1>2. Chosen(seq, S) = [k \in 1..c |-> Chosen(seq, S)[k]]
  BY DEF Chosen
<1> HIDE DEF c
<1>3. /\ before \in [S -> SUBSET S]
      /\ \A n \in S : n \notin before[n]
      /\ \A n \in S : \A m \in before[n] : before[m] \subseteq before[n]
      /\ \A m, n \in S : m = n \/ m \in before[n] \/ n \in before[m]
  <2>1. \A n \in S : n \in Int /\ before[n] = {m \in S : m < n}
    OBVIOUS
  <2>2. before \in [S -> SUBSET S]
    OBVIOUS
  <2> HIDE DEF before
  <2>3. \A n \in S : n \notin before[n]
    BY <2>1
  <2>4. ASSUME NEW n \in S, NEW m \in before[n]
        PROVE  before[m] \subseteq before[n]
    <3>1. m \in S /\ m \in Int /\ n \in Int /\ m < n
      BY <2>1
    <3>2. \A l \in before[m] : l \in S /\ l \in Int /\ l < m
      BY <2>1, <3>1
    <3>3. \A l \in before[m] : l < n
      BY <3>1, <3>2
    <3>. QED BY <2>1, <3>2, <3>3
  <2>5. ASSUME NEW m \in S, NEW n \in S
        PROVE  m = n \/ m \in before[n] \/ n \in before[m]
    <3>1. m = n \/ m < n \/ n < m
      BY <2>1
    <3>. QED BY <2>1, <3>1
  <2>. QED BY <2>2, <2>3, <2>4, <2>5
<1>4. rank \in Bijection(S, 0..c - 1)
  <2> HIDE DEF before
  <2>. QED BY <1>3, RanksAreAll DEF c
<1>5. /\ rank \in [S -> 0..c - 1]
      /\ \A m, n \in S : rank[m] = rank[n] => m = n
      /\ \A k \in 0..c - 1 : \E n \in S : rank[n] = k
  <2> DEFINE T == 0..c - 1
             R == S
  <2>1. rank \in Bijection(R, T)
    BY <1>4
  <2> HIDE DEF rank, T, R
  <2>2. /\ rank \in [R -> T]
        /\ \A m, n \in R : rank[m] = rank[n] => m = n
        /\ \A k \in T : \E n \in R : rank[n] = k
    BY <2>1, Fun_BijectionProperties
  <2>. QED BY <2>2 DEF T, R
<1> HIDE DEF rank
<1>6. ASSUME NEW k \in D
      PROVE  place[k] \in S /\ rank[place[k]] = k - 1
  <2>1. k - 1 \in 0..c - 1
    BY <1>1
  <2>. QED BY <1>5, <2>1
<1>7. place \in Bijection(D, S)
  <2>1. place \in [D -> S]
    BY <1>6
  <2>2. \A k, l \in D : place[k] = place[l] => k = l
    <3> HIDE DEF place
    <3>. QED BY <1>1, <1>6
  <2>3. ASSUME NEW n \in S
        PROVE  \E k \in D : place[k] = n
    <3> DEFINE k == rank[n] + 1
    <3>1. k \in D /\ k - 1 = rank[n]
      BY <1>1, <1>5
    <3> HIDE DEF k, place
    <3>2. rank[place[k]] = rank[n] /\ place[k] \in S
      BY <1>6, <3>1
    <3>. QED BY <1>5, <3>1, <3>2
  <2> HIDE DEF place, D
  <2>. QED BY <2>1, <2>2, <2>3, Fun_IsBij
<1>8. ASSUME NEW k \in D, NEW l \in D, k < l
      PROVE  place[k] < place[l]
  <2> DEFINE a == place[k]
             b == place[l]
  <2>1. a \in S /\ b \in S /\ rank[a] = k - 1 /\ rank[b] = l - 1
    BY <1>6
  <2> HIDE DEF a, b, before
  <2>2. a # b
    BY <1>1, <1>8, <2>1
  <2>3. a \notin before[b] => b \in before[a]
    BY <1>3, <2>1, <2>2
  <2>4. ASSUME b \in before[a]
        PROVE  FALSE
    <3>1. before[b] \in SUBSET before[a] /\ before[a] \in SUBSET S
      BY <1>3, <2>1, <2>4
    <3>2. IsFiniteSet(before[a])
      BY <3>1, FS_Subset
    <3>3. Cardinality(before[b]) <= Cardinality(before[a])
      BY <3>1, <3>2, FS_Subset
    <3>4. rank[b] <= rank[a]
      BY <2>1, <3>3 DEF rank
    <3>. QED BY <1>1, <1>8, <2>1, <3>4
  <2>5. a \in before[b]
    BY <2>3, <2>4
  <2>6. a < b
    BY <2>1, <2>5 DEF before
  <2>. QED BY <2>6 DEF a, b
<1> HIDE DEF place
<1>9. \A k \in D : Chosen(seq, S)[k] = seq[place[k]]
  BY <1>1, <1>7, <1>8, ChosenUnique
<1>. QED BY <1>1, <1>2, <1>7, <1>8, <1>9 DEF c

\* One place holds what is chosen for each position, whatever the sequence.
LEMMA ChosenPlaces ==
  ASSUME NEW S \in SUBSET Int, IsFiniteSet(S)
  PROVE  \A k \in 1..Cardinality(S) :
           \E n \in S : \A seq : Chosen(seq, S)[k] = seq[n]
<1> DEFINE c == Cardinality(S)
<1>1. /\ c \in Nat
      /\ \E p \in Bijection(1..c, S) : \A k, l \in 1..c : k < l => p[k] < p[l]
  BY ChosenIs
<1> HIDE DEF c
<1>2. PICK p \in Bijection(1..c, S) : \A k, l \in 1..c : k < l => p[k] < p[l]
  BY <1>1
<1>3. p \in [1..c -> S]
  BY <1>2 DEF Bijection, Injection
<1>4. \A seq : \A k \in 1..c : Chosen(seq, S)[k] = seq[p[k]]
  BY <1>1, <1>2, ChosenUnique
<1>. QED BY <1>3, <1>4 DEF c

\* Sorting by time is a permutation that puts earlier before later events and
\* leaves those of one time in the order they came in.
LEMMA StableSortProperties ==
  ASSUME NEW S, NEW seq \in Seq(S), \A n \in 1..Len(seq) : EventTs(seq[n]) \in Int
  PROVE  /\ StableSort(seq) \in Seq(S)
         /\ Len(StableSort(seq)) = Len(seq)
         /\ \E place \in Bijection(1..Len(seq), 1..Len(seq)) :
              \A k \in 1..Len(seq) :
                /\ StableSort(seq)[k] = seq[place[k]]
                /\ \A l \in 1..Len(seq) :
                     l < k => \/ EventTs(seq[place[l]]) < EventTs(seq[place[k]])
                              \/ /\ EventTs(seq[place[l]]) = EventTs(seq[place[k]])
                                 /\ place[l] < place[k]
<1> DEFINE len == Len(seq)
           D == 1..len
           before == [n \in D |-> Before(seq, n)]
           rank == [n \in D |-> Cardinality(before[n])]
           place == [k \in D |-> CHOOSE n \in D : Cardinality(Before(seq, n)) = k - 1]
<1>1. len \in Nat
  BY LenProperties
<1>2. /\ before \in [D -> SUBSET D]
      /\ \A n \in D : n \notin before[n]
      /\ \A n \in D : \A m \in before[n] : before[m] \subseteq before[n]
      /\ \A m, n \in D : m = n \/ m \in before[n] \/ n \in before[m]
  <2> DEFINE ts == [n \in D |-> EventTs(seq[n])]
  <2>1. \A n \in D : ts[n] \in Int
    OBVIOUS
  <2>2. \A n \in D : before[n] = {m \in D : ts[m] < ts[n] \/ (ts[m] = ts[n] /\ m < n)}
    BY DEF Before
  <2>3. before \in [D -> SUBSET D]
    BY DEF Before
  <2>4. \A n \in D : n \notin before[n]
    <3> HIDE DEF ts, before
    <3>1. \A n \in D : ~(ts[n] < ts[n]) /\ ~(n < n)
      BY <1>1, <2>1
    <3>. QED BY <2>2, <3>1
  <2>5. ASSUME NEW n \in D, NEW m \in before[n]
        PROVE  before[m] \subseteq before[n]
    <3> HIDE DEF ts, before
    <3>1. m \in D /\ (ts[m] < ts[n] \/ (ts[m] = ts[n] /\ m < n)) /\ ts[m] \in Int /\ ts[n] \in Int
      BY <2>1, <2>2, <2>5
    <3> SUFFICES ASSUME NEW l \in before[m] PROVE l \in before[n]
      OBVIOUS
    <3>2. l \in D /\ (ts[l] < ts[m] \/ (ts[l] = ts[m] /\ l < m)) /\ ts[l] \in Int
      BY <2>1, <2>2, <3>1
    <3>3. ts[l] < ts[n] \/ (ts[l] = ts[n] /\ l < n)
      BY <1>1, <3>1, <3>2
    <3>. QED BY <2>2, <3>2, <3>3
  <2>6. ASSUME NEW m \in D, NEW n \in D
        PROVE  m = n \/ m \in before[n] \/ n \in before[m]
    <3>1. ts[m] \in Int /\ ts[n] \in Int /\ m \in Int /\ n \in Int
      BY <1>1, <2>1
    <3> HIDE DEF ts, before
    <3>2. \/ m = n
          \/ ts[m] < ts[n] \/ (ts[m] = ts[n] /\ m < n)
          \/ ts[n] < ts[m] \/ (ts[n] = ts[m] /\ n < m)
      BY <3>1
    <3>. QED BY <2>2, <3>2
  <2> HIDE DEF before
  <2>. QED BY <2>3, <2>4, <2>5, <2>6
<1>3. rank \in Bijection(D, 0..len - 1)
  <2>1. IsFiniteSet(D) /\ Cardinality(D) = len
    <3> DEFINE a == 1
    <3>1. a \in Int /\ len \in Int /\ (IF a > len THEN 0 ELSE len - a + 1) = len
      BY <1>1
    <3> HIDE DEF a, len
    <3>2. IsFiniteSet(a..len) /\ Cardinality(a..len) = IF a > len THEN 0 ELSE len - a + 1
      BY <3>1, FS_Interval
    <3>. QED BY <3>1, <3>2 DEF a
  <2> HIDE DEF before, D
  <2>2. rank \in Bijection(D, 0..Cardinality(D) - 1)
    BY <1>2, <2>1, RanksAreAll
  <2>. QED BY <2>1, <2>2
<1>4. ASSUME NEW k \in D
      PROVE  place[k] \in D /\ rank[place[k]] = k - 1
  <2>1. k - 1 \in 0..len - 1
    BY <1>1
  <2>2. \E n \in D : rank[n] = k - 1
    <3> DEFINE T == 0..len - 1
    <3>1. rank \in Bijection(D, T)
      BY <1>3
    <3> HIDE DEF rank, D, T
    <3>2. \A t \in T : \E n \in D : rank[n] = t
      BY <3>1, Fun_BijectionProperties
    <3>3. k - 1 \in T
      BY <2>1 DEF T
    <3>. QED BY <3>2, <3>3
  <2>3. \A n \in D : rank[n] = Cardinality(Before(seq, n))
    OBVIOUS
  <2>. QED BY <2>2, <2>3
<1>5. rank \in [D -> 0..len - 1] /\ \A m, n \in D : rank[m] = rank[n] => m = n
  <2> HIDE DEF rank
  <2>. QED BY <1>3, Fun_BijectionProperties
<1>6. place \in Bijection(D, D)
  <2>1. place \in [D -> D]
    BY <1>4
  <2>2. \A k, l \in D : place[k] = place[l] => k = l
    <3> HIDE DEF place, rank
    <3> SUFFICES ASSUME NEW k \in D, NEW l \in D, place[k] = place[l] PROVE k = l
      OBVIOUS
    <3>1. k - 1 = l - 1 /\ k \in Int /\ l \in Int
      BY SMTT(30), <1>1, <1>4
    <3>. QED BY <3>1
  <2>3. ASSUME NEW n \in D
        PROVE  \E k \in D : place[k] = n
    <3> DEFINE k == rank[n] + 1
    <3>1. k \in D /\ k - 1 = rank[n]
      <4> HIDE DEF rank
      <4>1. rank[n] \in Nat /\ rank[n] <= len - 1
        BY <1>1, <1>5
      <4>. QED BY <1>1, <4>1
    <3> HIDE DEF k, place, rank
    <3>2. rank[place[k]] = rank[n] /\ place[k] \in D
      BY <1>4, <3>1
    <3>. QED BY <1>5, <3>1, <3>2
  <2> HIDE DEF place
  <2>. QED BY <2>1, <2>2, <2>3, Fun_IsBij
<1>7. \A k \in D : StableSort(seq)[k] = seq[place[k]]
  BY DEF StableSort
<1>8. ASSUME NEW k \in D, NEW l \in D, l < k
      PROVE  place[l] \in Before(seq, place[k])
  <2>1. place[l] # place[k] /\ rank[place[l]] = l - 1 /\ rank[place[k]] = k - 1
        /\ place[l] \in D /\ place[k] \in D
    <3> HIDE DEF place, rank
    <3>. QED BY <1>1, <1>4, <1>8
  <2>2. ASSUME place[k] \in before[place[l]]
        PROVE  FALSE
    <3>1. before[place[k]] \in SUBSET before[place[l]]
      <4> HIDE DEF before, place
      <4>. QED BY <1>2, <2>1, <2>2
    <3>2. IsFiniteSet(before[place[l]])
      <4>1. before[place[l]] \in SUBSET D /\ IsFiniteSet(D)
        <5>1. IsFiniteSet(D)
          BY <1>1, FS_Interval
        <5> HIDE DEF before, place
        <5>. QED BY <1>2, <2>1, <5>1
      <4> HIDE DEF before, place
      <4>. QED BY <4>1, FS_Subset
    <3>3. Cardinality(before[place[k]]) <= Cardinality(before[place[l]])
      <4> HIDE DEF before, place
      <4>. QED BY <3>1, <3>2, FS_Subset
    <3>4. k - 1 <= l - 1
      <4>1. rank[place[k]] = Cardinality(before[place[k]])
            /\ rank[place[l]] = Cardinality(before[place[l]])
        <5> HIDE DEF before, place
        <5>. QED BY <2>1
      <4> HIDE DEF before, place, rank
      <4>. QED BY <2>1, <3>3, <4>1
    <3>. QED BY <1>1, <1>8, <3>4
  <2>3. place[l] \in before[place[k]]
    <3> HIDE DEF before, place
    <3>. QED BY <1>2, <2>1, <2>2
  <2>. QED BY <2>1, <2>3
<1>9. /\ StableSort(seq) \in Seq(S)
      /\ Len(StableSort(seq)) = len
  <2>1. \A k \in D : seq[place[k]] \in S
    BY <1>4, ElementOfSeq
  <2>2. StableSort(seq) = [k \in 1..len |-> seq[place[k]]]
    BY DEF StableSort
  <2> HIDE DEF place, len
  <2>. QED BY <1>1, <2>1, <2>2
<1>10. ASSUME NEW k \in D, NEW l \in D, l < k
       PROVE  \/ EventTs(seq[place[l]]) < EventTs(seq[place[k]])
              \/ /\ EventTs(seq[place[l]]) = EventTs(seq[place[k]])
                 /\ place[l] < place[k]
  BY <1>8, <1>10 DEF Before
<1> HIDE DEF place, len
<1>11. \A k \in D : /\ StableSort(seq)[k] = seq[place[k]]
                    /\ \A l \in D : l < k =>
                         \/ EventTs(seq[place[l]]) < EventTs(seq[place[k]])
                         \/ /\ EventTs(seq[place[l]]) = EventTs(seq[place[k]])
                            /\ place[l] < place[k]
  BY <1>7, <1>10
<1>. QED BY <1>6, <1>9, <1>11 DEF len

\* The times of sorted events do not fall.
LEMMA StableSortOrders ==
  ASSUME NEW S, NEW seq \in Seq(S), \A n \in 1..Len(seq) : EventTs(seq[n]) \in Int
  PROVE  /\ \A n \in 1..Len(seq) : EventTs(StableSort(seq)[n]) \in Int
         /\ \A m, n \in 1..Len(seq) :
              m <= n => EventTs(StableSort(seq)[m]) <= EventTs(StableSort(seq)[n])
<1> DEFINE D == 1..Len(seq)
<1>1. Len(seq) \in Nat
  BY LenProperties
<1>2. PICK place \in Bijection(D, D) :
         \A k \in D :
           /\ StableSort(seq)[k] = seq[place[k]]
           /\ \A l \in D :
                l < k => \/ EventTs(seq[place[l]]) < EventTs(seq[place[k]])
                         \/ /\ EventTs(seq[place[l]]) = EventTs(seq[place[k]])
                            /\ place[l] < place[k]
  BY StableSortProperties
<1>3. \A k \in D : place[k] \in D
  <2> HIDE DEF D
  <2>. QED BY <1>2, Fun_BijectionProperties
<1>4. \A k \in D : EventTs(StableSort(seq)[k]) = EventTs(seq[place[k]])
                   /\ EventTs(seq[place[k]]) \in Int
  BY <1>2, <1>3
<1>5. ASSUME NEW m \in D, NEW n \in D, m <= n
      PROVE  EventTs(StableSort(seq)[m]) <= EventTs(StableSort(seq)[n])
  <2>1. CASE m = n
    BY <1>4, <2>1
  <2>2. CASE m < n
    <3>1. EventTs(seq[place[m]]) \in Int /\ EventTs(seq[place[n]]) \in Int
      BY <1>4
    <3>2. \/ EventTs(seq[place[m]]) < EventTs(seq[place[n]])
          \/ EventTs(seq[place[m]]) = EventTs(seq[place[n]])
      BY <1>2, <2>2
    <3>3. EventTs(seq[place[m]]) <= EventTs(seq[place[n]])
      BY <3>1, <3>2
    <3>. QED BY <1>4, <3>3
  <2>. QED BY <1>1, <1>5, <2>1, <2>2
<1>. QED BY <1>4, <1>5

\* Sorting keeps the order of those events among which time never falls.
LEMMA SortKeepsClass ==
  ASSUME NEW S, NEW seq \in Seq(S), \A n \in 1..Len(seq) : EventTs(seq[n]) \in Int, NEW class,
         \A m, n \in 1..Len(seq) :
           m < n /\ seq[m] \in class /\ seq[n] \in class => EventTs(seq[m]) <= EventTs(seq[n])
  PROVE  LET sorted == StableSort(seq)
         IN  Chosen(sorted, {n \in 1..Len(sorted) : sorted[n] \in class})
               = Chosen(seq, {n \in 1..Len(seq) : seq[n] \in class})
<1> DEFINE D == 1..Len(seq)
           sorted == StableSort(seq)
           old == {n \in D : seq[n] \in class}
           new == {k \in D : sorted[k] \in class}
<1>1. Len(seq) \in Nat /\ Len(sorted) = Len(seq)
  BY LenProperties, StableSortProperties
<1>2. PICK place \in Bijection(D, D) :
        \A k \in D :
          /\ sorted[k] = seq[place[k]]
          /\ \A l \in D :
               l < k => \/ EventTs(seq[place[l]]) < EventTs(seq[place[k]])
                        \/ /\ EventTs(seq[place[l]]) = EventTs(seq[place[k]])
                           /\ place[l] < place[k]
  BY StableSortProperties
<1>3. /\ \A k \in D : place[k] \in D
      /\ \A k, l \in D : place[k] = place[l] => k = l
      /\ \A n \in D : \E k \in D : place[k] = n
  <2> HIDE DEF D
  <2>1. place \in [D -> D]
    BY <1>2, Fun_BijectionProperties
  <2>2. \A k, l \in D : place[k] = place[l] => k = l
    BY <1>2, Fun_BijectionProperties
  <2>3. \A n \in D : \E k \in D : place[k] = n
    BY <1>2, Fun_BijectionProperties
  <2>. QED BY <2>1, <2>2, <2>3
<1>4. IsFiniteSet(new) /\ new \in SUBSET Int /\ old \in SUBSET Int
  <2>1. IsFiniteSet(D) /\ D \in SUBSET Int
    BY <1>1, FS_Interval
  <2>2. new \in SUBSET D /\ old \in SUBSET D
    OBVIOUS
  <2> HIDE DEF D, new, old
  <2>3. IsFiniteSet(new)
    BY <2>1, <2>2, FS_Subset
  <2>. QED BY <2>1, <2>2, <2>3
<1>5. \A k \in D : k \in new <=> place[k] \in old
  BY <1>2, <1>3
<1>6. \A k \in new : k \in D
  OBVIOUS
<1>7. \A n \in old : n \in D /\ seq[n] \in class
  OBVIOUS
<1>8. ASSUME NEW k \in new, NEW l \in new, l < k
      PROVE  place[l] < place[k]
  <2> DEFINE a == place[l]
             b == place[k]
  <2>1. a \in old /\ b \in old /\ a \in D /\ b \in D /\ a \in Int /\ b \in Int
    <3>1. k \in D /\ l \in D
      BY <1>6
    <3>2. a \in old /\ b \in old
      BY <1>5, <3>1
    <3> HIDE DEF a, b, old
    <3>3. a \in Int /\ b \in Int
      BY <1>4, <3>2
    <3>. QED BY <1>7, <3>2, <3>3
  <2>2. EventTs(seq[a]) \in Int /\ EventTs(seq[b]) \in Int
    BY <2>1
  <2>3. \/ EventTs(seq[a]) < EventTs(seq[b])
        \/ EventTs(seq[a]) = EventTs(seq[b]) /\ a < b
    BY <1>2, <1>6, <1>8
  <2>4. b < a => EventTs(seq[b]) <= EventTs(seq[a])
    BY <1>7, <2>1
  <2>5. a # b
    BY <1>3, <1>4, <1>6, <1>8
  <2> HIDE DEF a, b
  <2>6. a < b
    BY <2>1, <2>2, <2>3, <2>4, <2>5
  <2>. QED BY <2>6 DEF a, b
<1> DEFINE c == Cardinality(new)
           E == 1..c
<1> HIDE DEF new, old
<1>9. /\ c \in Nat
      /\ Chosen(sorted, new) = [k \in 1..c |-> Chosen(sorted, new)[k]]
  BY <1>4, ChosenIs
<1>10. PICK p \in Bijection(1..c, new) :
         /\ \A k, l \in 1..c : k < l => p[k] < p[l]
         /\ \A k \in 1..c : Chosen(sorted, new)[k] = sorted[p[k]]
  BY <1>4, ChosenIs
<1> HIDE DEF c, E, D
<1>11. /\ \A k \in E : p[k] \in new
       /\ \A k, l \in E : p[k] = p[l] => k = l
       /\ \A n \in new : \E k \in E : p[k] = n
       /\ \A k, l \in E : k < l => p[k] < p[l]
  <2>1. p \in Bijection(E, new)
    BY DEF E
  <2>2. p \in [E -> new]
    BY <2>1, Fun_BijectionProperties
  <2>3. \A k, l \in E : p[k] = p[l] => k = l
    BY <2>1, Fun_BijectionProperties
  <2>4. \A n \in new : \E k \in E : p[k] = n
    BY <2>1, Fun_BijectionProperties
  <2>. QED BY <1>10, <2>2, <2>3, <2>4 DEF E
<1> DEFINE q == [k \in E |-> place[p[k]]]
<1>12. q \in Bijection(E, old)
  <2>1. q \in [E -> old]
    BY <1>5, <1>6, <1>11
  <2>2. \A k, l \in E : q[k] = q[l] => k = l
    BY <1>3, <1>6, <1>11
  <2>3. ASSUME NEW n \in old
        PROVE  \E k \in E : q[k] = n
    <3>1. PICK j \in D : place[j] = n
      BY <1>3, <1>7
    <3>2. j \in new
      BY <1>5, <3>1
    <3>3. PICK k \in E : p[k] = j
      BY <1>11, <3>2
    <3>. QED BY <3>1, <3>3
  <2> HIDE DEF q
  <2>. QED BY <2>1, <2>2, <2>3, Fun_IsBij
<1>13. \A k, l \in E : k < l => q[k] < q[l]
  BY <1>8, <1>11
<1>14. \A k \in E : q[k] = place[p[k]] /\ sorted[p[k]] = seq[q[k]]
  BY <1>2, <1>6, <1>11
<1> HIDE DEF q, sorted
<1>15. Cardinality(old) = c /\ \A k \in 1..c : Chosen(seq, old)[k] = seq[q[k]]
  BY <1>4, <1>9, <1>12, <1>13, ChosenUnique DEF E
<1>16. \A k \in 1..c : Chosen(sorted, new)[k] = Chosen(seq, old)[k]
  BY <1>10, <1>14, <1>15 DEF E
<1>17. Chosen(seq, old) = [k \in 1..c |-> Chosen(seq, old)[k]]
  BY <1>15 DEF Chosen
<1>18. Chosen(sorted, new) = Chosen(seq, old)
  BY <1>9, <1>16, <1>17
<1>19. new = {n \in 1..Len(sorted) : sorted[n] \in class}
  BY <1>1 DEF new, D
<1>. QED BY <1>18, <1>19 DEF sorted, old, D
-----------------------------------------------------------------------------
\* The greatest common divisor, by what it is: it divides both numbers, and is
\* a combination of them.
IsGcd(g, a, b) ==
  /\ g \in Nat
  /\ \E k \in Nat : a = k * g
  /\ \E k \in Nat : b = k * g
  /\ \E x, y \in Int : g = x * a + y * b

LEMMA GcdOfZero ==
  ASSUME NEW a \in Nat
  PROVE  IsGcd(a, a, 0)
<1>1. a = 1 * a /\ 0 = 0 * a /\ a = 1 * a + 0 * 0
  OBVIOUS
<1>. QED BY <1>1 DEF IsGcd

LEMMA DivideRemain ==
  ASSUME NEW a \in Nat, NEW b \in Nat, b > 0
  PROVE  /\ a \div b \in Nat /\ a % b \in 0..b - 1
         /\ a = (a \div b) * b + (a % b)
OBVIOUS

LEMMA GcdOfRemainder ==
  ASSUME NEW a \in Nat, NEW b \in Nat, b > 0, NEW g, IsGcd(g, b, a % b)
  PROVE  IsGcd(g, a, b)
<1> DEFINE q == a \div b
           r == a % b
<1>1. q \in Nat /\ r \in Nat /\ a = q * b + r
  BY DivideRemain
<1> HIDE DEF q, r
<1>2. IsGcd(g, b, r)
  BY DEF r
<1>3. PICK k \in Nat : b = k * g
  BY <1>2 DEF IsGcd
<1>4. PICK l \in Nat : r = l * g
  BY <1>2 DEF IsGcd
<1>5. PICK x \in Int, y \in Int : g = x * b + y * r
  BY <1>2 DEF IsGcd
<1>6. g \in Nat
  BY <1>2 DEF IsGcd
<1>7. a = (q * k + l) * g /\ q * k + l \in Nat
  <2>1. a = q * (k * g) + l * g
    BY <1>1, <1>3, <1>4
  <2>2. q * (k * g) + l * g = (q * k + l) * g
    BY <1>1, <1>6
  <2>3. q * k \in Nat
    BY <1>1
  <2>. QED BY <2>1, <2>2, <2>3
<1>8. g = y * a + (x - y * q) * b /\ x - y * q \in Int
  <2>1. r = a - q * b
    BY <1>1
  <2>2. y * a + (x - y * q) * b = x * b + y * (a - q * b)
    BY <1>1
  <2>. QED BY <1>1, <1>5, <2>1, <2>2
<1>. QED BY <1>3, <1>6, <1>7, <1>8 DEF IsGcd

LEMMA CancelFactor ==
  ASSUME NEW x \in Int, NEW y \in Int, NEW z \in Int, z # 0, x * z = y * z
  PROVE  x = y
<1>1. (x - y) * z = 0
  BY Z3
<1>2. \A w \in Int : w * z = 0 => w = 0
  OBVIOUS
<1>. QED BY <1>1, <1>2

LEMMA DivideEachOther ==
  ASSUME NEW g \in Nat, NEW h \in Nat, NEW k \in Int, NEW l \in Int, g = k * h, h = l * g
  PROVE  g = h
<1>1. CASE g = 0
  BY <1>1
<1>2. CASE g # 0
  <2>1. 1 * g = (k * l) * g
    <3>1. k * (l * g) = (k * l) * g
      OBVIOUS
    <3>. QED BY <3>1
  <2>2. k * l = 1
    <3>1. k * l \in Int
      OBVIOUS
    <3>. QED BY <1>2, <2>1, <3>1, CancelFactor
  <2>3. k > 0 /\ l > 0
    <3>1. h # 0
      BY <1>2
    <3>. QED BY <1>2, <3>1
  <2>4. k = 1
    BY <2>2, <2>3
  <2>. QED BY <2>4
<1>. QED BY <1>1, <1>2

LEMMA GcdUnique ==
  ASSUME NEW a \in Nat, NEW b \in Nat, NEW g, NEW h, IsGcd(g, a, b), IsGcd(h, a, b)
  PROVE  g = h
<1>1. ASSUME NEW c, NEW d, IsGcd(c, a, b), IsGcd(d, a, b)
      PROVE  \E k \in Int : c = k * d
  <2>1. c \in Nat /\ d \in Nat
    BY <1>1 DEF IsGcd
  <2>2. PICK x \in Int, y \in Int : c = x * a + y * b
    BY <1>1 DEF IsGcd
  <2>3. PICK m \in Nat : a = m * d
    BY <1>1 DEF IsGcd
  <2>4. PICK n \in Nat : b = n * d
    BY <1>1 DEF IsGcd
  <2>5. c = (x * m + y * n) * d
    <3>1. x * (m * d) + y * (n * d) = (x * m + y * n) * d
      BY <2>1
    <3>. QED BY <2>2, <2>3, <2>4, <3>1
  <2>. QED BY <2>5
<1>2. PICK k \in Int : g = k * h
  BY <1>1
<1>3. PICK l \in Int : h = l * g
  BY <1>1
<1>. QED BY <1>2, <1>3, DivideEachOther DEF IsGcd

LEMMA GcdExists ==
  ASSUME NEW a \in Nat, NEW b \in Nat
  PROVE  \E g : IsGcd(g, a, b)
<1> DEFINE S == {n \in Nat : \A c \in 0..n : \A d \in Nat : \E g : IsGcd(g, d, c)}
<1>1. 0 \in S
  BY GcdOfZero
<1>2. ASSUME NEW n \in Nat, n \in S
      PROVE  n + 1 \in S
  <2> SUFFICES ASSUME NEW c \in 0..n + 1, NEW d \in Nat PROVE \E g : IsGcd(g, d, c)
    OBVIOUS
  <2>1. CASE c \in 0..n
    BY <1>2, <2>1
  <2>2. CASE c \notin 0..n
    <3>1. c = n + 1 /\ c \in Nat /\ c > 0
      BY <2>2
    <3>2. d % c \in 0..n
      BY <3>1, DivideRemain
    <3>3. PICK g : IsGcd(g, c, d % c)
      BY <1>2, <3>1, <3>2
    <3>. QED BY <3>1, <3>3, GcdOfRemainder
  <2>. QED BY <2>1, <2>2
<1> HIDE DEF S
<1>3. b \in S
  BY <1>1, <1>2, InductNat
<1>. QED BY <1>3 DEF S

\* The recursive function exists: the greatest common divisors are one.
LEMMA GcdEquation ==
  /\ Gcd = [p \in Nat \X Nat |-> IF p[2] = 0 THEN p[1] ELSE Gcd[<<p[2], p[1] % p[2]>>]]
  /\ \A a, b \in Nat : Gcd[<<a, b>>] = IF b = 0 THEN a ELSE Gcd[<<b, a % b>>]
<1> DEFINE f == [p \in Nat \X Nat |-> CHOOSE g : IsGcd(g, p[1], p[2])]
<1>1. ASSUME NEW a \in Nat, NEW b \in Nat
      PROVE  f[<<a, b>>] = IF b = 0 THEN a ELSE f[<<b, a % b>>]
  <2>1. IsGcd(f[<<a, b>>], a, b)
    BY GcdExists
  <2>2. CASE b = 0
    BY <2>1, <2>2, GcdOfZero, GcdUnique
  <2>3. CASE b # 0
    <3>1. b > 0 /\ a % b \in Nat
      BY <2>3, DivideRemain
    <3>2. IsGcd(f[<<b, a % b>>], b, a % b)
      BY <3>1, GcdExists
    <3>3. IsGcd(f[<<b, a % b>>], a, b)
      BY <3>1, <3>2, GcdOfRemainder
    <3> HIDE DEF f
    <3>. QED BY <2>1, <2>3, <3>3, GcdUnique
  <2>. QED BY <2>2, <2>3
<1>2. f = [p \in Nat \X Nat |-> IF p[2] = 0 THEN p[1] ELSE f[<<p[2], p[1] % p[2]>>]]
  <2>1. ASSUME NEW p \in Nat \X Nat
        PROVE  f[p] = IF p[2] = 0 THEN p[1] ELSE f[<<p[2], p[1] % p[2]>>]
    <3>1. p = <<p[1], p[2]>> /\ p[1] \in Nat /\ p[2] \in Nat
      OBVIOUS
    <3> HIDE DEF f
    <3>. QED BY <1>1, <3>1
  <2>2. f = [p \in Nat \X Nat |-> f[p]]
    OBVIOUS
  <2> HIDE DEF f
  <2>. QED BY <2>1, <2>2
<1> HIDE DEF f
<1>3. Gcd = [p \in Nat \X Nat |-> IF p[2] = 0 THEN p[1] ELSE Gcd[<<p[2], p[1] % p[2]>>]]
  BY <1>2 DEF Gcd
<1>. QED BY <1>3

LEMMA GcdIs ==
  ASSUME NEW a \in Nat, NEW b \in Nat
  PROVE  IsGcd(Gcd[<<a, b>>], a, b)
<1> DEFINE S == {n \in Nat : \A c \in 0..n : \A d \in Nat : IsGcd(Gcd[<<d, c>>], d, c)}
<1>1. 0 \in S
  BY GcdOfZero, GcdEquation
<1>2. ASSUME NEW n \in Nat, n \in S
      PROVE  n + 1 \in S
  <2> SUFFICES ASSUME NEW c \in 0..n + 1, NEW d \in Nat PROVE IsGcd(Gcd[<<d, c>>], d, c)
    OBVIOUS
  <2>1. CASE c \in 0..n
    BY <1>2, <2>1
  <2>2. CASE c \notin 0..n
    <3>1. c = n + 1 /\ c \in Nat /\ c > 0
      BY <2>2
    <3>2. d % c \in 0..n /\ d % c \in Nat
      BY <3>1, DivideRemain
    <3>3. IsGcd(Gcd[<<c, d % c>>], c, d % c)
      BY <1>2, <3>1, <3>2
    <3>4. Gcd[<<d, c>>] = Gcd[<<c, d % c>>]
      BY <3>1, GcdEquation
    <3>. QED BY <3>1, <3>3, <3>4, GcdOfRemainder
  <2>. QED BY <2>1, <2>2
<1> HIDE DEF S
<1>3. b \in S
  BY <1>1, <1>2, InductNat
<1>. QED BY <1>3 DEF S
-----------------------------------------------------------------------------
LEMMA DivideExactly ==
  ASSUME NEW q \in Int, NEW g \in Nat, g > 0
  PROVE  (q * g) \div g = q
<1> DEFINE m == q * g
           r == m \div g
           t == m % g
<1>1. m \in Int
  OBVIOUS
<1>2. r \in Int /\ t \in 0..g - 1 /\ m = r * g + t
  <2> HIDE DEF m
  <2>. QED BY <1>1
<1>3. t = (q - r) * g
  <2> HIDE DEF r, t
  <2>1. q * g = r * g + t
    BY <1>2
  <2>2. (q - r) * g = q * g - r * g
    BY <1>2
  <2>. QED BY <1>2, <2>1, <2>2
<1>4. q - r = 0
  <2> DEFINE u == q - r
  <2> HIDE DEF r, t, m
  <2>1. u \in Int /\ u * g \in 0..g - 1
    BY <1>2, <1>3
  <2> HIDE DEF u
  <2>2. u < 1 /\ u > -1
    BY <2>1
  <2>3. u = 0
    BY <2>1, <2>2
  <2>. QED BY <2>3 DEF u
<1> HIDE DEF r, t, m
<1>. QED BY <1>2, <1>4 DEF r, m

\* A fraction in lowest terms has the value it was made of.
LEMMA FractionIs ==
  ASSUME NEW n \in Int, NEW d \in Int, d # 0
  PROVE  /\ IsDecimal(Fraction(n, d))
         /\ Fraction(n, d)[1] * d = n * Fraction(n, d)[2]
<1> DEFINE a == Abs(n)
           b == Abs(d)
           g == Gcd[<<a, b>>]
           s == Signum(d)
<1>1. a \in Nat /\ b \in Nat /\ b # 0 /\ s \in {-1, 1} /\ s * d = b
  BY DEF Abs, Signum
<1>2. Fraction(n, d) = <<(s * n) \div g, b \div g>>
  BY DEF Fraction, FractionOf, Reduce, Pairs
<1>3. IsGcd(g, a, b)
  BY <1>1, GcdIs
<1>4. n = a \/ n = -a
  BY DEF Abs
<1> HIDE DEF a, b, g, s
<1>5. PICK k \in Nat : a = k * g
  BY <1>3 DEF IsGcd
<1>6. PICK l \in Nat : b = l * g
  BY <1>3 DEF IsGcd
<1>7. g \in Nat /\ g > 0
  BY <1>1, <1>3, <1>6 DEF IsGcd
<1>8. PICK j \in Int : s * n = j * g /\ Abs(j) = k
  <2>1. s * n = k * g \/ s * n = (-k) * g
    BY <1>1, <1>4, <1>5, <1>7
  <2>2. k \in Int /\ -k \in Int /\ Abs(k) = k /\ Abs(-k) = k
    BY DEF Abs
  <2>. QED BY <2>1, <2>2
<1>9. Fraction(n, d) = <<j, l>>
  BY <1>2, <1>6, <1>7, <1>8, DivideExactly
<1>10. IsGcd(1, k, l)
  <2>1. k = k * 1 /\ l = l * 1
    OBVIOUS
  <2>2. PICK x \in Int, y \in Int : g = x * a + y * b
    BY <1>3 DEF IsGcd
  <2>3. 1 * g = (x * k + y * l) * g
    <3>1. x * (k * g) + y * (l * g) = (x * k + y * l) * g
      BY <1>7
    <3>. QED BY <1>5, <1>6, <1>7, <2>2, <3>1
  <2>4. 1 = x * k + y * l
    <3>1. x * k + y * l \in Int /\ g \in Int /\ g # 0
      BY <1>7
    <3>. QED BY <2>3, <3>1, CancelFactor
  <2>. QED BY <2>1, <2>4 DEF IsGcd
<1>11. Gcd[<<k, l>>] = 1
  BY <1>10, GcdIs, GcdUnique
<1>12. l > 0
  BY <1>1, <1>6, <1>7
<1>13. j * d = n * l
  <2>1. (j * d) * g = (n * l) * g
    <3>1. (j * g) * d = (s * d) * n
      <4>1. (s * n) * d = (s * d) * n
        BY <1>1
      <4>. QED BY <1>8, <4>1
    <3>2. (s * d) * n = (l * g) * n
      BY <1>1, <1>6
    <3>3. (j * d) * g = (j * g) * d /\ (n * l) * g = (l * g) * n
      BY <1>7
    <3>. QED BY <3>1, <3>2, <3>3
  <2>2. j * d \in Int /\ n * l \in Int /\ g \in Int /\ g # 0
    BY <1>7
  <2>. QED BY <2>1, <2>2, CancelFactor
<1>. QED BY <1>8, <1>9, <1>11, <1>12, <1>13 DEF IsDecimal, Pairs

LEMMA DecimalParts ==
  ASSUME NEW a, IsDecimal(a)
  PROVE  /\ a = <<a[1], a[2]>> /\ a[1] \in Int /\ a[2] \in Nat /\ a[2] > 0 /\ a[2] # 0
         /\ a \in Pairs
         /\ \E x, y \in Int : 1 = x * a[1] + y * a[2]
<1>1. a = <<a[1], a[2]>> /\ a[1] \in Int /\ a[2] \in Int /\ a[2] > 0
  BY DEF IsDecimal, Pairs
<1>2. IsGcd(1, Abs(a[1]), a[2])
  <2>1. Abs(a[1]) \in Nat /\ a[2] \in Nat
    BY <1>1 DEF Abs
  <2>. QED BY <2>1, GcdIs DEF IsDecimal
<1>3. PICK x \in Int, y \in Int : 1 = x * Abs(a[1]) + y * a[2]
  BY <1>2 DEF IsGcd
<1>4. PICK z \in Int : z * a[1] = x * Abs(a[1])
  <2>1. x * a[1] = x * Abs(a[1]) \/ (-x) * a[1] = x * Abs(a[1])
    BY <1>1 DEF Abs
  <2>. QED BY <2>1
<1>. QED BY <1>1, <1>3, <1>4 DEF Pairs

\* Two decimals of the same value are the same.
LEMMA DecimalUnique ==
  ASSUME NEW a, NEW b, IsDecimal(a), IsDecimal(b), a[1] * b[2] = b[1] * a[2]
  PROVE  a = b
<1>1. ASSUME NEW n \in Int, NEW d \in Nat, NEW m \in Int, NEW e \in Nat, n * e = m * d,
             NEW x \in Int, NEW y \in Int, 1 = x * n + y * d
      PROVE  \E k \in Int : e = k * d
  <2>1. 1 * e = (x * n + y * d) * e
    BY <1>1
  <2>2. (x * n + y * d) * e = x * (n * e) + (y * e) * d
    OBVIOUS
  <2>3. x * (m * d) + (y * e) * d = (x * m + y * e) * d
    OBVIOUS
  <2>4. e = (x * m + y * e) * d
    BY <1>1, <2>1, <2>2, <2>3
  <2>. QED BY <2>4
<1>2. PICK k \in Int : b[2] = k * a[2]
  BY <1>1, DecimalParts
<1>3. b[1] * a[2] = a[1] * b[2]
  BY DecimalParts
<1>4. PICK l \in Int : a[2] = l * b[2]
  BY <1>1, <1>3, DecimalParts
<1>5. a[2] = b[2]
  BY <1>2, <1>4, DecimalParts, DivideEachOther
<1>6. a[1] = b[1]
  <2>1. a[1] \in Int /\ b[1] \in Int /\ a[2] \in Int /\ a[2] # 0 /\ a[1] * a[2] = b[1] * a[2]
    BY <1>5, DecimalParts
  <2>. QED BY <2>1, CancelFactor
<1>. QED BY <1>5, <1>6, DecimalParts

LEMMA FractionEqual ==
  ASSUME NEW n \in Int, NEW d \in Int, NEW m \in Int, NEW e \in Int, d # 0, e # 0,
         n * e = m * d
  PROVE  Fraction(n, d) = Fraction(m, e)
<1> DEFINE a == Fraction(n, d)
           b == Fraction(m, e)
<1>1. IsDecimal(a) /\ IsDecimal(b) /\ a[1] * d = n * a[2] /\ b[1] * e = m * b[2]
  BY FractionIs
<1> HIDE DEF a, b
<1>2. a[1] \in Int /\ a[2] \in Int /\ b[1] \in Int /\ b[2] \in Int
  BY <1>1, DecimalParts
<1>3. ASSUME NEW p \in Int, NEW q \in Int, NEW r \in Int, NEW s \in Int,
             p * d = n * q, r * e = m * s
      PROVE  p * s = r * q
  <2>1. (p * s) * (d * e) = (r * q) * (d * e)
    <3>1. (p * s) * (d * e) = (p * d) * (s * e)
      OBVIOUS
    <3>2. (n * q) * (s * e) = (n * e) * (q * s)
      OBVIOUS
    <3>3. (m * d) * (q * s) = (m * s) * (d * q)
      OBVIOUS
    <3>4. (r * e) * (d * q) = (r * q) * (d * e)
      OBVIOUS
    <3>. QED BY <1>3, <3>1, <3>2, <3>3, <3>4
  <2>2. p * s \in Int /\ r * q \in Int /\ d * e \in Int /\ d * e # 0
    OBVIOUS
  <2>. QED BY <2>1, <2>2, CancelFactor
<1>4. a[1] * b[2] = b[1] * a[2]
  BY <1>1, <1>2, <1>3
<1>5. a = b
  BY <1>1, <1>4, DecimalUnique
<1>. QED BY <1>5 DEF a, b

LEMMA DecimalFraction ==
  ASSUME NEW a, IsDecimal(a)
  PROVE  a = Fraction(a[1], a[2])
<1>1. a[1] \in Int /\ a[2] \in Int /\ a[2] # 0
  BY DecimalParts
<1>2. Fraction(a[1], a[2])[1] * a[2] = a[1] * Fraction(a[1], a[2])[2]
      /\ IsDecimal(Fraction(a[1], a[2]))
  BY <1>1, FractionIs
<1>. QED BY <1>2, DecimalUnique
-----------------------------------------------------------------------------
\* The operations on fractions, by the rules of school.
LEMMA PlusFraction ==
  ASSUME NEW n \in Int, NEW d \in Int, NEW m \in Int, NEW e \in Int, d # 0, e # 0
  PROVE  Fraction(n, d) ++ Fraction(m, e) = Fraction(n * e + m * d, d * e)
<1> DEFINE a == Fraction(n, d)
           b == Fraction(m, e)
<1>1. IsDecimal(a) /\ IsDecimal(b) /\ a[1] * d = n * a[2] /\ b[1] * e = m * b[2]
  BY FractionIs
<1> HIDE DEF a, b
<1>2. a ++ b = Fraction(a[1] * b[2] + b[1] * a[2], a[2] * b[2])
  BY <1>1, DecimalParts DEF ++, Plus
<1>3. ASSUME NEW p \in Int, NEW q \in Int, NEW r \in Int, NEW s \in Int, q # 0, s # 0,
             p * d = n * q, r * e = m * s
      PROVE  Fraction(p * s + r * q, q * s) = Fraction(n * e + m * d, d * e)
  <2>1. (p * s + r * q) * (d * e) = (n * e + m * d) * (q * s)
    <3>1. (p * s + r * q) * (d * e) = (p * d) * (s * e) + (r * e) * (q * d)
      OBVIOUS
    <3>2. (n * e + m * d) * (q * s) = (n * q) * (s * e) + (m * s) * (q * d)
      OBVIOUS
    <3>. QED BY <1>3, <3>1, <3>2
  <2>2. /\ p * s + r * q \in Int /\ n * e + m * d \in Int
        /\ q * s \in Int /\ d * e \in Int /\ q * s # 0 /\ d * e # 0
    BY <1>3
  <2>. QED BY <2>1, <2>2, FractionEqual
<1>4. a[1] \in Int /\ a[2] \in Int /\ a[2] # 0 /\ b[1] \in Int /\ b[2] \in Int /\ b[2] # 0
  BY <1>1, DecimalParts
<1>. QED BY <1>1, <1>2, <1>3, <1>4 DEF a, b

LEMMA TimesFraction ==
  ASSUME NEW n \in Int, NEW d \in Int, NEW m \in Int, NEW e \in Int, d # 0, e # 0
  PROVE  Fraction(n, d) ** Fraction(m, e) = Fraction(n * m, d * e)
<1> DEFINE a == Fraction(n, d)
           b == Fraction(m, e)
<1>1. IsDecimal(a) /\ IsDecimal(b) /\ a[1] * d = n * a[2] /\ b[1] * e = m * b[2]
  BY FractionIs
<1> HIDE DEF a, b
<1>2. a ** b = Fraction(a[1] * b[1], a[2] * b[2])
  BY <1>1, DecimalParts DEF **, Times
<1>3. ASSUME NEW p \in Int, NEW q \in Int, NEW r \in Int, NEW s \in Int, q # 0, s # 0,
             p * d = n * q, r * e = m * s
      PROVE  Fraction(p * r, q * s) = Fraction(n * m, d * e)
  <2>1. (p * r) * (d * e) = (n * m) * (q * s)
    <3>1. (p * r) * (d * e) = (p * d) * (r * e)
      OBVIOUS
    <3>2. (n * m) * (q * s) = (n * q) * (m * s)
      OBVIOUS
    <3>. QED BY <1>3, <3>1, <3>2
  <2>2. /\ p * r \in Int /\ n * m \in Int
        /\ q * s \in Int /\ d * e \in Int /\ q * s # 0 /\ d * e # 0
    BY <1>3
  <2>. QED BY <2>1, <2>2, FractionEqual
<1>4. a[1] \in Int /\ a[2] \in Int /\ a[2] # 0 /\ b[1] \in Int /\ b[2] \in Int /\ b[2] # 0
  BY <1>1, DecimalParts
<1>. QED BY <1>1, <1>2, <1>3, <1>4 DEF a, b

LEMMA FractionOfInt ==
  ASSUME NEW n \in Int
  PROVE  Dec(n) = Fraction(n, 1) /\ IsDecimal(Dec(n))
<1>1. Abs(n) \in Nat
  BY DEF Abs
<1>2. IsGcd(1, Abs(n), 1)
  <2>1. Abs(n) = Abs(n) * 1 /\ 1 = 1 * 1 /\ 1 = 0 * Abs(n) + 1 * 1
    BY <1>1
  <2>. QED BY <1>1, <2>1 DEF IsGcd
<1>3. Gcd[<<Abs(n), 1>>] = 1
  BY <1>1, <1>2, GcdIs, GcdUnique
<1>4. IsDecimal(Dec(n))
  BY <1>3 DEF IsDecimal, Dec, Pairs
<1>. QED BY <1>4, DecimalFraction DEF Dec

LEMMA NegateFraction ==
  ASSUME NEW a, IsDecimal(a)
  PROVE  Negate[a] = Fraction(-a[1], a[2]) /\ IsDecimal(Negate[a])
<1>1. Negate[a] = <<-a[1], a[2]>>
  BY DecimalParts DEF Negate
<1>2. IsDecimal(Negate[a])
  <2>1. a[1] \in Int /\ a[2] \in Int /\ a[2] > 0 /\ Gcd[<<Abs(a[1]), a[2]>>] = 1
    BY DEF IsDecimal, Pairs
  <2>2. Abs(-a[1]) = Abs(a[1]) /\ -a[1] \in Int
    BY <2>1 DEF Abs
  <2> DEFINE b == <<-a[1], a[2]>>
  <2>3. b \in Pairs /\ b[1] = -a[1] /\ b[2] = a[2]
    BY <2>1, <2>2 DEF Pairs
  <2> HIDE DEF b
  <2>4. IsDecimal(b)
    BY <2>1, <2>2, <2>3 DEF IsDecimal
  <2>. QED BY <1>1, <2>4 DEF b
<1>. QED BY <1>1, <1>2, DecimalFraction

\* The decimals are closed under the operations.
LEMMA DecimalClosed ==
  ASSUME NEW a, NEW b, IsDecimal(a), IsDecimal(b)
  PROVE  /\ IsDecimal(a ++ b) /\ IsDecimal(a -- b) /\ IsDecimal(a ** b)
         /\ b[1] # 0 => IsDecimal(a // b)
<1>1. ASSUME NEW c, IsDecimal(c)
      PROVE  IsDecimal(a ++ c) /\ IsDecimal(a ** c) /\ (c[1] # 0 => IsDecimal(a // c))
  <2>1. PICK n \in Int, d \in Int : d # 0 /\ a[1] = n /\ a[2] = d
    BY DecimalParts
  <2>2. PICK m \in Int, e \in Int : e # 0 /\ c[1] = m /\ c[2] = e
    BY <1>1, DecimalParts
  <2>3. /\ a ++ c = Fraction(n * e + m * d, d * e)
        /\ a ** c = Fraction(n * m, d * e)
        /\ a // c = Fraction(n * e, d * m)
    BY <1>1, <2>1, <2>2, DecimalParts DEF ++, Plus, **, Times, //, Over
  <2>4. /\ n * e + m * d \in Int /\ n * m \in Int /\ n * e \in Int /\ d * m \in Int
        /\ d * e \in Int /\ d * e # 0 /\ (m # 0 => d * m # 0)
    BY <2>1, <2>2
  <2>. QED BY <2>2, <2>3, <2>4, FractionIs
<1>2. IsDecimal(a -- b)
  <2>1. a -- b = a ++ Negate[b]
    BY DEF --, ++
  <2>. QED BY <1>1, <2>1, NegateFraction
<1>. QED BY <1>1, <1>2

\* Decimals are a field.
LEMMA DecimalPlus ==
  ASSUME NEW a, NEW b, NEW c, IsDecimal(a), IsDecimal(b), IsDecimal(c)
  PROVE  /\ a ++ b = b ++ a
         /\ (a ++ b) ++ c = a ++ (b ++ c)
         /\ a ++ Zero = a
         /\ a -- b = a ++ Negate[b]
         /\ a ++ Negate[a] = Zero
<1>1. PICK n \in Int, d \in Int : d # 0 /\ a = Fraction(n, d) /\ a[1] = n /\ a[2] = d
  BY DecimalParts, DecimalFraction
<1>2. PICK m \in Int, e \in Int : e # 0 /\ b = Fraction(m, e) /\ b[1] = m /\ b[2] = e
  BY DecimalParts, DecimalFraction
<1>3. PICK k \in Int, f \in Int : f # 0 /\ c = Fraction(k, f)
  BY DecimalParts, DecimalFraction
<1>4. d # 0 /\ e # 0 /\ f # 0
  BY <1>1, <1>2, <1>3
<1>5. LET x == Fraction(n, d)  y == Fraction(m, e)  z == Fraction(k, f)
             IN  /\ x ++ y = y ++ x
                 /\ (x ++ y) ++ z = x ++ (y ++ z)
                 /\ x ++ Dec(0) = x
                 /\ x ++ Fraction(-n, d) = Dec(0)
  <2>1. d * e \in Int /\ d * e # 0 /\ e * f \in Int /\ e * f # 0 /\ d * d \in Int /\ d * d # 0
    BY <1>4
  <2>2. Fraction(n, d) ++ Fraction(m, e) = Fraction(m, e) ++ Fraction(n, d)
    <3>1. n * e + m * d = m * d + n * e /\ d * e = e * d
      OBVIOUS
    <3>. QED BY <1>4, <3>1, PlusFraction
  <2>3. (Fraction(n, d) ++ Fraction(m, e)) ++ Fraction(k, f)
        = Fraction(n, d) ++ (Fraction(m, e) ++ Fraction(k, f))
    <3>1. Fraction(n * e + m * d, d * e) ++ Fraction(k, f)
          = Fraction((n * e + m * d) * f + k * (d * e), (d * e) * f)
      BY <1>4, <2>1, PlusFraction
    <3>2. Fraction(n, d) ++ Fraction(m * f + k * e, e * f)
          = Fraction(n * (e * f) + (m * f + k * e) * d, d * (e * f))
      BY <1>4, <2>1, PlusFraction
    <3>3. /\ (n * e + m * d) * f + k * (d * e) = n * (e * f) + (m * f + k * e) * d
          /\ (d * e) * f = d * (e * f)
      OBVIOUS
    <3>. QED BY <1>4, <3>1, <3>2, <3>3, PlusFraction
  <2>4. Fraction(n, d) ++ Dec(0) = Fraction(n, d)
    <3>1. Fraction(n, d) ++ Fraction(0, 1) = Fraction(n * 1 + 0 * d, d * 1)
      BY <1>4, PlusFraction
    <3>2. n * 1 + 0 * d = n /\ d * 1 = d
      OBVIOUS
    <3>. QED BY <3>1, <3>2, FractionOfInt
  <2>5. Fraction(n, d) ++ Fraction(-n, d) = Dec(0)
    <3>1. Fraction(n, d) ++ Fraction(-n, d) = Fraction(n * d + (-n) * d, d * d)
      BY <1>4, PlusFraction
    <3>2. n * d + (-n) * d = 0
      OBVIOUS
    <3>3. Fraction(0, d * d) = Fraction(0, 1)
      <4>1. 0 * 1 = 0 * (d * d)
        BY <2>1
      <4>. QED BY <2>1, <4>1, FractionEqual
    <3>. QED BY <3>1, <3>2, <3>3, FractionOfInt
  <2>. QED BY <2>2, <2>3, <2>4, <2>5
<1>6. /\ a ++ b = b ++ a
      /\ (a ++ b) ++ c = a ++ (b ++ c)
      /\ a ++ Dec(0) = a
      /\ a ++ Fraction(-a[1], a[2]) = Dec(0)
  BY <1>5, <1>1, <1>2, <1>3
<1>7. a -- b = a ++ Negate[b]
  BY DEF --, ++
<1>. QED BY <1>6, <1>7, NegateFraction DEF Zero

LEMMA DecimalTimes ==
  ASSUME NEW a, NEW b, NEW c, IsDecimal(a), IsDecimal(b), IsDecimal(c)
  PROVE  /\ a ** b = b ** a
         /\ (a ** b) ** c = a ** (b ** c)
         /\ a ** Dec(1) = a
         /\ a ** Zero = Zero
         /\ a ** (b ++ c) = (a ** b) ++ (a ** c)
         /\ Negate[a] = a ** Dec(-1)
         /\ b[1] # 0 => (a // b) ** b = a
<1>1. PICK n \in Int, d \in Int : d # 0 /\ a = Fraction(n, d) /\ a[1] = n /\ a[2] = d
  BY DecimalParts, DecimalFraction
<1>2. PICK m \in Int, e \in Int : e # 0 /\ b = Fraction(m, e) /\ b[1] = m /\ b[2] = e
  BY DecimalParts, DecimalFraction
<1>3. PICK k \in Int, f \in Int : f # 0 /\ c = Fraction(k, f)
  BY DecimalParts, DecimalFraction
<1>4. d # 0 /\ e # 0 /\ f # 0
  BY <1>1, <1>2, <1>3
<1>5. LET x == Fraction(n, d)  y == Fraction(m, e)  z == Fraction(k, f)
             IN  /\ x ** y = y ** x
                 /\ (x ** y) ** z = x ** (y ** z)
                 /\ x ** Dec(1) = x
                 /\ x ** Dec(0) = Dec(0)
                 /\ x ** (y ++ z) = (x ** y) ++ (x ** z)
                 /\ Fraction(-n, d) = x ** Dec(-1)
                 /\ m # 0 => Fraction(n * e, d * m) ** y = x
  <2>1. /\ d * e \in Int /\ d * e # 0 /\ e * f \in Int /\ e * f # 0
        /\ d * f \in Int /\ d * f # 0 /\ (d * e) * (d * f) \in Int /\ (d * e) * (d * f) # 0
        /\ d * (e * f) \in Int /\ d * (e * f) # 0
    BY <1>4
  <2>2. Fraction(n, d) ** Fraction(m, e) = Fraction(m, e) ** Fraction(n, d)
    <3>1. n * m = m * n /\ d * e = e * d
      OBVIOUS
    <3>. QED BY <1>4, <3>1, TimesFraction
  <2>3. (Fraction(n, d) ** Fraction(m, e)) ** Fraction(k, f)
        = Fraction(n, d) ** (Fraction(m, e) ** Fraction(k, f))
    <3>1. /\ Fraction(n * m, d * e) ** Fraction(k, f) = Fraction((n * m) * k, (d * e) * f)
          /\ Fraction(n, d) ** Fraction(m * k, e * f) = Fraction(n * (m * k), d * (e * f))
      <4> DEFINE u == n * m
                 v == d * e
                 w == m * k
                 z == e * f
      <4>1. u \in Int /\ v \in Int /\ v # 0 /\ w \in Int /\ z \in Int /\ z # 0
        BY <2>1
      <4> HIDE DEF u, v, w, z
      <4>2. /\ Fraction(u, v) ** Fraction(k, f) = Fraction(u * k, v * f)
            /\ Fraction(n, d) ** Fraction(w, z) = Fraction(n * w, d * z)
        BY <1>4, <4>1, TimesFraction
      <4>. QED BY <4>2 DEF u, v, w, z
    <3>2. (n * m) * k = n * (m * k) /\ (d * e) * f = d * (e * f)
      OBVIOUS
    <3>. QED BY <1>4, <3>1, <3>2, TimesFraction
  <2>4. Fraction(n, d) ** Dec(1) = Fraction(n, d)
    <3>1. Fraction(n, d) ** Fraction(1, 1) = Fraction(n * 1, d * 1)
      BY <1>4, TimesFraction
    <3>2. n * 1 = n /\ d * 1 = d
      OBVIOUS
    <3>. QED BY <3>1, <3>2, FractionOfInt
  <2>5. Fraction(n, d) ** Dec(0) = Dec(0)
    <3>1. Fraction(n, d) ** Fraction(0, 1) = Fraction(n * 0, d * 1)
      BY <1>4, TimesFraction
    <3>2. Fraction(n * 0, d * 1) = Fraction(0, 1)
      <4>1. n * 0 = 0 /\ d * 1 = d /\ 0 * 1 = 0 * d
        OBVIOUS
      <4>. QED BY <1>4, <4>1, FractionEqual
    <3>. QED BY <3>1, <3>2, FractionOfInt
  <2>6. Fraction(n, d) ** (Fraction(m, e) ++ Fraction(k, f))
        = (Fraction(n, d) ** Fraction(m, e)) ++ (Fraction(n, d) ** Fraction(k, f))
    <3>1. Fraction(n, d) ** Fraction(m * f + k * e, e * f)
          = Fraction(n * (m * f + k * e), d * (e * f))
      BY <1>4, <2>1, TimesFraction
    <3>2. Fraction(n * m, d * e) ++ Fraction(n * k, d * f)
          = Fraction((n * m) * (d * f) + (n * k) * (d * e), (d * e) * (d * f))
      BY <1>4, <2>1, PlusFraction
    <3>3. (n * (m * f + k * e)) * ((d * e) * (d * f))
          = ((n * m) * (d * f) + (n * k) * (d * e)) * (d * (e * f))
      <4>1. n * (m * f + k * e) = (n * m) * f + (n * k) * e
        OBVIOUS
      <4>2. (n * m) * (d * f) + (n * k) * (d * e) = ((n * m) * f + (n * k) * e) * d
        OBVIOUS
      <4>3. (d * e) * (d * f) = d * (d * (e * f))
        OBVIOUS
      <4> DEFINE u == (n * m) * f + (n * k) * e
                 v == d * (e * f)
      <4>4. u \in Int /\ v \in Int
        OBVIOUS
      <4> HIDE DEF u, v
      <4>5. u * (d * v) = (u * d) * v
        BY <4>4
      <4>. QED BY <4>1, <4>2, <4>3, <4>5 DEF u, v
    <3>4. Fraction(n * (m * f + k * e), d * (e * f))
          = Fraction((n * m) * (d * f) + (n * k) * (d * e), (d * e) * (d * f))
      BY <2>1, <3>3, FractionEqual
    <3>. QED BY <1>4, <3>1, <3>2, <3>4, PlusFraction, TimesFraction
  <2>7. Fraction(-n, d) = Fraction(n, d) ** Dec(-1)
    <3>1. Fraction(n, d) ** Fraction(-1, 1) = Fraction(n * (-1), d * 1)
      BY <1>4, TimesFraction
    <3>2. n * (-1) = -n /\ d * 1 = d
      OBVIOUS
    <3>. QED BY <3>1, <3>2, FractionOfInt
  <2>8. ASSUME m # 0
        PROVE  Fraction(n * e, d * m) ** Fraction(m, e) = Fraction(n, d)
    <3>1. d * m \in Int /\ d * m # 0 /\ (d * m) * e \in Int /\ (d * m) * e # 0
      BY <1>4, <2>8
    <3>2. Fraction(n * e, d * m) ** Fraction(m, e) = Fraction((n * e) * m, (d * m) * e)
      BY <1>4, <3>1, TimesFraction
    <3>3. ((n * e) * m) * d = n * ((d * m) * e)
      OBVIOUS
    <3>. QED BY <1>4, <3>1, <3>2, <3>3, FractionEqual
  <2>. QED BY <2>2, <2>3, <2>4, <2>5, <2>6, <2>7, <2>8
<1>6. /\ a ** b = b ** a
      /\ (a ** b) ** c = a ** (b ** c)
      /\ a ** Dec(1) = a
      /\ a ** Dec(0) = Dec(0)
      /\ a ** (b ++ c) = (a ** b) ++ (a ** c)
      /\ Fraction(-a[1], a[2]) = a ** Dec(-1)
      /\ b[1] # 0 => Fraction(a[1] * b[2], a[2] * b[1]) ** b = a
  BY <1>5, <1>1, <1>2, <1>3
<1>7. a // b = Fraction(a[1] * b[2], a[2] * b[1])
  BY DecimalParts DEF //, Over
<1>. QED BY <1>6, <1>7, NegateFraction DEF Zero

\* The integers among the decimals.
LEMMA DecOf ==
  ASSUME NEW m \in Int, NEW n \in Int
  PROVE  Dec(m) ++ Dec(n) = Dec(m + n) /\ Dec(m) ** Dec(n) = Dec(m * n)
<1>1. /\ Fraction(m, 1) ++ Fraction(n, 1) = Fraction(m * 1 + n * 1, 1 * 1)
      /\ Fraction(m, 1) ** Fraction(n, 1) = Fraction(m * n, 1 * 1)
  BY PlusFraction, TimesFraction
<1>2. m * 1 + n * 1 = m + n /\ 1 * 1 = 1 /\ m + n \in Int /\ m * n \in Int
  OBVIOUS
<1>. QED BY <1>1, <1>2, FractionOfInt
\* Four decimals added in another order.
LEMMA PlusSwap ==
  ASSUME NEW a, NEW b, NEW c, NEW d, IsDecimal(a), IsDecimal(b), IsDecimal(c), IsDecimal(d)
  PROVE  (a ++ b) ++ (c ++ d) = (a ++ c) ++ (b ++ d)
<1>1. IsDecimal(c ++ d) /\ IsDecimal(b ++ d)
  BY DecimalClosed
<1>2. (a ++ b) ++ (c ++ d) = a ++ (b ++ (c ++ d))
  BY <1>1, DecimalPlus
<1>3. b ++ (c ++ d) = (b ++ c) ++ d /\ (c ++ b) ++ d = c ++ (b ++ d) /\ b ++ c = c ++ b
  BY DecimalPlus
<1>4. (a ++ c) ++ (b ++ d) = a ++ (c ++ (b ++ d))
  BY <1>1, DecimalPlus
<1>. QED BY <1>2, <1>3, <1>4

\* A decimal times integers.
LEMMA TimesDec ==
  ASSUME NEW a, IsDecimal(a), NEW m \in Int
  PROVE  /\ IsDecimal(a ** Dec(m))
         /\ a ** Dec(0) = Zero
         /\ Negate[a] ** Dec(m) = a ** Dec(-m)
<1>1. IsDecimal(Dec(m)) /\ IsDecimal(Dec(-1)) /\ IsDecimal(Dec(0))
  BY FractionOfInt
<1>2. a ** Dec(0) = Zero
  BY <1>1, DecimalTimes DEF Zero
<1>3. Negate[a] ** Dec(m) = a ** Dec(-m)
  <2>1. Negate[a] = a ** Dec(-1)
    BY <1>1, DecimalTimes
  <2>2. (a ** Dec(-1)) ** Dec(m) = a ** (Dec(-1) ** Dec(m))
    BY <1>1, DecimalTimes
  <2>3. Dec(-1) ** Dec(m) = Dec(-m)
    <3>1. (-1) * m = -m
      OBVIOUS
    <3>. QED BY <3>1, DecOf
  <2>. QED BY <2>1, <2>2, <2>3
<1>. QED BY <1>1, <1>2, <1>3, DecimalClosed

LEMMA TimesDecSum ==
  ASSUME NEW a, IsDecimal(a), NEW m \in Int, NEW n \in Int
  PROVE  /\ (a ** Dec(m)) ++ (a ** Dec(n)) = a ** Dec(m + n)
         /\ (a ** Dec(m)) ** Dec(n) = a ** Dec(m * n)
<1>1. IsDecimal(Dec(m)) /\ IsDecimal(Dec(n))
  BY FractionOfInt
<1>2. Dec(m) ++ Dec(n) = Dec(m + n) /\ Dec(m) ** Dec(n) = Dec(m * n)
  BY DecOf
<1>. QED BY <1>1, <1>2, DecimalTimes

-----------------------------------------------------------------------------
\* The order of decimals, by the sign of a difference.
LEMMA FractionSign ==
  ASSUME NEW n \in Int, NEW d \in Int, d > 0
  PROVE  /\ IsDecimal(Fraction(n, d))
         /\ Fraction(n, d)[1] \in Int
         /\ Fraction(n, d)[1] >= 0 <=> n >= 0
<1> DEFINE m == Fraction(n, d)[1]
           e == Fraction(n, d)[2]
<1>1. IsDecimal(Fraction(n, d)) /\ m * d = n * e
  BY FractionIs
<1>2. m \in Int /\ e \in Int /\ e > 0
  BY <1>1 DEF IsDecimal, Pairs
<1> HIDE DEF m, e
<1>3. \A x, y \in Int : y > 0 => (x >= 0 => x * y >= 0) /\ (x < 0 => x * y < 0)
  OBVIOUS
<1>4. m >= 0 <=> n >= 0
  <2>1. (m >= 0 => m * d >= 0) /\ (m < 0 => m * d < 0)
    BY <1>2, <1>3
  <2>2. (n >= 0 => n * e >= 0) /\ (n < 0 => n * e < 0)
    BY <1>2, <1>3
  <2>. QED BY <1>1, <1>2, <2>1, <2>2
<1>. QED BY <1>1, <1>2, <1>4 DEF m

LEMMA SignOfSum ==
  ASSUME NEW u, NEW v, IsDecimal(u), IsDecimal(v)
  PROVE  /\ u[1] >= 0 /\ v[1] >= 0 => (u ++ v)[1] >= 0
         /\ u[1] < 0 /\ v[1] < 0 => (u ++ v)[1] < 0
<1>1. PICK n \in Int, d \in Int : d > 0 /\ u[1] = n /\ u[2] = d
  BY DecimalParts
<1>2. PICK m \in Int, e \in Int : e > 0 /\ v[1] = m /\ v[2] = e
  BY DecimalParts
<1>3. u ++ v = Fraction(n * e + m * d, d * e)
  BY <1>1, <1>2, DecimalParts DEF ++, Plus
<1>4. n * e + m * d \in Int /\ d * e \in Int /\ d * e > 0
  BY <1>1, <1>2
<1>5. (u ++ v)[1] \in Int /\ ((u ++ v)[1] >= 0 <=> n * e + m * d >= 0)
  BY <1>3, <1>4, FractionSign
<1>6. n >= 0 /\ m >= 0 => n * e + m * d >= 0
  <2>1. n >= 0 /\ m >= 0 => n * e >= 0 /\ m * d >= 0
    BY <1>1, <1>2
  <2>. QED BY <1>4, <2>1
<1>7. n < 0 /\ m < 0 => n * e + m * d < 0
  <2>1. n < 0 /\ m < 0 => n * e < 0 /\ m * d < 0
    BY <1>1, <1>2
  <2>. QED BY <1>4, <2>1
<1>. QED BY <1>1, <1>2, <1>4, <1>5, <1>6, <1>7

LEMMA SignOfMultiple ==
  ASSUME NEW u, IsDecimal(u), NEW k \in Nat, k > 0
  PROVE  (u ** Dec(k))[1] \in Int /\ ((u ** Dec(k))[1] >= 0 <=> u[1] >= 0)
<1>1. PICK n \in Int, d \in Int : d > 0 /\ u[1] = n /\ u[2] = d
  BY DecimalParts
<1>2. u ** Dec(k) = Fraction(n * k, d * 1)
  BY <1>1, DecimalParts DEF **, Times, Dec, Pairs
<1>3. n * k \in Int /\ d * 1 = d /\ (n * k >= 0 <=> n >= 0)
  BY <1>1
<1>. QED BY <1>1, <1>2, <1>3, FractionSign

LEMMA AtMostIs ==
  ASSUME NEW a, NEW b, IsDecimal(a), IsDecimal(b)
  PROVE  AtMost(a, b) <=> (b -- a)[1] >= 0
<1>1. PICK n \in Int, d \in Int : d > 0 /\ a[1] = n /\ a[2] = d
  BY DecimalParts
<1>2. PICK m \in Int, e \in Int : e > 0 /\ b[1] = m /\ b[2] = e
  BY DecimalParts
<1>3. Negate[a] = <<-n, d>> /\ Negate[a] \in Pairs
  BY <1>1, DecimalParts DEF Negate, Pairs
<1>4. b -- a = Fraction(m * d + (-n) * e, e * d)
  BY <1>1, <1>2, <1>3, DecimalParts DEF --, Plus
<1>5. m * d + (-n) * e \in Int /\ e * d \in Int /\ e * d > 0
      /\ (m * d + (-n) * e >= 0 <=> n * e <= m * d)
  BY <1>1, <1>2
<1>. QED BY <1>1, <1>2, <1>4, <1>5, FractionSign DEF AtMost

LEMMA AtMostOrders ==
  ASSUME NEW a, NEW b, NEW c, IsDecimal(a), IsDecimal(b), IsDecimal(c)
  PROVE  /\ AtMost(a, a)
         /\ AtMost(a, b) /\ AtMost(b, c) => AtMost(a, c)
<1>1. AtMost(a, a)
  BY DecimalParts DEF AtMost
<1>2. c -- a = (c -- b) ++ (b -- a)
  <2>1. IsDecimal(Negate[b]) /\ IsDecimal(Negate[a]) /\ IsDecimal(b ++ Negate[a])
        /\ IsDecimal(c -- b) /\ c -- b = c ++ Negate[b] /\ b -- a = b ++ Negate[a]
    BY ZenonT(60), NegateFraction, DecimalClosed, DecimalPlus
  <2>2. (c ++ Negate[b]) ++ (b ++ Negate[a]) = c ++ (Negate[b] ++ (b ++ Negate[a]))
    BY <2>1, DecimalPlus
  <2>3. Negate[b] ++ (b ++ Negate[a]) = (Negate[b] ++ b) ++ Negate[a]
    BY <2>1, DecimalPlus
  <2>4. Negate[b] ++ b = Zero
    BY <2>1, DecimalPlus
  <2>5. Zero ++ Negate[a] = Negate[a]
    <3>1. IsDecimal(Zero)
      BY FractionOfInt DEF Zero
    <3>. QED BY <2>1, <3>1, DecimalPlus
  <2>6. c -- a = c ++ Negate[a]
    BY DecimalPlus
  <2>. QED BY <2>1, <2>2, <2>3, <2>4, <2>5, <2>6
<1>3. IsDecimal(c -- b) /\ IsDecimal(b -- a)
  BY DecimalClosed
<1>4. (c -- b)[1] >= 0 /\ (b -- a)[1] >= 0 => (c -- a)[1] >= 0
  BY <1>2, <1>3, SignOfSum
<1>5. AtMost(a, b) /\ AtMost(b, c) => AtMost(a, c)
  BY <1>4, AtMostIs
<1>. QED BY <1>1, <1>5

\* A weighted average lies between what it is made of.
LEMMA AverageBetween ==
  ASSUME NEW e, NEW f, NEW v, IsDecimal(e), IsDecimal(f), IsDecimal(v),
         NEW a \in Nat, NEW b \in Nat, a > 0, b > 0,
         v ** Dec(a + b) = (e ** Dec(a)) ++ (f ** Dec(b))
  PROVE  /\ AtMost(e, v) \/ AtMost(f, v)
         /\ AtMost(v, e) \/ AtMost(v, f)
<1>1. ASSUME NEW p, NEW q, NEW r, NEW s, IsDecimal(p), IsDecimal(q), IsDecimal(r), IsDecimal(s),
             (p ** Dec(a)) ++ (q ** Dec(b)) = (r ** Dec(a)) ++ (s ** Dec(b))
      PROVE  AtMost(p, r) \/ AtMost(q, s)
  <2> DEFINE x == r -- p
             y == s -- q
             A == Dec(a)
             B == Dec(b)
  <2>1. IsDecimal(x) /\ IsDecimal(y) /\ IsDecimal(A) /\ IsDecimal(B)
    BY <1>1, DecimalClosed, FractionOfInt
  <2>2. x ++ p = r /\ y ++ q = s
    <3>1. ASSUME NEW g, NEW h, IsDecimal(g), IsDecimal(h)
          PROVE  (g -- h) ++ h = g
      <4>1. IsDecimal(Negate[h]) /\ g -- h = g ++ Negate[h]
        BY ZenonT(60), <3>1, NegateFraction, DecimalPlus
      <4>2. (g ++ Negate[h]) ++ h = g ++ (Negate[h] ++ h) /\ Negate[h] ++ h = h ++ Negate[h]
        BY <3>1, <4>1, DecimalPlus
      <4>3. h ++ Negate[h] = Zero /\ g ++ Zero = g
        BY <3>1, DecimalPlus
      <4>. QED BY <4>1, <4>2, <4>3
    <3>. QED BY <1>1, <3>1
  <2>3. /\ (x ** A)[1] \in Int /\ ((x ** A)[1] >= 0 <=> x[1] >= 0)
        /\ (y ** B)[1] \in Int /\ ((y ** B)[1] >= 0 <=> y[1] >= 0)
    BY <2>1, SignOfMultiple
  <2>4. (AtMost(p, r) <=> x[1] >= 0) /\ (AtMost(q, s) <=> y[1] >= 0)
    BY <1>1, AtMostIs
  <2>5. x[1] \in Int /\ y[1] \in Int
    BY <2>1, DecimalParts
  <2> HIDE DEF x, y, A, B
  <2>6. ASSUME NEW g, NEW h, NEW C, IsDecimal(g), IsDecimal(h), IsDecimal(C)
        PROVE  (g ++ h) ** C = (g ** C) ++ (h ** C)
    <3>1. IsDecimal(g ++ h)
      BY <2>6, DecimalClosed
    <3>2. (g ++ h) ** C = C ** (g ++ h) /\ g ** C = C ** g /\ h ** C = C ** h
      BY <2>6, <3>1, DecimalTimes
    <3>3. C ** (g ++ h) = (C ** g) ++ (C ** h)
      BY <2>6, DecimalTimes
    <3>. QED BY <3>2, <3>3
  <2> DEFINE xa == x ** A
             yb == y ** B
             z == (p ** A) ++ (q ** B)
  <2>7. /\ IsDecimal(xa) /\ IsDecimal(yb) /\ IsDecimal(z)
        /\ IsDecimal(p ** A) /\ IsDecimal(q ** B)
    BY <1>1, <2>1, DecimalClosed
  <2>8. r ** A = xa ++ (p ** A) /\ s ** B = yb ++ (q ** B)
    BY <1>1, <2>1, <2>2, <2>6
  <2>9. (xa ++ (p ** A)) ++ (yb ++ (q ** B)) = (xa ++ yb) ++ z
    BY <2>7, PlusSwap
  <2>10. (xa ++ yb) ++ z = z
    BY <1>1, <2>8, <2>9 DEF A, B
  <2>11. xa ++ yb = Zero
    <3> HIDE DEF xa, yb, z
    <3> DEFINE w == xa ++ yb
    <3>1. IsDecimal(w) /\ IsDecimal(Negate[z]) /\ z ++ Negate[z] = Zero
      BY <2>7, DecimalClosed, NegateFraction, DecimalPlus
    <3>2. w ++ z = z
      BY <2>10
    <3> HIDE DEF w
    <3>3. (w ++ z) ++ Negate[z] = w ++ (z ++ Negate[z]) /\ w ++ Zero = w
      BY <2>7, <3>1, DecimalPlus
    <3>. QED BY <3>1, <3>2, <3>3 DEF w
  <2>12. ~(xa[1] < 0 /\ yb[1] < 0)
    <3>1. Zero[1] = 0
      BY DEF Zero, Dec
    <3> HIDE DEF xa, yb
    <3>2. xa[1] < 0 /\ yb[1] < 0 => Zero[1] < 0
      BY <2>7, <2>11, SignOfSum
    <3>. QED BY <3>1, <3>2
  <2>. QED BY <2>3, <2>4, <2>5, <2>12
<1>2. v ** Dec(a + b) = (v ** Dec(a)) ++ (v ** Dec(b))
  BY TimesDecSum
<1>. QED BY <1>1, <1>2
-----------------------------------------------------------------------------
\* What it is to combine the values of a function over every part of a set.
Accumulates(g, D, plus, zero, f, S) ==
  /\ g \in [SUBSET S -> D]
  /\ g[{}] = zero
  /\ \A T \in SUBSET S : \A x \in S \ T : g[T \cup {x}] = plus[<<f[x], g[T]>>]

LEMMA AccumulationExists ==
  ASSUME NEW D, NEW zero \in D, NEW plus \in [D \X D -> D],
         \A a, b, c \in D : plus[<<a, plus[<<b, c>>]>>] = plus[<<b, plus[<<a, c>>]>>],
         NEW S, IsFiniteSet(S), NEW f, \A s \in S : f[s] \in D
  PROVE  \E g : Accumulates(g, D, plus, zero, f, S)
<1> DEFINE P == {U \in SUBSET S : \E g : Accumulates(g, D, plus, zero, f, U)}
<1>1. {} \in P
  <2> DEFINE g == [T \in SUBSET {} |-> zero]
  <2>1. Accumulates(g, D, plus, zero, f, {})
    BY DEF Accumulates
  <2>. QED BY <2>1
<1>2. ASSUME NEW U \in SUBSET S, NEW u \in S \ U, U \in P
      PROVE  U \cup {u} \in P
  <2>1. PICK g : Accumulates(g, D, plus, zero, f, U)
    BY <1>2
  <2> DEFINE V == U \cup {u}
             h == [T \in SUBSET V |->
                     IF u \in T THEN plus[<<f[u], g[T \ {u}]>>] ELSE g[T]]
  <2>2. \A T \in SUBSET V : T \ {u} \in SUBSET U /\ g[T \ {u}] \in D
    BY <2>1 DEF Accumulates
  <2>3. h \in [SUBSET V -> D]
    <3> SUFFICES ASSUME NEW T \in SUBSET V PROVE h[T] \in D
      OBVIOUS
    <3>1. f[u] \in D /\ g[T \ {u}] \in D
      BY <2>2
    <3>2. plus[<<f[u], g[T \ {u}]>>] \in D
      BY <3>1
    <3>3. u \notin T => T \ {u} = T
      OBVIOUS
    <3>. QED BY <3>1, <3>2, <3>3
  <2>4. h[{}] = zero
    BY <2>1 DEF Accumulates
  <2>5. ASSUME NEW T \in SUBSET V, NEW x \in V \ T
        PROVE  h[T \cup {x}] = plus[<<f[x], h[T]>>]
    <3>1. T \cup {x} \in SUBSET V
      OBVIOUS
    <3>2. CASE x = u
      <4>1. u \in T \cup {x} /\ (T \cup {x}) \ {u} = T /\ u \notin T
        BY <3>2
      <4>. QED BY <3>1, <3>2, <4>1
    <3>3. CASE x # u /\ u \notin T
      <4>1. u \notin T \cup {x} /\ T \in SUBSET U /\ x \in U \ T
        BY <3>3
      <4>2. g[T \cup {x}] = plus[<<f[x], g[T]>>]
        BY <2>1, <4>1 DEF Accumulates
      <4>. QED BY <3>1, <3>3, <4>1, <4>2
    <3>4. CASE x # u /\ u \in T
      <4> DEFINE R == T \ {u}
      <4>1. R \in SUBSET U /\ x \in U \ R /\ (T \cup {x}) \ {u} = R \cup {x}
        BY <3>4
      <4> HIDE DEF R
      <4>2. g[R \cup {x}] = plus[<<f[x], g[R]>>]
        BY <2>1, <4>1 DEF Accumulates
      <4>3. h[T \cup {x}] = plus[<<f[u], plus[<<f[x], g[R]>>]>>]
        BY <3>1, <3>4, <4>1, <4>2
      <4>4. h[T] = plus[<<f[u], g[R]>>]
        BY <3>4 DEF R
      <4>5. f[u] \in D /\ f[x] \in D /\ g[R] \in D
        BY <2>1, <4>1 DEF Accumulates
      <4> HIDE DEF h
      <4>. QED BY <4>3, <4>4, <4>5
    <3>. QED BY <3>2, <3>3, <3>4
  <2> HIDE DEF h
  <2>6. Accumulates(h, D, plus, zero, f, V)
    BY <2>3, <2>4, <2>5 DEF Accumulates
  <2>. QED BY <2>6
<1> HIDE DEF P
<1>3. S \in P
  BY <1>1, <1>2, InductFinite
<1>. QED BY <1>3 DEF P

\* What it is to combine the values in some order.
Iterates(h, D, plus, zero, f, S) ==
  /\ h[{}] = zero
  /\ \A T \in SUBSET S :
       T # {} => \E x \in T : h[T \ {x}] \in D => h[T] = plus[<<f[x], h[T \ {x}]>>]

\* An order in which a set is gone through makes no difference.
LEMMA AccumulationUnique ==
  ASSUME NEW D, NEW zero \in D, NEW plus \in [D \X D -> D], NEW S, IsFiniteSet(S), NEW f,
         NEW g, Accumulates(g, D, plus, zero, f, S), NEW h, Iterates(h, D, plus, zero, f, S)
  PROVE  h[S] = g[S]
<1> DEFINE N == {n \in Nat : \A T \in SUBSET S : Cardinality(T) = n => h[T] = g[T]}
<1>1. 0 \in N
  <2> SUFFICES ASSUME NEW T \in SUBSET S, Cardinality(T) = 0 PROVE h[T] = g[T]
    OBVIOUS
  <2>1. T = {}
    BY FS_Subset, FS_EmptySet
  <2>. QED BY <2>1 DEF Accumulates, Iterates
<1>2. ASSUME NEW n \in Nat, n \in N PROVE n + 1 \in N
  <2> SUFFICES ASSUME NEW T \in SUBSET S, Cardinality(T) = n + 1 PROVE h[T] = g[T]
    OBVIOUS
  <2>1. IsFiniteSet(T) /\ T # {}
    BY FS_Subset, FS_EmptySet
  <2>2. PICK x \in T : h[T \ {x}] \in D => h[T] = plus[<<f[x], h[T \ {x}]>>]
    BY <2>1 DEF Iterates
  <2>3. Cardinality(T \ {x}) = n
    <3>1. Cardinality(T \ {x}) = Cardinality(T) - 1
      BY <2>1, FS_RemoveElement
    <3>. QED BY <3>1
  <2> DEFINE R == T \ {x}
  <2>4. R \in SUBSET S /\ x \in S \ R /\ R \cup {x} = T
    OBVIOUS
  <2>5. h[R] = g[R] /\ g[R] \in D
    BY <1>2, <2>3, <2>4 DEF Accumulates
  <2>6. g[T] = plus[<<f[x], g[R]>>]
    BY <2>4 DEF Accumulates
  <2>. QED BY <2>2, <2>5, <2>6
<1> HIDE DEF N
<1>3. Nat \subseteq N
  BY <1>1, <1>2, InductNat
<1>4. Cardinality(S) \in N
  BY <1>3, FS_CardinalityType
<1>. QED BY <1>4 DEF N

-----------------------------------------------------------------------------
Decimals == {a \in Pairs : IsDecimal(a)}

LEMMA DecimalsAre == \A a : a \in Decimals <=> IsDecimal(a)
BY DEF Decimals, IsDecimal

DecimalPlusFunction == [p \in Decimals \X Decimals |-> p[1] ++ p[2]]

LEMMA SumOverIs ==
  ASSUME NEW S, IsFiniteSet(S), NEW f, \A s \in S : IsDecimal(f[s])
  PROVE  \E g : /\ Accumulates(g, Decimals, DecimalPlusFunction, Zero, f, S)
              /\ \A T \in SUBSET S : SumOver(f, T) = g[T]
<1> DEFINE plus == DecimalPlusFunction
<1>1. Zero \in Decimals /\ plus \in [Decimals \X Decimals -> Decimals]
      /\ \A s \in S : f[s] \in Decimals
  <2>1. Zero \in Decimals
    BY FractionOfInt, DecimalsAre DEF Zero
  <2>2. \A p \in Decimals \X Decimals : p[1] ++ p[2] \in Decimals
    BY DecimalClosed, DecimalsAre
  <2>. QED BY <2>1, <2>2, DecimalsAre DEF DecimalPlusFunction
<1>2. \A a, b, c \in Decimals : plus[<<a, plus[<<b, c>>]>>] = plus[<<b, plus[<<a, c>>]>>]
  <2> SUFFICES ASSUME NEW a \in Decimals, NEW b \in Decimals, NEW c \in Decimals
               PROVE  plus[<<a, plus[<<b, c>>]>>] = plus[<<b, plus[<<a, c>>]>>]
    OBVIOUS
  <2>1. /\ a ++ (b ++ c) = (a ++ b) ++ c /\ a ++ b = b ++ a
        /\ b ++ (a ++ c) = (b ++ a) ++ c
        /\ b ++ c \in Decimals /\ a ++ c \in Decimals
    BY DecimalPlus, DecimalsAre, DecimalClosed
  <2>2. plus[<<b, c>>] = b ++ c /\ plus[<<a, c>>] = a ++ c
    BY DEF DecimalPlusFunction
  <2>3. plus[<<a, b ++ c>>] = a ++ (b ++ c) /\ plus[<<b, a ++ c>>] = b ++ (a ++ c)
    BY <2>1 DEF DecimalPlusFunction
  <2>. QED BY <2>1, <2>2, <2>3
<1> HIDE DEF plus
<1>3. PICK g : Accumulates(g, Decimals, plus, Zero, f, S)
  BY <1>1, <1>2, AccumulationExists
<1>4. ASSUME NEW T \in SUBSET S
      PROVE  SumOver(f, T) = g[T]
  <2> DEFINE pick(s) == CHOOSE x \in s : TRUE
             iterates(h) ==
               h = [s \in SUBSET T |->
                      IF s = {} THEN Zero ELSE f[pick(s)] ++ h[s \ {pick(s)}]]
             part == [s \in SUBSET T |-> g[s]]
             iter == CHOOSE h : iterates(h)
  <2>1. IsFiniteSet(T) /\ part \in [SUBSET T -> Decimals]
        /\ Accumulates(part, Decimals, plus, Zero, f, T)
    <3>1. \A R \in SUBSET T : \A x \in T \ R : R \cup {x} \in SUBSET T /\ x \in S \ R
      OBVIOUS
    <3>. QED BY <1>3, <3>1, FS_Subset DEF Accumulates
  <2>2. ASSUME NEW a \in Decimals, NEW b \in Decimals PROVE plus[<<a, b>>] = a ++ b
    BY DEF plus, DecimalPlusFunction
  <2>3. \A s \in SUBSET T : s # {} => pick(s) \in s /\ f[pick(s)] \in Decimals
    BY <1>1
  <2>4. iterates(part)
    <3>1. \A s \in SUBSET T :
            part[s] = IF s = {} THEN Zero ELSE plus[<<f[pick(s)], part[s \ {pick(s)}]>>]
      <4> SUFFICES ASSUME NEW s \in SUBSET T
                   PROVE  part[s] = IF s = {} THEN Zero
                                    ELSE plus[<<f[pick(s)], part[s \ {pick(s)}]>>]
        OBVIOUS
      <4>1. s # {} => /\ s \ {pick(s)} \in SUBSET T /\ pick(s) \in T \ (s \ {pick(s)})
                      /\ (s \ {pick(s)}) \cup {pick(s)} = s
        BY <2>3
      <4> HIDE DEF part, pick
      <4>. QED BY <2>1, <4>1 DEF Accumulates
    <3>2. \A s \in SUBSET T : part[s \ {pick(s)}] \in Decimals
      BY <2>1
    <3>3. \A s \in SUBSET T :
            part[s] = IF s = {} THEN Zero ELSE f[pick(s)] ++ part[s \ {pick(s)}]
      <4> HIDE DEF part, pick
      <4>. QED BY <2>2, <2>3, <3>1, <3>2
    <3>4. part = [s \in SUBSET T |-> part[s]]
      OBVIOUS
    <3> HIDE DEF part, pick
    <3>. QED BY <3>3, <3>4
  <2>5. iterates(iter)
    <3> HIDE DEF iterates
    <3>. QED BY <2>4
  <2>6. SumOver(f, T) = iter[T]
    BY DEF SumOver, FoldFunctionOnSet, MapThenFoldSet
  <2>7. \A s \in SUBSET T :
          iter[s] = IF s = {} THEN Zero ELSE f[pick(s)] ++ iter[s \ {pick(s)}]
    <3> HIDE DEF iter, pick
    <3>. QED BY <2>5
  <2> HIDE DEF iter
  <2>8. \A s \in SUBSET T :
          s # {} => \E x \in s : iter[s \ {x}] \in Decimals =>
                                   iter[s] = plus[<<f[x], iter[s \ {x}]>>]
    <3> SUFFICES ASSUME NEW s \in SUBSET T, s # {}, iter[s \ {pick(s)}] \in Decimals
                 PROVE  iter[s] = plus[<<f[pick(s)], iter[s \ {pick(s)}]>>]
      BY ZenonT(60), <2>3
    <3> HIDE DEF pick
    <3>. QED BY <2>2, <2>3, <2>7
  <2>9. iter[{}] = Zero
    BY <2>7
  <2> HIDE DEF iterates, part, pick
  <2>10. iter[T] = part[T]
    <3>1. Zero \in Decimals /\ plus \in [Decimals \X Decimals -> Decimals]
      BY <1>1
    <3>2. IsFiniteSet(T) /\ Accumulates(part, Decimals, plus, Zero, f, T)
      BY <2>1
    <3>3. Iterates(iter, Decimals, plus, Zero, f, T)
      BY <2>8, <2>9 DEF Iterates
    <3>4. \A D, zero, pl, G, H :
              zero \in D /\ pl \in [D \X D -> D] /\ Accumulates(G, D, pl, zero, f, T)
              /\ Iterates(H, D, pl, zero, f, T) /\ IsFiniteSet(T) => H[T] = G[T]
      BY AccumulationUnique
    <3>5. \A G, H :
              Accumulates(G, Decimals, plus, Zero, f, T)
              /\ Iterates(H, Decimals, plus, Zero, f, T) => H[T] = G[T]
      BY SMTT(30), <3>1, <3>2, <3>4
    <3>. QED BY <3>2, <3>3, <3>5
  <2>. QED BY <2>6, <2>10 DEF part
<1>. QED BY <1>3, <1>4 DEF plus

LEMMA SumOverParts ==
  ASSUME NEW S, IsFiniteSet(S), NEW f, \A s \in S : IsDecimal(f[s])
  PROVE  /\ SumOver(f, {}) = Zero
         /\ IsDecimal(SumOver(f, S))
         /\ \A x \in S : /\ SumOver(f, S) = SumOver(f, S \ {x}) ++ f[x]
                         /\ IsDecimal(SumOver(f, S \ {x}))
<1>1. PICK g : /\ Accumulates(g, Decimals, DecimalPlusFunction, Zero, f, S)
               /\ \A T \in SUBSET S : SumOver(f, T) = g[T]
  BY SumOverIs
<1>2. \A T \in SUBSET S : IsDecimal(SumOver(f, T))
  BY <1>1, DecimalsAre DEF Accumulates
<1>3. ASSUME NEW x \in S
      PROVE  SumOver(f, S) = SumOver(f, S \ {x}) ++ f[x]
  <2>1. S \ {x} \in SUBSET S /\ x \in S \ (S \ {x}) /\ (S \ {x}) \cup {x} = S
    OBVIOUS
  <2> DEFINE T == S \ {x}
  <2> HIDE DEF T
  <2>2. g[T \cup {x}] = DecimalPlusFunction[<<f[x], g[T]>>]
    BY <1>1, <2>1 DEF Accumulates, T
  <2>3. f[x] \in Decimals /\ g[T] \in Decimals
    BY <1>1, <2>1, DecimalsAre DEF Accumulates, T
  <2>4. g[T \cup {x}] = f[x] ++ g[T]
    BY <2>2, <2>3 DEF DecimalPlusFunction
  <2>5. f[x] ++ g[T] = g[T] ++ f[x]
    BY <2>3, DecimalPlus, DecimalsAre
  <2>. QED BY <1>1, <2>1, <2>4, <2>5 DEF T
<1>4. SumOver(f, {}) = Zero
  BY <1>1 DEF Accumulates
<1>. QED BY <1>2, <1>3, <1>4

\* One more value.
LEMMA SumOverAdd ==
  ASSUME NEW S, IsFiniteSet(S), NEW x, x \notin S, NEW f, \A s \in S \cup {x} : IsDecimal(f[s])
  PROVE  SumOver(f, S \cup {x}) = SumOver(f, S) ++ f[x]
<1>1. IsFiniteSet(S \cup {x}) /\ (S \cup {x}) \ {x} = S /\ x \in S \cup {x}
  BY FS_AddElement
<1>. QED BY <1>1, SumOverParts

\* A sum depends on the values summed alone.
LEMMA SumOverSame ==
  ASSUME NEW S, IsFiniteSet(S), NEW f, NEW h,
         \A s \in S : IsDecimal(f[s]) /\ f[s] = h[s]
  PROVE  SumOver(f, S) = SumOver(h, S)
<1> DEFINE P == {T \in SUBSET S : SumOver(f, T) = SumOver(h, T)}
<1>1. {} \in P
  BY SumOverParts, FS_EmptySet
<1>2. ASSUME NEW T \in SUBSET S, NEW x \in S \ T, T \in P
      PROVE  T \cup {x} \in P
  <2>1. IsFiniteSet(T)
    BY FS_Subset
  <2>2. /\ SumOver(f, T \cup {x}) = SumOver(f, T) ++ f[x]
        /\ SumOver(h, T \cup {x}) = SumOver(h, T) ++ h[x]
    BY <2>1, SumOverAdd
  <2>. QED BY <1>2, <2>2
<1> HIDE DEF P
<1>3. S \in P
  BY <1>1, <1>2, InductFinite
<1>. QED BY <1>3 DEF P

\* Values of zero do not count.
LEMMA SumOverNonZero ==
  ASSUME NEW S, IsFiniteSet(S), NEW R \in SUBSET S, NEW f, \A s \in S : IsDecimal(f[s]),
         \A s \in S \ R : f[s] = Zero
  PROVE  SumOver(f, S) = SumOver(f, R)
<1> DEFINE P == {T \in SUBSET S : SumOver(f, T) = SumOver(f, T \cap R)}
<1>1. {} \in P
  <2>1. {} \cap R = {}
    OBVIOUS
  <2>. QED BY <2>1
<1>2. ASSUME NEW T \in SUBSET S, NEW x \in S \ T, T \in P
      PROVE  T \cup {x} \in P
  <2>1. IsFiniteSet(T) /\ IsFiniteSet(T \cap R)
    BY FS_Subset
  <2>2. SumOver(f, T \cup {x}) = SumOver(f, T) ++ f[x] /\ IsDecimal(SumOver(f, T))
    BY SMTT(30), <2>1, SumOverAdd, SumOverParts
  <2>3. CASE x \in R
    <3>1. (T \cup {x}) \cap R = (T \cap R) \cup {x} /\ x \notin T \cap R
      BY <2>3
    <3>2. SumOver(f, (T \cap R) \cup {x}) = SumOver(f, T \cap R) ++ f[x]
      BY <2>1, <3>1, SumOverAdd
    <3>. QED BY <1>2, <2>2, <3>1, <3>2
  <2>4. CASE x \notin R
    <3>1. (T \cup {x}) \cap R = T \cap R /\ f[x] = Zero
      BY <2>4
    <3>. QED BY <1>2, <2>2, <3>1, DecimalPlus
  <2>. QED BY <2>3, <2>4
<1> HIDE DEF P
<1>3. S \in P
  BY <1>1, <1>2, InductFinite
<1>4. S \cap R = R
  OBVIOUS
<1>. QED BY <1>3, <1>4 DEF P

\* The sum of sums.
LEMMA SumOverPlus ==
  ASSUME NEW S, IsFiniteSet(S), NEW f, NEW g, NEW h,
         \A s \in S : IsDecimal(f[s]) /\ IsDecimal(g[s]) /\ h[s] = f[s] ++ g[s]
  PROVE  SumOver(h, S) = SumOver(f, S) ++ SumOver(g, S)
<1>1. \A s \in S : IsDecimal(h[s])
  BY DecimalClosed
<1> DEFINE P == {T \in SUBSET S : SumOver(h, T) = SumOver(f, T) ++ SumOver(g, T)}
<1>2. {} \in P
  <2>1. SumOver(f, {}) = Zero /\ SumOver(g, {}) = Zero /\ SumOver(h, {}) = Zero
    BY SumOverParts, FS_EmptySet
  <2>2. Zero ++ Zero = Zero
    BY DecimalPlus, FractionOfInt DEF Zero
  <2>. QED BY <2>1, <2>2
<1>3. ASSUME NEW T \in SUBSET S, NEW x \in S \ T, T \in P
      PROVE  T \cup {x} \in P
  <2>1. IsFiniteSet(T)
    BY FS_Subset
  <2>2. /\ SumOver(f, T \cup {x}) = SumOver(f, T) ++ f[x]
        /\ SumOver(g, T \cup {x}) = SumOver(g, T) ++ g[x]
        /\ SumOver(h, T \cup {x}) = SumOver(h, T) ++ h[x]
    BY <1>1, <2>1, SumOverAdd
  <2>3. IsDecimal(SumOver(f, T)) /\ IsDecimal(SumOver(g, T))
    BY <2>1, SumOverParts
  <2>. QED BY <1>3, <2>2, <2>3, PlusSwap
<1> HIDE DEF P
<1>4. S \in P
  BY <1>2, <1>3, InductFinite
<1>. QED BY <1>4 DEF P

\* A sum whose function is given anew with one more value.
LEMMA SumOverGrows ==
  ASSUME NEW S, IsFiniteSet(S), NEW x, x \notin S, NEW f, NEW g, IsDecimal(g[x]),
         \A s \in S : IsDecimal(f[s]) /\ g[s] = f[s]
  PROVE  SumOver(g, S \cup {x}) = SumOver(f, S) ++ g[x]
<1>1. SumOver(g, S \cup {x}) = SumOver(g, S) ++ g[x]
  BY SumOverAdd
<1>2. SumOver(f, S) = SumOver(g, S)
  BY SumOverSame
<1>. QED BY <1>1, <1>2

\* A sum one value of which changes.
LEMMA SumOverChanges ==
  ASSUME NEW S, IsFiniteSet(S), NEW x \in S, NEW f, NEW g,
         \A s \in S : IsDecimal(f[s]) /\ IsDecimal(g[s]),
         \A s \in S \ {x} : g[s] = f[s]
  PROVE  \E rest : /\ IsDecimal(rest)
                   /\ SumOver(f, S) = rest ++ f[x]
                   /\ SumOver(g, S) = rest ++ g[x]
<1>1. IsFiniteSet(S \ {x})
  BY FS_Subset
<1>2. SumOver(f, S \ {x}) = SumOver(g, S \ {x})
  BY <1>1, SumOverSame
<1>3. /\ SumOver(f, S) = SumOver(f, S \ {x}) ++ f[x] /\ IsDecimal(SumOver(f, S \ {x}))
      /\ SumOver(g, S) = SumOver(g, S \ {x}) ++ g[x]
  BY SumOverParts
<1>. QED BY <1>2, <1>3

\* A place after those chosen is chosen last.
LEMMA ChosenNext ==
  ASSUME NEW S \in SUBSET Int, IsFiniteSet(S), NEW x \in Int, \A s \in S : s < x, NEW seq
  PROVE  /\ IsFiniteSet(S \cup {x})
         /\ Cardinality(S) \in Nat
         /\ Cardinality(S \cup {x}) = Cardinality(S) + 1
         /\ \A k \in 1..Cardinality(S) : Chosen(seq, S \cup {x})[k] = Chosen(seq, S)[k]
         /\ Chosen(seq, S \cup {x})[Cardinality(S) + 1] = seq[x]
<1> DEFINE c == Cardinality(S)
           T == S \cup {x}
<1>1. PICK p \in Bijection(1..c, S) :
        /\ \A k, l \in 1..c : k < l => p[k] < p[l]
        /\ \A k \in 1..c : Chosen(seq, S)[k] = seq[p[k]]
  BY ChosenIs
<1>2. c \in Nat
  BY FS_CardinalityType
<1> HIDE DEF c
<1> DEFINE q == [k \in 1..(c + 1) |-> IF k <= c THEN p[k] ELSE x]
<1>3. p \in [1..c -> S] /\ \A s \in S : \E k \in 1..c : p[k] = s
  BY <1>1 DEF Bijection, Injection, Surjection
<1>4. q \in [1..(c + 1) -> T]
  BY <1>2, <1>3
<1>5. ASSUME NEW k \in 1..(c + 1), NEW l \in 1..(c + 1), k < l
      PROVE  q[k] < q[l]
  <2>1. k \in 1..c /\ q[k] = p[k] /\ p[k] \in S
    BY <1>2, <1>3, <1>5
  <2>2. CASE l = c + 1
    <3>1. q[l] = x
      BY <1>2, <2>2
    <3>. QED BY <2>1, <3>1
  <2>3. CASE l # c + 1
    <3>1. l \in 1..c /\ q[l] = p[l]
      BY <1>2, <2>3
    <3>. QED BY <1>1, <1>5, <2>1, <3>1
  <2>. QED BY <2>2, <2>3
<1>6. ASSUME NEW t \in T
      PROVE  \E k \in 1..(c + 1) : q[k] = t
  <2>1. CASE t = x
    <3>1. c + 1 \in 1..(c + 1) /\ q[c + 1] = x
      BY <1>2
    <3>. QED BY <2>1, <3>1
  <2>2. CASE t # x
    <3>1. PICK k \in 1..c : p[k] = t
      BY <1>3, <2>2
    <3>2. k \in 1..(c + 1) /\ q[k] = t
      BY <1>2, <3>1
    <3>. QED BY <3>2
  <2>. QED BY <2>1, <2>2
<1>7. T \in SUBSET Int /\ c + 1 \in Nat
  BY <1>2
<1>8. \A k \in 1..c : k \in 1..(c + 1) /\ q[k] = p[k]
  BY <1>2
<1>9. c + 1 \in 1..(c + 1) /\ q[c + 1] = x
  BY <1>2
<1> HIDE DEF q, T
<1>10. \A k, l \in 1..(c + 1) : k # l => q[k] # q[l]
  <2> SUFFICES ASSUME NEW k \in 1..(c + 1), NEW l \in 1..(c + 1), k # l
               PROVE  q[k] # q[l]
    OBVIOUS
  <2>1. q[k] \in T /\ q[l] \in T
    BY <1>4
  <2>2. k \in Int /\ l \in Int
    BY <1>2
  <2>3. q[k] \in Int /\ q[l] \in Int
    BY <1>7, <2>1
  <2>. QED BY <1>5, <2>2, <2>3
<1>11. q \in Bijection(1..(c + 1), T)
  BY <1>4, <1>6, <1>10, Fun_IsBij
<1>12. /\ IsFiniteSet(T) /\ Cardinality(T) = c + 1
       /\ \A k \in 1..(c + 1) : Chosen(seq, T)[k] = seq[q[k]]
  <2> DEFINE d == c + 1
  <2>1. /\ T \in SUBSET Int /\ d \in Nat /\ q \in Bijection(1..d, T)
        /\ \A k, l \in 1..d : k < l => q[k] < q[l]
    BY <1>5, <1>7, <1>11
  <2> HIDE DEF d
  <2>2. /\ IsFiniteSet(T) /\ Cardinality(T) = d
        /\ \A k \in 1..d : Chosen(seq, T)[k] = seq[q[k]]
    BY ONLY <2>1, ChosenUnique
  <2>. QED BY <2>2 DEF d
<1>13. \A k \in 1..c : Chosen(seq, T)[k] = Chosen(seq, S)[k]
  <2> SUFFICES ASSUME NEW k \in 1..c PROVE Chosen(seq, T)[k] = Chosen(seq, S)[k]
    OBVIOUS
  <2>1. k \in 1..(c + 1) /\ q[k] = p[k]
    BY <1>8
  <2>. QED BY <1>1, <1>12, <2>1
<1>14. Chosen(seq, T)[c + 1] = seq[x]
  BY <1>9, <1>12
<1>. QED BY <1>2, <1>12, <1>13, <1>14 DEF T, c

\* A sum does not depend on where in a sequence its terms are.
LEMMA SumOverShift ==
  ASSUME NEW f, NEW g, NEW a \in Int, NEW n \in Nat,
         \A k \in 1..n : IsDecimal(f[k]) /\ g[a + k] = f[k]
  PROVE  /\ SumOver(g, (a + 1)..(a + n)) = SumOver(f, 1..n)
         /\ IsDecimal(SumOver(f, 1..n))
<1> DEFINE S == {m \in Nat : m <= n => /\ SumOver(g, (a + 1)..(a + m)) = SumOver(f, 1..m)
                                       /\ IsDecimal(SumOver(f, 1..m))}
<1>1. 0 \in S
  <2>1. (a + 1)..(a + 0) = {} /\ 1..0 = {}
    OBVIOUS
  <2>2. IsFiniteSet({}) /\ SumOver(f, {}) = Zero /\ SumOver(g, {}) = Zero
    BY FS_EmptySet, SumOverParts
  <2>3. IsDecimal(Zero)
    BY FractionOfInt DEF Zero
  <2>. QED BY <2>1, <2>2, <2>3
<1>2. ASSUME NEW m \in Nat, m \in S
      PROVE  m + 1 \in S
  <2> SUFFICES ASSUME m + 1 <= n
               PROVE  /\ SumOver(g, (a + 1)..(a + (m + 1))) = SumOver(f, 1..(m + 1))
                      /\ IsDecimal(SumOver(f, 1..(m + 1)))
    OBVIOUS
  <2>1. SumOver(g, (a + 1)..(a + m)) = SumOver(f, 1..m) /\ IsDecimal(SumOver(f, 1..m))
    BY <1>2
  <2>2. /\ 1..(m + 1) = (1..m) \cup {m + 1} /\ m + 1 \notin 1..m
        /\ (a + 1)..(a + (m + 1)) = ((a + 1)..(a + m)) \cup {a + (m + 1)}
        /\ a + (m + 1) \notin (a + 1)..(a + m)
    OBVIOUS
  <2> DEFINE A == 1..m
             B == (a + 1)..(a + m)
             x == m + 1
             y == a + (m + 1)
  <2>3. IsFiniteSet(A) /\ IsFiniteSet(B) /\ x \notin A /\ y \notin B
    <3>1. m \in Int /\ a + 1 \in Int /\ a + m \in Int
      OBVIOUS
    <3>2. IsFiniteSet(1..m) /\ IsFiniteSet((a + 1)..(a + m))
      <4>1. \A u, v \in Int : IsFiniteSet(u..v)
        BY ONLY FS_Interval
      <4> DEFINE u == a + 1
                 v == a + m
      <4>2. u \in Int /\ v \in Int /\ 1 \in Int
        BY <3>1
      <4> HIDE DEF u, v
      <4>3. IsFiniteSet(1..m) /\ IsFiniteSet(u..v)
        BY ONLY <3>1, <4>1, <4>2
      <4>. QED BY <4>3 DEF u, v
    <3>. QED BY <2>2, <3>2
  <2>4. \A k \in A \cup {x} : IsDecimal(f[k])
    OBVIOUS
  <2>5. ASSUME NEW k \in B \cup {y}
        PROVE  IsDecimal(g[k])
    <3> DEFINE j == k - a
    <3>1. j \in 1..n /\ a + j = k
      OBVIOUS
    <3> HIDE DEF j
    <3>2. IsDecimal(f[j]) /\ g[a + j] = f[j]
      BY <3>1
    <3>. QED BY <3>1, <3>2
  <2>6. x \in 1..n /\ a + x = y
    OBVIOUS
  <2>7. IsDecimal(f[x]) /\ g[y] = f[x]
    BY <2>6
  <2> HIDE DEF A, B, x, y
  <2>8. SumOver(f, A \cup {x}) = SumOver(f, A) ++ f[x]
    BY <2>3, <2>4, SumOverAdd
  <2>9. SumOver(g, B \cup {y}) = SumOver(g, B) ++ g[y]
    BY <2>3, <2>5, SumOverAdd
  <2>10. 1..(m + 1) = A \cup {x} /\ (a + 1)..(a + (m + 1)) = B \cup {y}
    BY <2>2 DEF A, B, x, y
  <2>11. SumOver(g, B) = SumOver(f, A) /\ IsDecimal(SumOver(f, A))
    BY <2>1 DEF A, B
  <2>12. 1..(m + 1) = A \cup {x}
    BY <2>10
  <2>13. IsDecimal(SumOver(f, A) ++ f[x])
    BY <2>7, <2>11, DecimalClosed
  <2>14. SumOver(f, A \cup {x}) = SumOver(g, B \cup {y}) /\ IsDecimal(SumOver(f, A \cup {x}))
    BY <2>7, <2>8, <2>9, <2>11, <2>13
  <2>. QED BY <2>10, <2>14
<1> HIDE DEF S
<1>3. n \in S
  BY <1>1, <1>2, InductNat
<1>. QED BY <1>3 DEF S

\* Two quotients compare as what is left of the cross products.
LEMMA QuotientsCompare ==
  ASSUME NEW a, NEW b, IsDecimal(a), IsDecimal(b), NEW m \in Nat, NEW n \in Nat, m > 0, n > 0
  PROVE  LET gap == (Dec(n) ** a) -- (Dec(m) ** b)
         IN  /\ gap[1] \in Int
             /\ AtMost(b // Dec(n), a // Dec(m)) <=> gap[1] >= 0
             /\ AtMost(a // Dec(m), b // Dec(n)) <=> gap[1] <= 0
<1> DEFINE x == a // Dec(m)
           y == b // Dec(n)
           gap == (Dec(n) ** a) -- (Dec(m) ** b)
           k == m * n
<1>1. IsDecimal(Dec(m)) /\ IsDecimal(Dec(n)) /\ Dec(m)[1] # 0 /\ Dec(n)[1] # 0
  BY FractionOfInt DEF Dec
<1>2. IsDecimal(x) /\ IsDecimal(y)
  BY <1>1, DecimalClosed
<1>3. x ** Dec(m) = a /\ y ** Dec(n) = b
  BY <1>1, DecimalTimes
<1>4. Dec(n) ** a = a ** Dec(n) /\ Dec(m) ** b = b ** Dec(m)
  BY <1>1, DecimalTimes
<1>5. k \in Nat /\ k > 0 /\ n * m = k
  OBVIOUS
<1> HIDE DEF x, y, k
<1>6. Dec(n) ** a = x ** Dec(k)
  <2>0. m \in Int /\ n \in Int
    OBVIOUS
  <2>1. (x ** Dec(m)) ** Dec(n) = x ** Dec(m * n)
    BY ONLY <1>2, <2>0, TimesDecSum
  <2>. QED BY <1>3, <1>4, <2>1 DEF k
<1>7. Dec(m) ** b = y ** Dec(k)
  <2>0. m \in Int /\ n \in Int
    OBVIOUS
  <2>1. (y ** Dec(n)) ** Dec(m) = y ** Dec(n * m)
    BY ONLY <1>2, <2>0, TimesDecSum
  <2>. QED BY <1>3, <1>4, <1>5, <2>1
<1>8. IsDecimal(x -- y) /\ IsDecimal(y -- x) /\ IsDecimal(Negate[y]) /\ IsDecimal(Negate[x])
  BY <1>2, DecimalClosed, NegateFraction
<1>9. IsDecimal(Dec(k)) /\ IsDecimal(x ** Dec(k)) /\ IsDecimal(y ** Dec(k))
  BY <1>2, <1>5, TimesDec, FractionOfInt
<1>10. gap = (x -- y) ** Dec(k)
  <2>1. gap = (x ** Dec(k)) ++ Negate[y ** Dec(k)]
    BY <1>6, <1>7, <1>9, DecimalPlus
  <2>2. Negate[y ** Dec(k)] = Negate[y] ** Dec(k)
    <3>1. Negate[y ** Dec(k)] = (y ** Dec(k)) ** Dec(-1)
      BY <1>9, DecimalTimes
    <3>2. (y ** Dec(k)) ** Dec(-1) = y ** Dec(-k)
      <4>1. k * (-1) = -k
        BY <1>5
      <4>2. k \in Int /\ -1 \in Int
        BY <1>5
      <4>3. (y ** Dec(k)) ** Dec(-1) = y ** Dec(k * (-1))
        BY <1>2, <4>2, TimesDecSum
      <4>. QED BY <4>1, <4>3
    <3>3. Negate[y] ** Dec(k) = y ** Dec(-k)
      BY <1>2, <1>5, TimesDec
    <3>. QED BY <3>1, <3>2, <3>3
  <2>3. (x ** Dec(k)) ++ (Negate[y] ** Dec(k)) = (x ++ Negate[y]) ** Dec(k)
    <3>1. Dec(k) ** (x ++ Negate[y]) = (Dec(k) ** x) ++ (Dec(k) ** Negate[y])
      BY <1>2, <1>8, <1>9, DecimalTimes
    <3>2. /\ Dec(k) ** x = x ** Dec(k)
          /\ Dec(k) ** Negate[y] = Negate[y] ** Dec(k)
      BY <1>2, <1>8, <1>9, DecimalTimes
    <3>3. IsDecimal(x ++ Negate[y])
      BY <1>2, <1>8, DecimalClosed
    <3>4. Dec(k) ** (x ++ Negate[y]) = (x ++ Negate[y]) ** Dec(k)
      BY <1>9, <3>3, DecimalTimes
    <3>. QED BY <3>1, <3>2, <3>4
  <2>4. x -- y = x ++ Negate[y]
    BY <1>2, DecimalPlus
  <2>. QED BY <2>1, <2>2, <2>3, <2>4
<1>11. gap[1] \in Int /\ (gap[1] >= 0 <=> (x -- y)[1] >= 0)
  BY <1>5, <1>8, <1>10, SignOfMultiple
<1>12. AtMost(y, x) <=> gap[1] >= 0
  BY <1>2, <1>11, AtMostIs
<1>13. gap[1] <= 0 <=> (y -- x)[1] >= 0
  <2> DEFINE h == (y -- x) ** Dec(k)
  <2>1. h = Negate[gap]
    <3>1. y -- x = Negate[x -- y]
      <4>1. Negate[x -- y] = (x -- y) ** Dec(-1)
        BY <1>8, DecimalTimes
      <4>2. x -- y = x ++ Negate[y] /\ y -- x = y ++ Negate[x]
        BY <1>2, DecimalPlus
      <4>3. IsDecimal(Dec(-1))
        BY FractionOfInt
      <4>4. Dec(-1) ** (x ++ Negate[y]) = (Dec(-1) ** x) ++ (Dec(-1) ** Negate[y])
        BY <1>2, <1>8, <4>3, DecimalTimes
      <4>5. /\ Dec(-1) ** x = x ** Dec(-1) /\ Dec(-1) ** Negate[y] = Negate[y] ** Dec(-1)
            /\ Dec(-1) ** (x -- y) = (x -- y) ** Dec(-1)
        BY <1>2, <1>8, <4>3, DecimalTimes
      <4>6. x ** Dec(-1) = Negate[x]
        BY <1>2, DecimalTimes
      <4>7. Negate[y] ** Dec(-1) = y
        <5>1. PICK z \in Int : z = -1 /\ -z = 1
          OBVIOUS
        <5>2. Negate[y] ** Dec(z) = y ** Dec(-z)
          BY <1>2, TimesDec
        <5>. QED BY <1>2, <5>1, <5>2, DecimalTimes
      <4>8. Negate[x] ++ y = y ++ Negate[x]
        BY <1>2, <1>8, DecimalPlus
      <4>. QED BY <4>1, <4>2, <4>4, <4>5, <4>6, <4>7, <4>8
    <3>2. Negate[gap] = gap ** Dec(-1)
      BY <1>8, <1>9, <1>10, DecimalTimes, DecimalClosed
    <3>3. gap ** Dec(-1) = (x -- y) ** Dec(k * (-1))
      BY <1>5, <1>8, <1>10, TimesDecSum
    <3>4. Negate[x -- y] ** Dec(k) = (x -- y) ** Dec(-k)
      BY <1>5, <1>8, TimesDec
    <3>5. k * (-1) = -k
      BY <1>5
    <3>. QED BY <3>1, <3>2, <3>3, <3>4, <3>5
  <2>2. IsDecimal(gap) /\ gap \in Pairs
    <3>1. IsDecimal(gap)
      BY <1>8, <1>9, <1>10, DecimalClosed
    <3>. QED BY <3>1 DEF IsDecimal
  <2>3. Negate[gap][1] = -gap[1]
    BY <2>2 DEF Negate
  <2>4. h[1] \in Int /\ (h[1] >= 0 <=> (y -- x)[1] >= 0)
    BY <1>5, <1>8, SignOfMultiple
  <2> HIDE DEF h, gap
  <2>. QED BY <1>11, <2>1, <2>3, <2>4
<1>14. AtMost(x, y) <=> gap[1] <= 0
  BY <1>2, <1>13, AtMostIs
<1>. QED BY <1>11, <1>12, <1>14 DEF x, y
-----------------------------------------------------------------------------
\* A loop over a set of numbers in their order, as the library's folds define
\* it: over sets, from the greatest element down.
Loops(h, step, first, f, n) ==
  \A T \in SUBSET (1..n) :
    h[T] = IF T = {} THEN first ELSE step[<<h[T \ {Max(T)}], f[Max(T)]>>]

LEMMA LoopExists ==
  ASSUME NEW A, NEW step, NEW first \in A, NEW n \in Nat, NEW f,
         \A a \in A : \A k \in 1..n : step[<<a, f[k]>>] \in A
  PROVE  \E h \in [SUBSET (1..n) -> A] : Loops(h, step, first, f, n)
<1> DEFINE Exists(m) == \E h \in [SUBSET (1..m) -> A] : Loops(h, step, first, f, m)
           P == {m \in Nat : m <= n => Exists(m)}
<1>1. 0 \in P
  <2> DEFINE h == [T \in SUBSET (1..0) |-> first]
  <2>1. h \in [SUBSET (1..0) -> A] /\ \A T \in SUBSET (1..0) : T = {} /\ h[T] = first
    OBVIOUS
  <2> HIDE DEF h
  <2>2. Exists(0)
    BY <2>1 DEF Loops
  <2> HIDE DEF Exists
  <2>. QED BY <2>2
<1>2. ASSUME NEW m \in Nat, m \in P PROVE m + 1 \in P
  <2> SUFFICES ASSUME m + 1 <= n PROVE Exists(m + 1)
    <3> HIDE DEF Exists
    <3>. QED OBVIOUS
  <2>0. Exists(m)
    <3> HIDE DEF Exists
    <3>. QED BY <1>2
  <2>1. PICK g \in [SUBSET (1..m) -> A] : Loops(g, step, first, f, m)
    BY <2>0
  <2> DEFINE D == 1..m
             E == 1..(m + 1)
             x == m + 1
             h == [T \in SUBSET E |-> IF x \in T THEN step[<<g[T \ {x}], f[x]>>] ELSE g[T]]
  <2>2. /\ E = D \cup {x} /\ x \notin D /\ E \subseteq Int /\ x \in Int
        /\ \A y \in E : y <= x
        /\ \A a \in A : step[<<a, f[x]>>] \in A
    OBVIOUS
  <2>3. /\ g \in [SUBSET D -> A]
        /\ \A T \in SUBSET D :
             g[T] = IF T = {} THEN first ELSE step[<<g[T \ {Max(T)}], f[Max(T)]>>]
    BY <2>1 DEF Loops
  <2> HIDE DEF D, E, x
  <2>4. \A T \in SUBSET E : T \ {x} \in SUBSET D
    BY <2>2
  <2>5. h \in [SUBSET E -> A]
    <3>1. ASSUME NEW T \in SUBSET E PROVE h[T] \in A
      <4>1. T \ {x} \in SUBSET D /\ (x \notin T => T \in SUBSET D)
        BY <2>2
      <4>2. g[T \ {x}] \in A /\ (x \notin T => g[T] \in A)
        BY <2>3, <4>1
      <4>. QED BY <2>2, <4>2
    <3>. QED BY <3>1
  <2>6. ASSUME NEW T \in SUBSET E, x \in T
        PROVE  h[T] = IF T = {} THEN first ELSE step[<<h[T \ {Max(T)}], f[Max(T)]>>]
    <3>1. T \subseteq Int /\ x \in T /\ \A y \in T : y <= x
      BY <2>2, <2>6
    <3>2. Max(T) = x
      BY <3>1, MaxIs
    <3>3. h[T \ {x}] = g[T \ {x}] /\ h[T] = step[<<g[T \ {x}], f[x]>>]
      BY <2>4, <2>6
    <3>. QED BY <2>6, <3>2, <3>3
  <2>7. ASSUME NEW T \in SUBSET E, x \notin T
        PROVE  h[T] = IF T = {} THEN first ELSE step[<<h[T \ {Max(T)}], f[Max(T)]>>]
    <3>1. T \in SUBSET D
      BY <2>2, <2>7
    <3>2. g[T] = IF T = {} THEN first ELSE step[<<g[T \ {Max(T)}], f[Max(T)]>>]
      BY <2>3, <3>1
    <3>3. h[T \ {Max(T)}] = g[T \ {Max(T)}] /\ h[T] = g[T]
      BY <2>7, <3>1
    <3>. QED BY <3>2, <3>3
  <2> HIDE DEF h
  <2>8. \A T \in SUBSET E :
          h[T] = IF T = {} THEN first ELSE step[<<h[T \ {Max(T)}], f[Max(T)]>>]
    BY <2>6, <2>7
  <2>9. E = 1..(m + 1)
    BY DEF E, x
  <2>10. Loops(h, step, first, f, m + 1)
    BY <2>8, <2>9 DEF Loops
  <2>. QED BY <2>5, <2>9, <2>10
<1>3. n \in P
  <2> HIDE DEF P
  <2>. QED BY <1>1, <1>2, InductNat
<1>4. Exists(n)
  <2> HIDE DEF Exists
  <2>. QED BY <1>3
<1>. QED BY <1>4

\* Which goes through the numbers one by one.
LEMMA LoopSteps ==
  \A step, first, f, h : \A n \in Nat :
    Loops(h, step, first, f, n) =>
      \A k \in 1..n : h[1..k] = step[<<h[1..(k - 1)], f[k]>>]
<1> SUFFICES ASSUME NEW step, NEW first, NEW f, NEW h, NEW n \in Nat,
                    Loops(h, step, first, f, n), NEW k \in 1..n
             PROVE  h[1..k] = step[<<h[1..(k - 1)], f[k]>>]
  OBVIOUS
<1>1. /\ 1..k \in SUBSET (1..n) /\ k \in 1..k /\ (1..k) \ {k} = 1..(k - 1)
      /\ 1..k \subseteq Int /\ \A y \in 1..k : y <= k
  OBVIOUS
<1> DEFINE T == 1..k
           R == 1..(k - 1)
<1>2. T \in SUBSET (1..n) /\ k \in T /\ T \ {k} = R /\ T \subseteq Int /\ \A y \in T : y <= k
  BY <1>1
<1> HIDE DEF T, R
<1>3. Max(T) = k
  BY <1>2, MaxIs
<1>4. h[T] = step[<<h[R], f[k]>>]
  BY <1>2, <1>3 DEF Loops
<1>. QED BY <1>4 DEF T, R

\* Quotients with positive denominators compare like products across.
LEMMA CrossProducts ==
  ASSUME NEW x \in Int, NEW y \in Int, NEW p \in Int, p > 0
  PROVE  (x * p <= y * p) <=> (x <= y)
OBVIOUS

LEMMA FractionCompare ==
  ASSUME NEW n \in Int, NEW d \in Int, NEW m \in Int, NEW e \in Int, d > 0, e > 0
  PROVE  AtMost(Fraction(n, d), Fraction(m, e)) <=> n * e <= m * d
<1>0. d # 0 /\ e # 0
  OBVIOUS
<1> DEFINE a == Fraction(n, d)
           b == Fraction(m, e)
<1>8. IsDecimal(a) /\ a[1] * d = n * a[2]
  BY <1>0, FractionIs
<1>9. IsDecimal(b) /\ b[1] * e = m * b[2]
  BY <1>0, FractionIs
<1> HIDE DEF a, b
<1>1. PICK a1 \in Int, a2 \in Int : a2 > 0 /\ a[1] = a1 /\ a[2] = a2 /\ a1 * d = n * a2
  BY <1>8, DecimalParts
<1>2. PICK b1 \in Int, b2 \in Int : b2 > 0 /\ b[1] = b1 /\ b[2] = b2 /\ b1 * e = m * b2
  BY <1>9, DecimalParts
<1> DEFINE s == d * e
           t == a2 * b2
           x == a1 * b2
           y == b1 * a2
           u == n * e
           v == m * d
<1>3. s \in Int /\ t \in Int /\ s > 0 /\ t > 0 /\ x \in Int /\ y \in Int /\ u \in Int /\ v \in Int
  BY <1>1, <1>2
<1>4. x * s = u * t
  <2>1. x * s = (a1 * d) * (b2 * e)
    BY <1>1, <1>2
  <2>2. u * t = (n * a2) * (b2 * e)
    BY <1>1, <1>2
  <2>. QED BY <1>1, <2>1, <2>2
<1>5. y * s = v * t
  <2>1. y * s = (b1 * e) * (a2 * d)
    BY <1>1, <1>2
  <2>2. v * t = (m * b2) * (a2 * d)
    BY <1>1, <1>2
  <2>. QED BY <1>2, <2>1, <2>2
<1>6. AtMost(a, b) <=> x <= y
  BY <1>1, <1>2 DEF AtMost
<1> HIDE DEF s, t, x, y, u, v
<1>7. (x * s <= y * s <=> x <= y) /\ (u * t <= v * t <=> u <= v)
  BY <1>3, CrossProducts
<1>. QED BY <1>4, <1>5, <1>6, <1>7 DEF a, b, u, v

\* Decimals are in a total order, and equal ones are the same.
LEMMA AtMostTotal ==
  ASSUME NEW a, NEW b, IsDecimal(a), IsDecimal(b)
  PROVE  /\ AtMost(a, b) \/ AtMost(b, a)
         /\ AtMost(a, b) /\ AtMost(b, a) => a = b
<1>1. a[1] * b[2] \in Int /\ b[1] * a[2] \in Int
  BY DecimalParts
<1>. QED BY <1>1, DecimalUnique DEF AtMost

LEMMA ZeroIs ==
  ASSUME NEW a, IsDecimal(a)
  PROVE  a = Zero <=> a[1] = 0
<1>1. IsDecimal(Zero) /\ Zero[1] = 0 /\ Zero[2] = 1
  BY FractionOfInt DEF Zero, Dec
<1>2. a[1] = 0 => a[1] * Zero[2] = Zero[1] * a[2]
  BY <1>1, DecimalParts
<1>. QED BY <1>1, <1>2, DecimalUnique

\* Quotients one after the other.
LEMMA QuotientChain ==
  ASSUME NEW a, NEW b, NEW c, IsDecimal(a), IsDecimal(b), IsDecimal(c), a # Zero, b # Zero
  PROVE  /\ IsDecimal(b // a) /\ IsDecimal(c // a) /\ a // a = Dec(1)
         /\ (b // a) ** (c // b) = c // a
<1>1. PICK n \in Int, d \in Int : d # 0 /\ n # 0 /\ a[1] = n /\ a[2] = d
  BY DecimalParts, ZeroIs
<1>2. PICK m \in Int, e \in Int : e # 0 /\ m # 0 /\ b[1] = m /\ b[2] = e
  BY DecimalParts, ZeroIs
<1>3. PICK k \in Int, f \in Int : f # 0 /\ c[1] = k /\ c[2] = f
  BY DecimalParts
<1>4. /\ b // a = Fraction(m * d, e * n) /\ c // b = Fraction(k * e, f * m)
      /\ c // a = Fraction(k * d, f * n) /\ a // a = Fraction(n * d, d * n)
  BY <1>1, <1>2, <1>3, DecimalParts DEF //, Over
<1>5. /\ m * d \in Int /\ e * n \in Int /\ e * n # 0 /\ k * e \in Int /\ f * m \in Int /\ f * m # 0
      /\ k * d \in Int /\ f * n \in Int /\ f * n # 0 /\ n * d \in Int /\ d * n \in Int /\ d * n # 0
  BY <1>1, <1>2, <1>3
<1>6. Fraction(m * d, e * n) ** Fraction(k * e, f * m)
        = Fraction((m * d) * (k * e), (e * n) * (f * m))
  BY <1>5, TimesFraction
<1>7. Fraction((m * d) * (k * e), (e * n) * (f * m)) = Fraction(k * d, f * n)
  <2> DEFINE s == (m * d) * (k * e)
             t == (e * n) * (f * m)
             u == k * d
             v == f * n
             w == m * e
  <2>1. s = u * w /\ t = v * w /\ w \in Int /\ w # 0
    BY <1>1, <1>2, <1>3
  <2>2. u \in Int /\ v \in Int /\ v # 0
    BY <1>5
  <2>3. s \in Int /\ t \in Int
    BY <1>5
  <2> HIDE DEF s, t, u, v, w
  <2>4. t # 0 /\ s * v = u * t
    BY <2>1, <2>2
  <2>5. Fraction(s, t) = Fraction(u, v)
    BY <2>2, <2>3, <2>4, FractionEqual
  <2>. QED BY <2>5 DEF s, t, u, v
<1>8. Fraction(n * d, d * n) = Dec(1)
  <2> DEFINE s == n * d
  <2>1. d * n = s /\ s \in Int /\ s # 0
    BY <1>1, <1>5
  <2> HIDE DEF s
  <2>2. Fraction(s, s) = Fraction(1, 1)
    BY <2>1, FractionEqual
  <2>. QED BY <2>1, <2>2, FractionOfInt DEF s
<1>9. IsDecimal(b // a) /\ IsDecimal(c // a)
  BY <1>1, DecimalClosed
<1>. QED BY <1>4, <1>6, <1>7, <1>8, <1>9

LEMMA LessOnePlusOne ==
  ASSUME NEW x, IsDecimal(x)
  PROVE  IsDecimal(x -- Dec(1)) /\ Dec(1) ++ (x -- Dec(1)) = x
<1> DEFINE o == Dec(1)
<1>1. IsDecimal(o) /\ IsDecimal(Negate[o]) /\ IsDecimal(Zero)
  BY FractionOfInt, NegateFraction DEF Zero
<1> HIDE DEF o
<1>2. x -- o = x ++ Negate[o] /\ IsDecimal(x ++ Negate[o])
  BY <1>1, DecimalPlus, DecimalClosed
<1>3. o ++ (x ++ Negate[o]) = (x ++ Negate[o]) ++ o
  BY <1>1, <1>2, DecimalPlus
<1>4. (x ++ Negate[o]) ++ o = x ++ (Negate[o] ++ o)
  BY <1>1, DecimalPlus
<1>5. Negate[o] ++ o = Zero
  BY <1>1, DecimalPlus
<1>. QED BY <1>1, <1>2, <1>3, <1>4, <1>5, DecimalPlus DEF o

\* All places of a sequence chosen.
LEMMA ChosenAll ==
  ASSUME NEW n \in Nat, NEW seq
  PROVE  Chosen(seq, 1..n) = [k \in 1..n |-> seq[k]]
<1> DEFINE p == [k \in 1..n |-> k]
           S == 1..n
<1>1. p \in Bijection(1..n, S)
  BY DEF Bijection, Injection, Surjection, IsInjective
<1>2. \A k, l \in 1..n : k < l => p[k] < p[l]
  OBVIOUS
<1>3. S \in SUBSET Int /\ IsFiniteSet(S) /\ \A k \in 1..n : p[k] = k
  BY FS_Interval
<1> HIDE DEF p, S
<1>4. Cardinality(S) = n /\ \A k \in 1..n : Chosen(seq, S)[k] = seq[p[k]]
  BY <1>1, <1>2, <1>3, ChosenUnique
<1>5. Chosen(seq, S) = [k \in 1..Cardinality(S) |-> Chosen(seq, S)[k]]
  BY <1>3, ChosenIs
<1>. QED BY <1>3, <1>4, <1>5 DEF S

LEMMA SignumIs ==
  ASSUME NEW n \in Int
  PROVE  (Signum(n) > 0 <=> n > 0) /\ (Signum(n) < 0 <=> n < 0) /\ (Signum(n) >= 0 <=> n >= 0)
BY DEF Signum

LEMMA TimesCancel ==
  ASSUME NEW a, NEW b, NEW c, IsDecimal(a), IsDecimal(b), IsDecimal(c), c # Zero,
         a ** c = b ** c
  PROVE  a = b
<1> DEFINE o == Dec(1)
           i == o // c
<1>1. IsDecimal(o) /\ c[1] # 0
  BY FractionOfInt, ZeroIs
<1>2. IsDecimal(i) /\ i ** c = o
  BY <1>1, DecimalClosed, DecimalTimes
<1>3. a ** o = a /\ b ** o = b
  BY DecimalTimes
<1> HIDE DEF o, i
<1>4. c ** i = o
  BY <1>2, DecimalTimes
<1>5. (a ** c) ** i = a ** (c ** i) /\ (b ** c) ** i = b ** (c ** i)
  BY <1>2, DecimalTimes
<1>. QED BY <1>3, <1>4, <1>5

\* A part of the trades is less than all of them.
LEMMA RatioBelowOne ==
  ASSUME NEW m \in Nat, NEW n \in Nat, m < n
  PROVE  ~AtMost(Dec(1), Dec(m) // Dec(n))
<1>1. Dec(m) // Dec(n) = Fraction(m * 1, 1 * n)
  BY DEF //, Over, Dec, Pairs
<1>2. Dec(1) = Fraction(1, 1) /\ m * 1 = m /\ 1 * n = n
  BY FractionOfInt
<1>3. AtMost(Fraction(1, 1), Fraction(m, n)) <=> 1 * n <= m * 1
  BY FractionCompare
<1>. QED BY <1>1, <1>2, <1>3
-----------------------------------------------------------------------------
\* What comes before each of the members of D when they are sorted.
IsOrder(before, D) ==
  /\ before \in [D -> SUBSET D]
  /\ \A n \in D : n \notin before[n]
  /\ \A n \in D : \A m \in before[n] : before[m] \subseteq before[n]
  /\ \A m, n \in D : m = n \/ m \in before[n] \/ n \in before[m]

\* The member with k - 1 others before it is the k-th one.
LEMMA PlacesByRank ==
  ASSUME NEW D, IsFiniteSet(D), NEW before, IsOrder(before, D)
  PROVE  LET c == Cardinality(D)
             place == [k \in 1..c |-> CHOOSE n \in D : Cardinality(before[n]) = k - 1]
         IN  /\ place \in Bijection(1..c, D)
             /\ \A k, l \in 1..c : l < k => place[l] \in before[place[k]]
<1> DEFINE c == Cardinality(D)
           rank == [n \in D |-> Cardinality(before[n])]
           K == 1..c
           R == 0..c - 1
           place == [k \in K |-> CHOOSE n \in D : Cardinality(before[n]) = k - 1]
<1>1. c \in Nat /\ \A k \in K : k - 1 \in R /\ k \in Int
  <2>1. c \in Nat
    BY FS_CardinalityType
  <2> HIDE DEF c
  <2>. QED BY <2>1
<1>2. rank \in Bijection(D, R)
  BY RanksAreAll DEF IsOrder
<1>3. \A n \in D : rank[n] = Cardinality(before[n])
  OBVIOUS
<1> HIDE DEF rank, R, c
<1>4. rank \in [D -> R] /\ (\A m, n \in D : rank[m] = rank[n] => m = n)
      /\ \A t \in R : \E n \in D : rank[n] = t
  BY <1>2, Fun_BijectionProperties
<1>5. ASSUME NEW k \in K PROVE place[k] \in D /\ rank[place[k]] = k - 1
  <2>1. \E n \in D : Cardinality(before[n]) = k - 1
    <3>1. k - 1 \in R
      BY <1>1
    <3>. QED BY <1>3, <1>4, <3>1
  <2>2. place[k] \in D /\ Cardinality(before[place[k]]) = k - 1
    BY <2>1
  <2> HIDE DEF place
  <2>. QED BY <1>3, <2>2
<1>6. place \in [K -> D]
  BY <1>5
<1> HIDE DEF place
<1>7. \A k, l \in K : place[k] = place[l] => k = l
  <2> SUFFICES ASSUME NEW k \in K, NEW l \in K, place[k] = place[l] PROVE k = l
    OBVIOUS
  <2>1. k - 1 = l - 1 /\ k \in Int /\ l \in Int
    BY <1>1, <1>5
  <2>. QED BY <2>1
<1>8. ASSUME NEW n \in D PROVE \E k \in K : place[k] = n
  <2> DEFINE k == rank[n] + 1
  <2>1. rank[n] \in Int /\ k \in K /\ k - 1 = rank[n]
    <3>1. rank[n] \in R
      BY <1>4
    <3>. QED BY <1>1, <3>1 DEF R, K
  <2> HIDE DEF k, K
  <2>2. rank[place[k]] = rank[n] /\ place[k] \in D
    BY <1>5, <2>1
  <2>. QED BY <1>4, <2>1, <2>2
<1>9. place \in Bijection(K, D)
  <2> HIDE DEF K
  <2>. QED BY <1>6, <1>7, <1>8, Fun_IsBij
<1>10. ASSUME NEW k \in K, NEW l \in K, l < k
       PROVE  place[l] \in before[place[k]]
  <2> DEFINE m == place[l]
             n == place[k]
  <2>1. /\ m \in D /\ n \in D /\ Cardinality(before[m]) = l - 1 /\ Cardinality(before[n]) = k - 1
        /\ m # n /\ k \in Int /\ l \in Int
    BY <1>1, <1>3, <1>5, <1>7, <1>10
  <2> HIDE DEF m, n, K
  <2>2. ASSUME n \in before[m] PROVE FALSE
    <3>1. before[n] \in SUBSET before[m] /\ before[m] \in SUBSET D
      BY <2>1, <2>2 DEF IsOrder
    <3>2. IsFiniteSet(before[m])
      BY <3>1, FS_Subset
    <3>3. Cardinality(before[n]) <= Cardinality(before[m])
      BY <3>1, <3>2, FS_Subset
    <3>. QED BY <1>10, <2>1, <3>3
  <2>3. m \in before[n]
    BY <2>1, <2>2 DEF IsOrder
  <2>. QED BY <2>3 DEF m, n
<1>. QED BY <1>9, <1>10 DEF place, c

ImageOf(f, S) == {f[k] : k \in S}

\* As many members of a set as there are places they come from.
LEMMA ImageSize ==
  ASSUME NEW c \in Nat, NEW S, NEW f \in Bijection(1..c, S),
         NEW a \in Int, NEW b \in Int, a..b \subseteq 1..c, a <= b + 1
  PROVE  Cardinality(ImageOf(f, a..b)) = b - a + 1
<1> DEFINE D == 1..c
           R == a..b
           T == {f[k] : k \in R}
           g == [k \in R |-> f[k]]
<1>1. R \subseteq D /\ IsFiniteSet(R) /\ Cardinality(R) = b - a + 1
  <2>1. IsFiniteSet(R) /\ Cardinality(R) = IF a > b THEN 0 ELSE b - a + 1
    BY FS_Interval
  <2>2. (IF a > b THEN 0 ELSE b - a + 1) = b - a + 1
    OBVIOUS
  <2>. QED BY <2>1, <2>2
<1> HIDE DEF R, D
<1>2. \A x, y \in D : f[x] = f[y] => x = y
  BY Fun_BijectionProperties DEF D
<1>3. g \in [R -> T] /\ (\A x, y \in R : g[x] = g[y] => x = y) /\ \A t \in T : \E x \in R : g[x] = t
  BY <1>1, <1>2
<1> HIDE DEF g, T
<1>4. g \in Bijection(R, T)
  BY <1>3, Fun_IsBij
<1>5. ExistsBijection(R, T)
  BY <1>4 DEF ExistsBijection
<1>. QED BY <1>1, <1>5, FS_Bijection DEF R, T, ImageOf

\* Quotients by positive prices compare like the products across.
LEMMA QuotientsCross ==
  ASSUME NEW a, NEW b, NEW c, NEW d, IsDecimal(a), IsDecimal(b), IsDecimal(c), IsDecimal(d),
         b[1] > 0, d[1] > 0
  PROVE  AtMost(a // b, c // d) <=> AtMost(a ** d, c ** b)
<1>1. PICK a1 \in Int, a2 \in Int : a2 > 0 /\ a[1] = a1 /\ a[2] = a2
  BY DecimalParts
<1>2. PICK b1 \in Int, b2 \in Int : b2 > 0 /\ b1 > 0 /\ b[1] = b1 /\ b[2] = b2
  BY DecimalParts
<1>3. PICK c1 \in Int, c2 \in Int : c2 > 0 /\ c[1] = c1 /\ c[2] = c2
  BY DecimalParts
<1>4. PICK d1 \in Int, d2 \in Int : d2 > 0 /\ d1 > 0 /\ d[1] = d1 /\ d[2] = d2
  BY DecimalParts
<1>5. a \in Pairs /\ b \in Pairs /\ c \in Pairs /\ d \in Pairs
  BY DEF IsDecimal
<1>6. /\ a // b = Fraction(a1 * b2, a2 * b1) /\ c // d = Fraction(c1 * d2, c2 * d1)
      /\ a ** d = Fraction(a1 * d1, a2 * d2) /\ c ** b = Fraction(c1 * b1, c2 * b2)
  BY <1>1, <1>2, <1>3, <1>4, <1>5 DEF //, Over, **, Times
<1>7. /\ a2 * b1 > 0 /\ c2 * d1 > 0 /\ a2 * d2 > 0 /\ c2 * b2 > 0
  BY ONLY <1>1, <1>2, <1>3, <1>4
<1>8. /\ a1 * b2 \in Int /\ c1 * d2 \in Int /\ a1 * d1 \in Int /\ c1 * b1 \in Int
      /\ a2 * b1 \in Int /\ c2 * d1 \in Int /\ a2 * d2 \in Int /\ c2 * b2 \in Int
  OBVIOUS
<1>9. /\ AtMost(a // b, c // d) <=> (a1 * b2) * (c2 * d1) <= (c1 * d2) * (a2 * b1)
      /\ AtMost(a ** d, c ** b) <=> (a1 * d1) * (c2 * b2) <= (c1 * b1) * (a2 * d2)
  BY <1>6, <1>7, <1>8, FractionCompare
<1>10. (a1 * b2) * (c2 * d1) = (a1 * d1) * (c2 * b2)
  OBVIOUS
<1>11. (c1 * d2) * (a2 * b1) = (c1 * b1) * (a2 * d2)
  OBVIOUS
<1>. QED BY <1>9, <1>10, <1>11

\* Less one on both sides.
LEMMA LessOneCompare ==
  ASSUME NEW x, NEW y, IsDecimal(x), IsDecimal(y)
  PROVE  AtMost(x -- Dec(1), y -- Dec(1)) <=> AtMost(x, y)
<1> DEFINE o == Dec(1)
           n == Negate[o]
           u == x -- o
           v == y -- o
<1>1. IsDecimal(o) /\ IsDecimal(n) /\ IsDecimal(u) /\ IsDecimal(v)
  BY FractionOfInt, NegateFraction, LessOnePlusOne
<1>2. o ++ u = x /\ o ++ v = y
  BY LessOnePlusOne
<1> HIDE DEF o, u, v
<1>3. v -- u = y -- x
  <2> DEFINE p == Negate[u]
             q == Negate[x]
             r == Negate[o]
  <2>1. IsDecimal(p) /\ IsDecimal(q) /\ IsDecimal(r)
    BY <1>1, NegateFraction
  <2> HIDE DEF p, q, r
  <2>2. v -- u = v ++ p /\ y -- x = y ++ q /\ o ++ r = Zero /\ u ++ p = Zero /\ x ++ q = Zero
    <3>1. \A g, h : IsDecimal(g) /\ IsDecimal(h) =>
             g -- h = g ++ Negate[h] /\ g ++ Negate[g] = Zero
      BY DecimalPlus
    <3>. QED BY <1>1, <3>1, Zenon DEF p, q, r
  <2>3. p = o ++ q
    <3>1. IsDecimal(Zero) /\ p = p ++ Zero /\ IsDecimal(o ++ q)
      BY <1>1, <2>1, DecimalPlus, DecimalClosed, FractionOfInt DEF Zero
    <3>2. p ++ (x ++ q) = (p ++ x) ++ q
      BY <2>1, DecimalPlus
    <3>3. p ++ x = p ++ (u ++ o)
      BY <1>1, <1>2, DecimalPlus
    <3>4. p ++ (u ++ o) = (p ++ u) ++ o /\ p ++ u = u ++ p
      BY <1>1, <2>1, DecimalPlus
    <3>5. Zero ++ o = o
      BY <1>1, <3>1, DecimalPlus
    <3>. QED BY <2>2, <3>1, <3>2, <3>3, <3>4, <3>5
  <2>4. v ++ (o ++ q) = (v ++ o) ++ q /\ v ++ o = o ++ v
    BY <1>1, <2>1, DecimalPlus
  <2>. QED BY <1>2, <2>2, <2>3, <2>4
<1>4. AtMost(u, v) <=> (v -- u)[1] >= 0
  BY <1>1, AtMostIs
<1>5. AtMost(x, y) <=> (y -- x)[1] >= 0
  BY AtMostIs
<1>. QED BY <1>3, <1>4, <1>5 DEF u, v, o
=============================================================================
