----------------------------- MODULE ServicesProofs -----------------------------
(***************************************************************************)
(* Vector.Compare returns the relation of any two vectors, and that is a   *)
(* strict order of versions. Subscribers see every version of the          *)
(* configuration. The semaphore loses nothing of what is given back.       *)
(***************************************************************************)
EXTENDS MCServices, FiniteSetTheorems, SequenceTheorems, WellFoundedInduction, TLAPS

Vector(v) ==
    /\ v \in Seq(Counter)
    /\ \A i, j \in 1..Len(v) : i < j => v[i].id < v[j].id

\* A vector is a sequence of counters with rising identifiers.
LEMMA VectorsAreSorted == ASSUME NEW v \in Vectors PROVE Vector(v)
<1>1. PICK n \in 0..MaxLen : v \in [1..n -> Counter]
  BY DEF Vectors
<1>2. n \in Nat
  BY BoundsAssumption
<1>3. v \in Seq(Counter) /\ Len(v) = n
  BY <1>1, <1>2
<1> QED
  BY <1>3 DEF Vectors, Vector, IsSorted

\* What Values says of a counter that is there, and of one that is not.
LEMMA ValuePresent ==
    ASSUME NEW v, Vector(v), NEW k \in 1..Len(v)
    PROVE  v[k].id \in IDs /\ Values(v)[v[k].id] = v[k].value
<1>1. v[k] \in Counter
  BY DEF Vector
<1>2. v[k].id \in IDs
  BY <1>1 DEF Counter
<1> DEFINE j == CHOOSE m \in 1..Len(v) : v[m].id = v[k].id
<1>3. j \in 1..Len(v) /\ v[j].id = v[k].id
  OBVIOUS
<1>4. j = k
  <2>1. ~(j < k) /\ ~(k < j)
    <3>1. v[k].id \in Nat
      BY <1>2, IDsAssumption
    <3> QED
      BY <1>3, <3>1 DEF Vector
  <2> QED
    BY <1>3, <2>1
<1>5. Values(v)[v[k].id] = v[j].value
  BY <1>2 DEF Values
<1> QED
  BY <1>2, <1>4, <1>5

\* A device without a counter in a vector has the value 0 there.
LEMMA ValueAbsent ==
    ASSUME NEW v, NEW i \in IDs, \A k \in 1..Len(v) : v[k].id # i
    PROVE  Values(v)[i] = 0
  BY DEF Values

\* The values of a vector are natural numbers.
LEMMA ValuesAreNumbers ==
    ASSUME NEW v, Vector(v), NEW i \in IDs PROVE Values(v)[i] \in Nat
<1>1. CASE \E k \in 1..Len(v) : v[k].id = i
  <2>1. PICK k \in 1..Len(v) : v[k].id = i
    BY <1>1
  <2>2. v[k].value \in Nat
    <3>1. v[k] \in Counter
      BY DEF Vector
    <3> QED
      BY <3>1, BoundsAssumption DEF Counter
  <2> QED
    BY <2>1, <2>2, ValuePresent
<1>2. CASE \A k \in 1..Len(v) : v[k].id # i
  BY <1>2, ValueAbsent
<1> QED
  BY <1>1, <1>2

----------------------------------------------------------------------------
(* What Compare is of vectors whose differences are known.                 *)

\* Vectors that differ nowhere, or only one way.
LEMMA CompareOneSided ==
    ASSUME NEW x, NEW y,
           \A i \in DOMAIN x : x[i] \in Nat /\ y[i] \in Nat
    PROVE  LET D == Differing(x, y) IN
           /\ D = {} => Compare(x, y) = "Equal"
           /\ D # {} /\ (\A i \in D : x[i] > y[i]) => Compare(x, y) = "Greater"
           /\ D # {} /\ (\A i \in D : x[i] < y[i]) => Compare(x, y) = "Lesser"
<1> DEFINE D == Differing(x, y)
<1>1. \A i \in D : x[i] \in Nat /\ y[i] \in Nat
  BY DEF Differing
<1>2. CASE D = {}
  BY <1>2 DEF Compare
<1>3. CASE D # {}
  <2>1. PICK i \in D : TRUE
    BY <1>3
  <2>2. x[i] \in Nat /\ y[i] \in Nat
    BY <1>1, <2>1
  <2>3. ~((\A j \in D : x[j] > y[j]) /\ (\A j \in D : x[j] < y[j]))
    BY <2>1, <2>2
  <2> QED
    BY <1>3, <2>3 DEF Compare
<1> QED
  BY <1>2, <1>3

\* Vectors that differ both ways: the first difference says which way they are in conflict.
LEMMA CompareMixed ==
    ASSUME NEW x, NEW y,
           \A i \in DOMAIN x : i \in Nat /\ x[i] \in Nat /\ y[i] \in Nat,
           NEW f \in Differing(x, y), \A i \in Differing(x, y) : f <= i,
           NEW c \in Differing(x, y)
    PROVE  /\ x[f] > y[f] /\ x[c] < y[c] => Compare(x, y) = "ConcurrentGreater"
           /\ x[f] < y[f] /\ x[c] > y[c] => Compare(x, y) = "ConcurrentLesser"
<1> DEFINE D == Differing(x, y)
           first == CHOOSE i \in D : \A j \in D : i <= j
<1>1. \A i \in D : i \in Nat /\ x[i] \in Nat /\ y[i] \in Nat
  BY DEF Differing
<1>2. first = f
  <2>1. first \in D /\ \A j \in D : first <= j
    OBVIOUS
  <2> HIDE DEF first
  <2>2. first <= f /\ f <= first
    BY <2>1
  <2> QED
    BY <1>1, <2>1, <2>2
<1> HIDE DEF first
<1>3. D # {}
  OBVIOUS
<1>4. ASSUME x[f] > y[f], x[c] < y[c]
      PROVE  Compare(x, y) = "ConcurrentGreater"
  <2>1. ~(\A i \in D : x[i] > y[i]) /\ ~(\A i \in D : x[i] < y[i])
    BY <1>1, <1>4
  <2> QED
    BY <1>2, <1>3, <1>4, <2>1 DEF Compare, first
<1>5. ASSUME x[f] < y[f], x[c] > y[c]
      PROVE  Compare(x, y) = "ConcurrentLesser"
  <2>1. ~(\A i \in D : x[i] > y[i]) /\ ~(\A i \in D : x[i] < y[i])
    BY <1>1, <1>5
  <2>2. ~(x[f] > y[f])
    BY <1>1, <1>5
  <2> QED
    BY <1>2, <1>3, <2>1, <2>2 DEF Compare, first
<1> QED
  BY <1>4, <1>5

----------------------------------------------------------------------------
(* The counter that a turn looks at.                                       *)

Advanced(x, here) == IF here THEN x + 1 ELSE x

\* A turn of the loop looks at the smallest identifier that is still ahead, and steps over
\* it wherever it is.
LEMMA TurnTakesSmallest ==
    ASSUME TypeOK, InOrder, MoreA \/ MoreB
    PROVE  \E c \in Ahead :
            /\ Values(a)[c] = AValue /\ Values(b)[c] = BValue
            /\ \A i \in Ahead : c <= i
            /\ Both \/ OnlyA => MoreA /\ a[ai].id = c
            /\ Both \/ OnlyB => MoreB /\ b[bi].id = c
            /\ \A i \in IDs :
                (i \in Ahead /\ i # c) <=>
                \/ \E k \in Advanced(ai, Both \/ OnlyA)..Len(a) : a[k].id = i
                \/ \E k \in Advanced(bi, Both \/ OnlyB)..Len(b) : b[k].id = i
<1>1. Vector(a) /\ Vector(b)
  BY VectorsAreSorted DEF TypeOK
<1>2. /\ Len(a) \in Nat /\ Len(b) \in Nat
      /\ ai \in Nat /\ bi \in Nat /\ ai >= 1 /\ bi >= 1
  BY <1>1 DEF TypeOK, Vector
<1>3. /\ \A k \in 1..Len(a) : a[k].id \in Nat /\ a[k].id \in IDs
      /\ \A k \in 1..Len(b) : b[k].id \in Nat /\ b[k].id \in IDs
  BY <1>1, ValuePresent, IDsAssumption
<1>4. /\ \A k \in ai..Len(a) : k = ai \/ a[ai].id < a[k].id
      /\ \A k \in bi..Len(b) : k = bi \/ b[bi].id < b[k].id
  <2>1. ASSUME NEW k \in ai..Len(a), k # ai PROVE a[ai].id < a[k].id
    <3>1. ai \in 1..Len(a) /\ k \in 1..Len(a) /\ ai < k
      BY <1>2, <2>1
    <3> QED
      BY <1>1, <3>1 DEF Vector
  <2>2. ASSUME NEW k \in bi..Len(b), k # bi PROVE b[bi].id < b[k].id
    <3>1. bi \in 1..Len(b) /\ k \in 1..Len(b) /\ bi < k
      BY <1>2, <2>2
    <3> QED
      BY <1>1, <3>1 DEF Vector
  <2> QED
    BY <2>1, <2>2
<1>5. CASE Both
  <2> DEFINE c == a[ai].id
  <2>1. ai \in 1..Len(a) /\ bi \in 1..Len(b) /\ b[bi].id = c /\ ~OnlyA /\ ~OnlyB
    BY <1>2, <1>3, <1>5 DEF Both, MoreA, MoreB, OnlyA, OnlyB
  <2>2. c \in Ahead
    BY <1>2, <1>3, <2>1 DEF Ahead
  <2>3. Values(a)[c] = AValue /\ Values(b)[c] = BValue
    BY <1>1, <1>5, <2>1, ValuePresent DEF AValue, BValue
  <2>4. \A k \in 1..Len(a) : k \in ai + 1..Len(a) <=> k \in ai..Len(a) /\ k # ai
    BY <1>2
  <2>5. \A k \in 1..Len(b) : k \in bi + 1..Len(b) <=> k \in bi..Len(b) /\ k # bi
    BY <1>2
  <2>6. \A k \in ai + 1..Len(a) : k \in ai..Len(a) /\ k # ai
    BY <1>2
  <2>7. \A k \in bi + 1..Len(b) : k \in bi..Len(b) /\ k # bi
    BY <1>2
  <2>8. \A k \in ai..Len(a) : k = ai \/ k \in ai + 1..Len(a)
    BY <1>2
  <2>9. \A k \in bi..Len(b) : k = bi \/ k \in bi + 1..Len(b)
    BY <1>2
  <2>10. (\A k \in ai..Len(a) : a[k].id \in Nat) /\ (\A k \in bi..Len(b) : b[k].id \in Nat)
    BY <1>2, <1>3
  <2>11. c \in Nat
    BY <1>3, <2>1
  <2>12. \A i \in Ahead : c <= i
    <3>1. \A k \in ai..Len(a) : c <= a[k].id
      BY <1>4, <2>10, <2>11
    <3>2. \A k \in bi..Len(b) : c <= b[k].id
      BY <1>4, <2>1, <2>10, <2>11
    <3> HIDE DEF c
    <3> QED
      BY <3>1, <3>2 DEF Ahead
  <2>13. \A i \in IDs :
            (i \in Ahead /\ i # c) <=>
            \/ \E k \in ai + 1..Len(a) : a[k].id = i
            \/ \E k \in bi + 1..Len(b) : b[k].id = i
    BY <1>4, <2>1, <2>6, <2>7, <2>8, <2>9, <2>10, <2>11 DEF Ahead
  <2> QED
    BY <1>5, <2>1, <2>2, <2>3, <2>12, <2>13 DEF Both, MoreA, MoreB, Advanced
<1>6. CASE OnlyA
  <2> DEFINE c == a[ai].id
  <2>1. ai \in 1..Len(a) /\ ~Both /\ ~OnlyB
    BY <1>2, <1>3, <1>6 DEF Both, MoreA, MoreB, OnlyA, OnlyB
  <2>2. c \in Ahead /\ c \in Nat /\ c \in IDs
    BY <1>2, <1>3, <2>1 DEF Ahead
  <2>3. \A k \in bi..Len(b) : b[k].id \in Nat /\ c < b[k].id
    <3>1. ASSUME NEW k \in bi..Len(b) PROVE b[k].id \in Nat /\ c < b[k].id
      <4>1. bi \in 1..Len(b) /\ k \in 1..Len(b) /\ MoreB
        BY <1>2, <3>1 DEF MoreB
      <4>2. c < b[bi].id
        BY <1>6, <4>1 DEF OnlyA
      <4>3. b[bi].id \in Nat /\ b[k].id \in Nat
        BY <1>3, <4>1
      <4> QED
        BY <1>4, <2>2, <3>1, <4>2, <4>3
    <3> QED
      BY <3>1
  <2>4. \A k \in 1..Len(b) : b[k].id # c
    <3>1. ASSUME NEW k \in 1..Len(b) PROVE b[k].id # c
      <4>1. CASE k \in 1..bi - 1
        <5>1. b[k].id < c
          BY <2>2, <4>1 DEF InOrder
        <5> QED
          BY <1>3, <2>2, <5>1
      <4>2. CASE k \in bi..Len(b)
        BY <2>2, <2>3, <4>2
      <4> QED
        BY <1>2, <4>1, <4>2
    <3> QED
      BY <3>1
  <2>5. Values(a)[c] = AValue /\ Values(b)[c] = BValue
    BY <1>1, <1>6, <2>1, <2>2, <2>4, ValuePresent, ValueAbsent DEF AValue, BValue
  <2>6. \A k \in ai + 1..Len(a) : k \in ai..Len(a) /\ k # ai
    BY <1>2
  <2>7. \A k \in ai..Len(a) : k = ai \/ k \in ai + 1..Len(a)
    BY <1>2
  <2>8. \A k \in ai..Len(a) : a[k].id \in Nat
    BY <1>2, <1>3
  <2>9. \A i \in Ahead : c <= i
    <3>1. \A k \in ai..Len(a) : c <= a[k].id
      <4>1. c \in Nat
        BY <1>3, <2>2
      <4> QED
        BY <1>4, <2>8, <4>1
    <3>2. \A k \in bi..Len(b) : c <= b[k].id
      <4>1. c \in Nat /\ \A k \in bi..Len(b) : b[k].id \in Nat
        BY <1>2, <1>3, <2>2
      <4> HIDE DEF c
      <4> QED
        BY <2>3, <4>1
    <3> HIDE DEF c
    <3> QED
      BY <3>1, <3>2 DEF Ahead
  <2>10. \A i \in IDs :
            (i \in Ahead /\ i # c) <=>
            \/ \E k \in ai + 1..Len(a) : a[k].id = i
            \/ \E k \in bi..Len(b) : b[k].id = i
    BY <1>4, <2>2, <2>3, <2>6, <2>7, <2>8 DEF Ahead
  <2> QED
    BY <1>6, <2>1, <2>2, <2>5, <2>9, <2>10 DEF OnlyA, Advanced
<1>7. CASE OnlyB
  <2> DEFINE c == b[bi].id
  <2>1. bi \in 1..Len(b) /\ ~Both /\ ~OnlyA
    BY <1>2, <1>3, <1>7 DEF Both, MoreA, MoreB, OnlyA, OnlyB
  <2>2. c \in Ahead /\ c \in Nat /\ c \in IDs
    BY <1>2, <1>3, <2>1 DEF Ahead
  <2>3. \A k \in ai..Len(a) : a[k].id \in Nat /\ c < a[k].id
    <3>1. ASSUME NEW k \in ai..Len(a) PROVE a[k].id \in Nat /\ c < a[k].id
      <4>1. ai \in 1..Len(a) /\ k \in 1..Len(a) /\ MoreA
        BY <1>2, <3>1 DEF MoreA
      <4>2. c < a[ai].id
        BY <1>7, <4>1 DEF OnlyB
      <4>3. a[ai].id \in Nat /\ a[k].id \in Nat
        BY <1>3, <4>1
      <4> QED
        BY <1>4, <2>2, <3>1, <4>2, <4>3
    <3> QED
      BY <3>1
  <2>4. \A k \in 1..Len(a) : a[k].id # c
    <3>1. ASSUME NEW k \in 1..Len(a) PROVE a[k].id # c
      <4>1. CASE k \in 1..ai - 1
        <5>1. a[k].id < c
          BY <2>2, <4>1 DEF InOrder
        <5> QED
          BY <1>3, <2>2, <5>1
      <4>2. CASE k \in ai..Len(a)
        BY <2>2, <2>3, <4>2
      <4> QED
        BY <1>2, <4>1, <4>2
    <3> QED
      BY <3>1
  <2>5. Values(a)[c] = AValue /\ Values(b)[c] = BValue
    BY <1>1, <1>7, <2>1, <2>2, <2>4, ValuePresent, ValueAbsent DEF AValue, BValue
  <2>6. \A k \in bi + 1..Len(b) : k \in bi..Len(b) /\ k # bi
    BY <1>2
  <2>7. \A k \in bi..Len(b) : k = bi \/ k \in bi + 1..Len(b)
    BY <1>2
  <2>8. \A k \in bi..Len(b) : b[k].id \in Nat
    BY <1>2, <1>3
  <2>9. \A i \in Ahead : c <= i
    BY <1>4, <2>2, <2>3, <2>8 DEF Ahead
  <2>10. \A i \in IDs :
            (i \in Ahead /\ i # c) <=>
            \/ \E k \in ai..Len(a) : a[k].id = i
            \/ \E k \in bi + 1..Len(b) : b[k].id = i
    BY <1>4, <2>2, <2>3, <2>6, <2>7, <2>8 DEF Ahead
  <2> QED
    BY <1>7, <2>1, <2>2, <2>5, <2>9, <2>10 DEF OnlyB, Advanced
<1>8. Both \/ OnlyA \/ OnlyB
  <2>1. MoreA => ai \in 1..Len(a)
    BY <1>2 DEF MoreA
  <2>2. MoreB => bi \in 1..Len(b)
    BY <1>2 DEF MoreB
  <2>3. MoreA /\ MoreB => a[ai].id \in Nat /\ b[bi].id \in Nat
    BY <1>3, <2>1, <2>2
  <2> QED
    BY <2>3 DEF Both, OnlyA, OnlyB
<1> QED
  BY <1>5, <1>6, <1>7, <1>8

----------------------------------------------------------------------------
(* The loop.                                                               *)

\* Before the first turn nothing is behind.
LEMMA InitLoopInv == Init => LoopInv
<1> SUFFICES ASSUME Init PROVE LoopInv
  OBVIOUS
<1>1. Vector(a) /\ Vector(b)
  BY VectorsAreSorted DEF Init
<1>2. Len(a) \in Nat /\ Len(b) \in Nat
  BY <1>1 DEF Vector
<1>3. TypeOK
  <2>1. 1 \in 1..Len(a) + 1 /\ 1 \in 1..Len(b) + 1
    BY <1>2
  <2>2. a \in Vectors /\ b \in Vectors
    BY DEF Init
  <2> QED
    BY <2>1, <2>2 DEF Init, TypeOK, Results
<1>4. InOrder
  BY DEF Init, InOrder
<1>5. Behind = {}
  <2> SUFFICES ASSUME NEW i \in Behind PROVE FALSE
    OBVIOUS
  <2>1. i \in IDs /\ Values(a)[i] # Values(b)[i]
    BY DEF Behind, Differing, Values
  <2>2. (\E k \in 1..Len(a) : a[k].id = i) \/ (\E k \in 1..Len(b) : b[k].id = i)
    BY <2>1, ValueAbsent
  <2>3. i \in Ahead
    BY <2>1, <2>2 DEF Ahead, Init
  <2> QED
    BY <2>3 DEF Behind
<1>6. ResultSoFar
  BY <1>5 DEF Init, ResultSoFar
<1> QED
  BY <1>3, <1>4, <1>6 DEF Init, LoopInv, CompareIsRight

\* A counter behind comes before all that are ahead.
LEMMA BehindIsBefore ==
    ASSUME TypeOK, InOrder, NEW i \in Behind, NEW j \in Ahead PROVE i < j
<1>1. i \in IDs /\ Values(a)[i] # Values(b)[i] /\ i \notin Ahead
  BY DEF Behind, Differing, Values
<1>2. Vector(a) /\ Vector(b)
  BY VectorsAreSorted DEF TypeOK
<1>3. Len(a) \in Nat /\ Len(b) \in Nat /\ ai \in Nat /\ bi \in Nat
  BY <1>2 DEF TypeOK, Vector
<1>4. CASE \E k \in 1..Len(a) : a[k].id = i
  <2>1. PICK k \in 1..Len(a) : a[k].id = i
    BY <1>4
  <2>2. k \notin ai..Len(a)
    BY <1>1, <2>1 DEF Ahead
  <2>3. k \in 1..ai - 1
    BY <1>3, <2>2
  <2> QED
    BY <2>1, <2>3 DEF InOrder
<1>5. CASE \E k \in 1..Len(b) : b[k].id = i
  <2>1. PICK k \in 1..Len(b) : b[k].id = i
    BY <1>5
  <2>2. k \notin bi..Len(b)
    BY <1>1, <2>1 DEF Ahead
  <2>3. k \in 1..bi - 1
    BY <1>3, <2>2
  <2> QED
    BY <2>1, <2>3 DEF InOrder
<1> QED
  BY <1>1, <1>4, <1>5, ValueAbsent

\* A turn keeps the invariant: it returns, or it puts one counter behind.
LEMMA TurnKeepsLoopInv == LoopInv /\ Turn => LoopInv'
<1> SUFFICES ASSUME LoopInv, Turn PROVE LoopInv'
  OBVIOUS
<1> USE DEF LoopInv
<1>1. Vector(a) /\ Vector(b)
  BY VectorsAreSorted DEF TypeOK
<1>2. Len(a) \in Nat /\ Len(b) \in Nat /\ ai \in Nat /\ bi \in Nat
  BY <1>1 DEF TypeOK, Vector
<1>3. a' = a /\ b' = b /\ done = FALSE
  BY DEF Turn, TypeOK
<1>4. PICK c \in Ahead :
        /\ Values(a)[c] = AValue /\ Values(b)[c] = BValue
        /\ \A i \in Ahead : c <= i
        /\ Both \/ OnlyA => MoreA /\ a[ai].id = c
        /\ Both \/ OnlyB => MoreB /\ b[bi].id = c
        /\ \A i \in IDs :
            (i \in Ahead /\ i # c) <=>
            \/ \E k \in Advanced(ai, Both \/ OnlyA)..Len(a) : a[k].id = i
            \/ \E k \in Advanced(bi, Both \/ OnlyB)..Len(b) : b[k].id = i
  BY TurnTakesSmallest DEF Turn
<1>5. c \in IDs /\ c \in Nat /\ AValue \in Nat /\ BValue \in Nat
  BY <1>1, <1>4, IDsAssumption, ValuesAreNumbers DEF Ahead
<1>6. \A i \in DOMAIN Values(a) :
        i \in Nat /\ Values(a)[i] \in Nat /\ Values(b)[i] \in Nat
  BY <1>1, IDsAssumption, ValuesAreNumbers DEF Values
<1>7. \A i \in Behind : i \in Nat /\ i < c /\ i \in Differing(Values(a), Values(b))
  BY <1>4, <1>6, BehindIsBefore DEF Behind, Differing
<1>8. c \in Differing(Values(a), Values(b)) <=> AValue # BValue
  BY <1>4, <1>5 DEF Differing, Values
<1>9. ASSUME done' = TRUE
      PROVE  LoopInv'
  <2>1. /\ ai' = ai /\ bi' = bi
        /\ \/ result = "Lesser" /\ result' = "ConcurrentLesser" /\ AValue > BValue
           \/ result = "Greater" /\ result' = "ConcurrentGreater" /\ BValue > AValue
    BY <1>3, <1>9 DEF Turn, Newer
  <2>2. TypeOK'
    BY <1>3, <1>9, <2>1 DEF TypeOK, Results
  <2>3. InOrder'
    BY <1>3, <2>1 DEF InOrder, Ahead
  <2>4. PICK f \in Behind : \A i \in Behind : f <= i
    BY <1>3, <2>1 DEF ResultSoFar
  <2>5. \A i \in Differing(Values(a), Values(b)) : f <= i
    <3>1. ASSUME NEW i \in Differing(Values(a), Values(b)), i \in Ahead PROVE f <= i
      <4>1. f < i
        BY <3>1, BehindIsBefore
      <4>2. f \in Nat /\ i \in Nat
        BY <1>6, <1>7 DEF Differing
      <4> QED
        BY <4>1, <4>2
    <3> QED
      BY <2>4, <3>1 DEF Behind
  <2>6. c \in Differing(Values(a), Values(b)) /\ f \in Differing(Values(a), Values(b))
    BY <1>5, <1>7, <1>8, <2>1
  <2>7. CASE result = "Lesser"
    <3>1. Values(a)[f] < Values(b)[f]
      BY <1>3, <2>7 DEF ResultSoFar
    <3>2. Values(a)[c] > Values(b)[c]
      BY <1>4, <2>1, <2>7
    <3> HIDE DEF LoopInv
    <3>3. Compare(Values(a), Values(b)) = "ConcurrentLesser"
      BY <1>6, <2>5, <2>6, <3>1, <3>2, CompareMixed
    <3> QED
      BY <1>3, <1>9, <2>1, <2>2, <2>3, <2>7, <3>3 DEF LoopInv, CompareIsRight
  <2>8. CASE result = "Greater"
    <3>1. Values(a)[f] > Values(b)[f]
      BY <1>3, <2>8 DEF ResultSoFar
    <3>2. Values(a)[c] < Values(b)[c]
      BY <1>4, <1>5, <2>1, <2>8
    <3> HIDE DEF LoopInv
    <3>3. Compare(Values(a), Values(b)) = "ConcurrentGreater"
      BY <1>6, <2>5, <2>6, <3>1, <3>2, CompareMixed
    <3> QED
      BY <1>3, <1>9, <2>1, <2>2, <2>3, <2>8, <3>3 DEF LoopInv, CompareIsRight
  <2> QED
    BY <2>1, <2>7, <2>8
<1>10. ASSUME done' # TRUE
       PROVE  LoopInv'
  <2>1. /\ done' = FALSE
        /\ \/ AValue > BValue /\ result # "Lesser" /\ result' = "Greater"
           \/ BValue > AValue /\ result # "Greater" /\ result' = "Lesser"
           \/ AValue = BValue /\ result' = result
    BY <1>3, <1>10 DEF Turn, Newer
  <2>2. /\ ai' = Advanced(ai, Both \/ OnlyA)
        /\ bi' = Advanced(bi, Both \/ OnlyB)
    BY <2>1 DEF Turn, Advanced
  <2>3. \A i : i \in Ahead' <=> i \in Ahead /\ i # c
    BY <1>3, <1>4, <2>2 DEF Ahead
  <2>4. TypeOK'
    <3>1. ai' \in 1..Len(a) + 1
      BY <1>2, <1>4, <2>2 DEF Advanced, MoreA, TypeOK
    <3>2. bi' \in 1..Len(b) + 1
      BY <1>2, <1>4, <2>2 DEF Advanced, MoreB, TypeOK
    <3> QED
      BY <1>3, <2>1, <3>1, <3>2 DEF TypeOK, Results
  <2>5. InOrder'
    <3> SUFFICES ASSUME NEW i \in Ahead'
                 PROVE  /\ \A k \in 1..ai' - 1 : a[k].id < i
                        /\ \A k \in 1..bi' - 1 : b[k].id < i
      BY <1>3 DEF InOrder
    <3>1. i \in Ahead /\ c < i
      <4>1. i \in Ahead /\ i # c /\ i \in Nat
        BY <2>3, IDsAssumption DEF Ahead
      <4> QED
        BY <1>4, <1>5, <4>1
    <3>2. \A k \in 1..ai' - 1 : k \in 1..ai - 1 \/ (k = ai /\ (Both \/ OnlyA))
      BY <1>2, <2>2 DEF Advanced
    <3>3. \A k \in 1..bi' - 1 : k \in 1..bi - 1 \/ (k = bi /\ (Both \/ OnlyB))
      BY <1>2, <2>2 DEF Advanced
    <3> QED
      BY <1>4, <3>1, <3>2, <3>3 DEF InOrder
  <2>6. \A i : i \in Behind' <=> i \in Behind \/ (i = c /\ AValue # BValue)
    <3>1. \A i : i \in Behind' <=>
                 i \in Differing(Values(a), Values(b)) /\ i \notin Ahead'
      BY <1>3 DEF Behind
    <3> QED
      BY <1>8, <2>3, <3>1 DEF Behind
  <2>7. ResultSoFar'
    <3>1. CASE AValue = BValue
      <4>1. Behind' = Behind
        BY <2>6, <3>1
      <4>2. result' = result /\ Values(a)' = Values(a) /\ Values(b)' = Values(b)
        BY <1>3, <1>5, <2>1, <3>1
      <4> QED
        BY <1>3, <4>1, <4>2 DEF ResultSoFar
    <3>2. CASE AValue # BValue
      <4>1. c \in Behind' /\ \A i \in Behind' : i \in Behind \/ i = c
        BY <2>6, <3>2
      <4>2. \A i \in Behind : i \in Behind'
        BY <2>6
      <4>3. \E f \in Behind' : \A i \in Behind' : f <= i
        <5>1. CASE Behind = {}
          BY <1>5, <4>1, <5>1
        <5>2. CASE Behind # {}
          <6>1. PICK f \in Behind : \A i \in Behind : f <= i
            BY <1>3, <5>2 DEF ResultSoFar
          <6>2. f <= c
            BY <1>5, <1>7
          <6> QED
            BY <4>1, <4>2, <6>1, <6>2
        <5> QED
          BY <5>1, <5>2
      <4>4. CASE AValue > BValue
        <5>1. result' = "Greater" /\ result # "Lesser"
          BY <1>5, <2>1, <4>4
        <5>2. \A i \in Behind : Values(a)[i] > Values(b)[i]
          BY <1>3, <5>1 DEF ResultSoFar
        <5>3. \A i \in Behind' : Values(a)[i] > Values(b)[i]
          BY <1>4, <4>1, <4>4, <5>2
        <5> QED
          BY <1>3, <4>3, <5>1, <5>3 DEF ResultSoFar
      <4>5. CASE BValue > AValue
        <5>1. result' = "Lesser" /\ result # "Greater"
          BY <1>5, <2>1, <4>5
        <5>2. \A i \in Behind : Values(a)[i] < Values(b)[i]
          BY <1>3, <5>1 DEF ResultSoFar
        <5>3. \A i \in Behind' : Values(a)[i] < Values(b)[i]
          BY <1>4, <1>5, <4>1, <4>5, <5>2
        <5> QED
          BY <1>3, <4>3, <5>1, <5>3 DEF ResultSoFar
      <4> QED
        BY <1>5, <3>2, <4>4, <4>5
    <3> QED
      BY <3>1, <3>2
  <2> QED
    BY <2>1, <2>4, <2>5, <2>7 DEF CompareIsRight
<1> QED
  BY <1>9, <1>10

\* Nothing is ahead when the loop ends.
LEMMA ReturnKeepsLoopInv == LoopInv /\ Return => LoopInv'
<1> SUFFICES ASSUME LoopInv, Return PROVE LoopInv'
  OBVIOUS
<1> USE DEF LoopInv
<1>1. Vector(a) /\ Vector(b)
  BY VectorsAreSorted DEF TypeOK
<1>2. Len(a) \in Nat /\ Len(b) \in Nat /\ ai \in Nat /\ bi \in Nat
  BY <1>1 DEF TypeOK, Vector
<1>3. Ahead = {}
  BY <1>2 DEF Return, MoreA, MoreB, Ahead
<1>4. Behind = Differing(Values(a), Values(b))
  BY <1>3 DEF Behind
<1>5. \A i \in DOMAIN Values(a) : Values(a)[i] \in Nat /\ Values(b)[i] \in Nat
  BY <1>1, ValuesAreNumbers DEF Values
<1>6. ResultSoFar
  BY DEF Return
<1>7. result = Compare(Values(a), Values(b))
  <2>1. CASE result = "Equal"
    BY <1>4, <1>5, <1>6, <2>1, CompareOneSided DEF ResultSoFar
  <2>2. CASE result = "Greater"
    <3>1. Behind # {} /\ \A i \in Behind : Values(a)[i] > Values(b)[i]
      BY <1>6, <2>2 DEF ResultSoFar
    <3> QED
      BY <1>4, <1>5, <2>2, <3>1, CompareOneSided
  <2>3. CASE result = "Lesser"
    <3>1. Behind # {} /\ \A i \in Behind : Values(a)[i] < Values(b)[i]
      BY <1>6, <2>3 DEF ResultSoFar
    <3> QED
      BY <1>4, <1>5, <2>3, <3>1, CompareOneSided
  <2> QED
    BY <1>6, <2>1, <2>2, <2>3 DEF ResultSoFar
<1>8. /\ a' = a /\ b' = b /\ ai' = ai /\ bi' = bi
      /\ result' = result /\ done' = TRUE
  BY DEF Return
<1>9. TypeOK' /\ InOrder'
  BY <1>8 DEF TypeOK, InOrder, Ahead
<1> QED
  BY <1>7, <1>8, <1>9 DEF CompareIsRight

\* The invariant of Vector.Compare's loop.
THEOREM LoopInvariant == Spec => []LoopInv
<1>1. LoopInv /\ UNCHANGED vars => LoopInv'
  <2> SUFFICES ASSUME LoopInv, UNCHANGED vars PROVE LoopInv'
    OBVIOUS
  <2>1. /\ a' = a /\ b' = b /\ ai' = ai /\ bi' = bi
        /\ result' = result /\ done' = done
    BY DEF vars
  <2> QED
    BY <2>1 DEF LoopInv, TypeOK, InOrder, Ahead, ResultSoFar, Behind,
                CompareIsRight
<1>2. LoopInv /\ [Next]_vars => LoopInv'
  BY <1>1, TurnKeepsLoopInv, ReturnKeepsLoopInv DEF Next
<1> QED
  BY <1>2, InitLoopInv, PTL DEF Spec

\* Vector.Compare returns the relation of any two sorted lists of counters.
THEOREM CompareReturnsRelation == Spec => []CompareIsRight
<1>1. LoopInv => CompareIsRight
  BY DEF LoopInv
<1> QED
  BY <1>1, LoopInvariant, PTL

----------------------------------------------------------------------------
(* The order of versions.                                                  *)

Versions == [IDs -> Nat]
Before(x, y) == Compare(x, y) \in {"Lesser", "ConcurrentLesser"}

\* A set of natural numbers with an element has a smallest one.
LEMMA Smallest == ASSUME NEW N \in SUBSET Nat, N # {}
                  PROVE  \E i \in N : \A j \in N : i <= j
<1>1. IsWellFoundedOn(OpToRel(<, Nat), Nat)
  BY NatLessThanWellFounded
<1>2. PICK i \in N : \A j \in N : <<j, i>> \notin OpToRel(<, Nat)
  BY <1>1, WFMin
<1>3. \A j \in N : ~(j < i)
  BY <1>2 DEF OpToRel
<1> QED
  BY <1>3

\* The first counter in which two versions differ decides.
LEMMA FirstDecides ==
    ASSUME NEW x \in Versions, NEW y \in Versions,
           NEW f \in Differing(x, y), \A i \in Differing(x, y) : f <= i
    PROVE  Before(x, y) <=> x[f] < y[f]
<1> DEFINE D == Differing(x, y)
           first == CHOOSE i \in D : \A j \in D : i <= j
<1>1. \A i \in D : i \in Nat /\ x[i] \in Nat /\ y[i] \in Nat /\ x[i] # y[i]
  BY IDsAssumption DEF Versions, Differing
<1>2. first = f
  <2>1. first \in D /\ \A j \in D : first <= j
    OBVIOUS
  <2> HIDE DEF first
  <2>2. first <= f /\ f <= first
    BY <2>1
  <2> QED
    BY <1>1, <2>1, <2>2
<1> HIDE DEF first
<1>3. D # {}
  OBVIOUS
<1>4. CASE \A i \in D : x[i] > y[i]
  <2>1. Compare(x, y) = "Greater" /\ ~(x[f] < y[f])
    BY <1>1, <1>3, <1>4 DEF Compare
  <2> QED
    BY <2>1 DEF Before
<1>5. CASE \A i \in D : x[i] < y[i]
  <2>1. ~(\A i \in D : x[i] > y[i])
    BY <1>1, <1>5
  <2>2. Compare(x, y) = "Lesser"
    BY <1>3, <1>5, <2>1 DEF Compare
  <2> QED
    BY <1>5, <2>2 DEF Before
<1>6. CASE ~(\A i \in D : x[i] > y[i]) /\ ~(\A i \in D : x[i] < y[i])
  <2>1. Compare(x, y) = IF x[f] > y[f] THEN "ConcurrentGreater"
                                       ELSE "ConcurrentLesser"
    BY <1>2, <1>3, <1>6 DEF Compare, first
  <2> QED
    BY <1>1, <2>1 DEF Before
<1> QED
  BY <1>4, <1>5, <1>6

\* "a strict ordering between versions": with its two kinds of concurrent
\* results Compare orders any versions, totally and transitively.
THEOREM StrictOrder ==
    /\ \A x \in Versions : ~Before(x, x)
    /\ \A x, y \in Versions : x # y => (Before(x, y) <=> ~Before(y, x))
    /\ \A x, y, z \in Versions : Before(x, y) /\ Before(y, z) => Before(x, z)
<1>1. \A x \in Versions : ~Before(x, x)
  <2> SUFFICES ASSUME NEW x \in Versions PROVE ~Before(x, x)
    OBVIOUS
  <2>1. Differing(x, x) = {}
    BY DEF Differing
  <2> QED
    BY <2>1 DEF Before, Compare
<1>2. ASSUME NEW x \in Versions, NEW y \in Versions, x # y
      PROVE  \E f \in Differing(x, y) : \A i \in Differing(x, y) : f <= i
  <2>1. Differing(x, y) # {}
    BY <1>2 DEF Differing, Versions
  <2>2. Differing(x, y) \in SUBSET Nat
    BY IDsAssumption DEF Differing, Versions
  <2> QED
    BY <2>1, <2>2, Smallest
<1>3. ASSUME NEW x \in Versions, NEW y \in Versions, x # y
      PROVE  Before(x, y) <=> ~Before(y, x)
  <2>1. PICK f \in Differing(x, y) : \A i \in Differing(x, y) : f <= i
    BY <1>2, <1>3
  <2>2. Differing(y, x) = Differing(x, y)
    BY DEF Differing, Versions
  <2>3. x[f] \in Nat /\ y[f] \in Nat /\ x[f] # y[f]
    BY DEF Differing, Versions
  <2>4. Before(x, y) <=> x[f] < y[f]
    BY <2>1, FirstDecides
  <2>5. Before(y, x) <=> y[f] < x[f]
    BY <2>1, <2>2, FirstDecides
  <2> QED
    BY <2>3, <2>4, <2>5
<1>4. ASSUME NEW x \in Versions, NEW y \in Versions, NEW z \in Versions,
             Before(x, y), Before(y, z)
      PROVE  Before(x, z)
  <2>1. x # y /\ y # z
    BY <1>1, <1>4
  <2>2. PICK f \in Differing(x, y) : \A i \in Differing(x, y) : f <= i
    BY <1>2, <2>1
  <2>3. PICK g \in Differing(y, z) : \A i \in Differing(y, z) : g <= i
    BY <1>2, <2>1
  <2>4. x[f] < y[f] /\ y[g] < z[g]
    BY <1>4, <2>2, <2>3, FirstDecides
  <2>5. \A i \in IDs : i \in Nat /\ x[i] \in Nat /\ y[i] \in Nat /\ z[i] \in Nat
    BY IDsAssumption DEF Versions
  <2>6. /\ f \in IDs /\ g \in IDs
        /\ \A i \in IDs : i < f => x[i] = y[i]
        /\ \A i \in IDs : i < g => y[i] = z[i]
    <3>1. f \in IDs /\ g \in IDs
      BY DEF Differing, Versions
    <3>2. ASSUME NEW i \in IDs, i < f PROVE x[i] = y[i]
      <4>1. i \notin Differing(x, y)
        BY <2>2, <2>5, <3>1, <3>2
      <4> QED
        BY <4>1 DEF Differing, Versions
    <3>3. ASSUME NEW i \in IDs, i < g PROVE y[i] = z[i]
      <4>1. i \notin Differing(y, z)
        BY <2>3, <2>5, <3>1, <3>3
      <4> QED
        BY <4>1 DEF Differing, Versions
    <3> QED
      BY <3>1, <3>2, <3>3
  <2> DEFINE h == IF f < g THEN f ELSE g
  <2>7. h \in IDs /\ x[h] < z[h] /\ \A i \in IDs : i < h => x[i] = z[i]
    <3>1. CASE f < g
      <4>1. y[f] = z[f]
        BY <2>6, <3>1
      <4>2. \A i \in IDs : i < f => i < g
        BY <2>5, <2>6, <3>1
      <4> QED
        BY <2>4, <2>6, <3>1, <4>1, <4>2
    <3>2. CASE f = g
      <4>1. x[f] < z[f]
        BY <2>4, <2>5, <2>6, <3>2
      <4> QED
        BY <2>6, <3>2, <4>1
    <3>3. CASE g < f
      <4>1. x[g] = y[g] /\ ~(f < g)
        BY <2>5, <2>6, <3>3
      <4>2. \A i \in IDs : i < g => i < f
        BY <2>5, <2>6, <3>3
      <4> QED
        BY <2>4, <2>6, <4>1, <4>2
    <3> QED
      BY <2>5, <2>6, <3>1, <3>2, <3>3
  <2> HIDE DEF h
  <2>8. h \in Differing(x, z) /\ \A i \in Differing(x, z) : h <= i
    <3>1. h \in Differing(x, z)
      BY <2>5, <2>7 DEF Differing, Versions
    <3>2. ASSUME NEW i \in Differing(x, z) PROVE h <= i
      <4>1. i \in IDs /\ x[i] # z[i]
        BY DEF Differing, Versions
      <4>2. ~(i < h)
        BY <2>7, <4>1
      <4> QED
        BY <2>5, <2>7, <4>1, <4>2
    <3> QED
      BY <3>1, <3>2
  <2> QED
    BY <2>7, <2>8, FirstDecides
<1> QED
  BY <1>1, <1>3, <1>4

-----------------------------------------------------------------------------
(* ConfigWrapper: subscribers and the versions of the configuration           *)

\* Commits under way are of the version in effect, one for each subscriber that has not seen it;
\* who unsubscribes meanwhile waits for its own.
ConfigInv ==
  /\ cfg \in Nat \ {0} /\ subs \subseteq Listeners
  /\ leaving \in [Listeners -> Nat] /\ applied \in [Listeners -> Nat]
  /\ \A c \in commits :
       /\ c.sub \in Listeners /\ c.to = cfg
       /\ IF c.sub \in subs THEN c.from = applied[c.sub] ELSE leaving[c.sub] = cfg
  /\ \A c, d \in commits : c.sub = d.sub => c = d
  /\ \A s \in subs : leaving[s] = 0
  /\ serve = "select" => commits = {}
  /\ serve # "stopped" => \A s \in subs : applied[s] = cfg \/ \E c \in commits : c.sub = s

\* The callers: who subscribes has no commit under way, as it would have waited for it.
LEMMA CallersKeepConfig ==
    ASSUME ConfigInv, NEW s \in Listeners, C!Subscribe(s) \/ C!Unsubscribe(s) \/ C!Unsubscribed(s)
    PROVE  ConfigInv'
<1>1. CASE C!Subscribe(s)
  <2>1. /\ s \notin subs /\ leaving[s] = 0 /\ subs' = subs \cup {s} /\ applied' = [applied EXCEPT ![s] = cfg]
        /\ UNCHANGED <<cfg, serve, commits, leaving>>
    BY <1>1 DEF C!Subscribe
  <2>2. \A c \in commits : c.sub # s
    BY <2>1 DEF ConfigInv
  <2> QED
    BY <2>1, <2>2 DEF ConfigInv
<1>2. CASE C!Unsubscribe(s)
  <2>1. /\ s \in subs /\ subs' = subs \ {s} /\ leaving' = [leaving EXCEPT ![s] = cfg]
        /\ UNCHANGED <<cfg, serve, commits, applied>>
    BY <1>2 DEF C!Unsubscribe
  <2> QED
    BY <2>1 DEF ConfigInv
<1>3. CASE C!Unsubscribed(s)
  <2>1. /\ leaving[s] # 0 /\ leaving' = [leaving EXCEPT ![s] = 0] /\ \A c \in commits : c.to # leaving[s]
        /\ UNCHANGED <<cfg, serve, commits, subs, applied>>
    BY <1>3 DEF C!Unsubscribed, C!ChangeDone
  <2>2. \A c \in commits : c.sub # s
    BY <2>1 DEF ConfigInv
  <2> QED
    BY <2>1, <2>2 DEF ConfigInv
<1> QED
  BY <1>1, <1>2, <1>3

\* The routine takes up a modification when every commit of the last one is done.
LEMMA ServeModificationKeepsConfig == ASSUME ConfigInv, C!ServeModification PROVE ConfigInv'
<1> DEFINE new == {[sub |-> s, from |-> cfg, to |-> cfg + 1] : s \in subs}
<1>1. /\ serve = "select" /\ serve' = "wait" /\ UNCHANGED <<subs, leaving, applied>>
      /\ UNCHANGED <<cfg, commits>> \/ (cfg' = cfg + 1 /\ commits' = commits \cup new)
  BY DEF C!ServeModification
<1>2. commits = {} /\ \A s \in subs : applied[s] = cfg
  BY <1>1 DEF ConfigInv
<1>3. CASE UNCHANGED <<cfg, commits>>
  BY <1>1, <1>2, <1>3 DEF ConfigInv
<1>4. CASE cfg' = cfg + 1 /\ commits' = commits \cup new
  <2>1. \A c \in commits' : c.sub \in subs /\ c.from = cfg /\ c.to = cfg + 1
    BY <1>2, <1>4
  <2>2. \A c, d \in commits' : c.sub = d.sub => c = d
    BY <1>2, <1>4
  <2>3. ASSUME NEW s \in subs PROVE \E c \in commits' : c.sub = s
    <3>1. [sub |-> s, from |-> cfg, to |-> cfg + 1] \in commits'
      BY <1>4
    <3> QED
      BY <3>1
  <2> HIDE DEF new
  <2> QED
    BY <1>1, <1>2, <1>4, <2>1, <2>2, <2>3 DEF ConfigInv
<1> QED
  BY <1>1, <1>3, <1>4

\* A subscriber that commits has seen the version in effect.
LEMMA CommitKeepsConfig == ASSUME ConfigInv, NEW c \in commits, C!Commit(c) PROVE ConfigInv'
<1>1. /\ commits' = commits \ {c} /\ applied' = [applied EXCEPT ![c.sub] = c.to]
      /\ UNCHANGED <<cfg, serve, subs, leaving>>
  BY DEF C!Commit
<1>2. c.to = cfg /\ c.sub \in Listeners /\ \A d \in commits' : d.sub # c.sub
  BY <1>1 DEF ConfigInv
<1> QED
  BY <1>1, <1>2 DEF ConfigInv

\* The routine goes on when no commit of the version in effect is left: then there is none.
LEMMA RoutineKeepsConfig == ASSUME ConfigInv, C!Continue \/ C!Stop PROVE ConfigInv'
<1>1. CASE C!Continue
  BY <1>1 DEF C!Continue, C!MayContinue, ConfigInv
<1>2. CASE C!Stop
  BY <1>2 DEF C!Stop, ConfigInv
<1> QED
  BY <1>1, <1>2

\* Every step of the suite keeps the invariant: those of other components leave the configuration.
LEMMA NextKeepsConfig == ASSUME ConfigInv, [NextOne]_allVars PROVE ConfigInv'
<1>1. CASE UNCHANGED configVars
  BY <1>1 DEF configVars, ConfigInv
<1>2. CASE C!Next
  <2>1. CASE \E m \in Modifiers : C!Modify(m) \/ C!Forget(m)
    BY <2>1 DEF C!Modify, C!Forget, ConfigInv
  <2>2. CASE C!ServeSave
    BY <2>2 DEF C!ServeSave, ConfigInv
  <2> QED
    BY <1>2, <2>1, <2>2, CallersKeepConfig, ServeModificationKeepsConfig, CommitKeepsConfig, RoutineKeepsConfig
    DEF C!Next
<1> QED
  BY <1>1, <1>2 DEF NextOne, One, allVars

\* A subscriber sees every version of the configuration from its subscription on, and none
\* after it has unsubscribed (Wrapper.Subscribe, Unsubscribe and replaceLocked).
THEOREM SubscribersSeeEveryVersion == SpecOne => []ConfigRight
<1>1. InitOne => ConfigInv
  BY DEF InitOne, C!Init, ConfigInv
<1>2. ConfigInv /\ [NextOne]_allVars => ConfigInv'
  BY NextKeepsConfig
<1>3. ConfigInv => ConfigRight
  BY DEF ConfigInv, ConfigRight, C!EveryVersionSeen, C!NoCommitAfterUnsubscribe
<1> QED
  BY <1>1, <1>2, <1>3, PTL DEF SpecOne

-----------------------------------------------------------------------------
(* Sums over finite sets *)

\* Among subsets of a finite set there is one that has none of the others in it.
LEMMA SmallestSubset ==
  ASSUME NEW U, IsFiniteSet(U), NEW bad, bad \subseteq SUBSET U, bad # {}
  PROVE  \E u \in bad : \A s \in bad : s \subseteq u => s = u
<1>1. IsWellFoundedOn(StrictSubsetOrdering(U), SUBSET U)
  BY FS_StrictSubsetOrderingWellFounded, FS_FiniteSubsetsOfFinite
<1>2. PICK u \in bad : \A s \in bad : <<s, u>> \notin StrictSubsetOrdering(U)
  BY <1>1, WFMin
<1>3. ASSUME NEW s \in bad, s \subseteq u PROVE s = u
  <2>1. <<s, u>> \in (SUBSET U) \X (SUBSET U)
    OBVIOUS
  <2>2. ~(s \subseteq u /\ s # u)
    BY <1>2, <2>1 DEF StrictSubsetOrdering
  <2> QED
    BY <1>3, <2>2
<1> QED
  BY <1>3

Some(s) == CHOOSE x \in s : TRUE

\* g has the sums of the values of f over the subsets of U.
Sums(f, U, g) == g = [s \in SUBSET U |-> IF s = {} THEN 0 ELSE f[Some(s)] + g[s \ {Some(s)}]]

\* What Sums says of a set.
LEMMA SumsIs ==
  ASSUME NEW f, NEW U, NEW g, Sums(f, U, g), NEW s, s \subseteq U
  PROVE  g[s] = IF s = {} THEN 0 ELSE f[Some(s)] + g[s \ {Some(s)}]
<1>1. g = [u \in SUBSET U |-> IF u = {} THEN 0 ELSE f[Some(u)] + g[u \ {Some(u)}]]
  BY DEF Sums
<1>2. s \in SUBSET U
  OBVIOUS
<1> HIDE DEF Some
<1> QED
  BY <1>1, <1>2

\* What is some element of a set is one of it.
LEMMA SomeIs == ASSUME NEW s, s # {} PROVE Some(s) \in s
  BY DEF Some

\* There is one sum.
LEMMA SumsAgree ==
  ASSUME NEW f, NEW U, NEW V, NEW g, NEW h, Sums(f, U, g), Sums(f, V, h),
         NEW s, IsFiniteSet(s), s \subseteq U, s \subseteq V
  PROVE  g[s] = h[s]
<1> DEFINE bad == {u \in SUBSET s : g[u] # h[u]}
<1>1. SUFFICES bad = {}
  BY DEF bad
<1>2. SUFFICES ASSUME bad # {} PROVE FALSE
  OBVIOUS
<1>3. PICK u \in bad : \A r \in bad : r \subseteq u => r = u
  <2>1. bad \subseteq SUBSET s
    OBVIOUS
  <2> HIDE DEF bad
  <2> QED
    BY <1>2, <2>1, SmallestSubset
<1>4. u \subseteq s /\ u \subseteq U /\ u \subseteq V /\ g[u] # h[u]
  OBVIOUS
<1>5. /\ g[u] = IF u = {} THEN 0 ELSE f[Some(u)] + g[u \ {Some(u)}]
      /\ h[u] = IF u = {} THEN 0 ELSE f[Some(u)] + h[u \ {Some(u)}]
  BY <1>4, SumsIs
<1>6. u # {}
  BY <1>4, <1>5
<1>7. Some(u) \in u
  BY <1>6, SomeIs
<1>8. u \ {Some(u)} \subseteq u /\ u \ {Some(u)} # u /\ u \ {Some(u)} \in SUBSET s
  BY <1>4, <1>7
<1>9. g[u \ {Some(u)}] = h[u \ {Some(u)}]
  BY <1>3, <1>8
<1> QED
  BY <1>4, <1>5, <1>6, <1>9

\* There are sums over every finite set.
LEMMA SumsExist == ASSUME NEW f, NEW U, IsFiniteSet(U) PROVE \E g : Sums(f, U, g)
<1> DEFINE bad == {u \in SUBSET U : ~\E g : Sums(f, u, g)}
<1>1. SUFFICES bad = {}
  BY DEF bad
<1>2. SUFFICES ASSUME bad # {} PROVE FALSE
  OBVIOUS
<1>3. PICK u \in bad : \A r \in bad : r \subseteq u => r = u
  <2>1. bad \subseteq SUBSET U
    OBVIOUS
  <2> HIDE DEF bad
  <2> QED
    BY <1>2, <2>1, SmallestSubset
<1>4. u \subseteq U /\ ~\E g : Sums(f, u, g)
  OBVIOUS
<1> DEFINE G(s) == CHOOSE g : Sums(f, s, g)
           step(s) == IF s = {} THEN 0 ELSE f[Some(s)] + G(s \ {Some(s)})[s \ {Some(s)}]
           h == [s \in SUBSET u |-> step(s)]
<1>5. ASSUME NEW s, s \subseteq u, s # u PROVE Sums(f, s, G(s))
  <2>1. s \in SUBSET U /\ s \notin bad
    BY <1>3, <1>4, <1>5
  <2>2. \E g : Sums(f, s, g)
    BY <2>1
  <2> QED
    BY <2>2
<1>6. ASSUME NEW s, s \subseteq u, s # u PROVE h[s] = G(s)[s]
  <2>1. G(s)[s] = IF s = {} THEN 0 ELSE f[Some(s)] + G(s)[s \ {Some(s)}]
    BY <1>5, <1>6, SumsIs
  <2>2. h[s] = step(s)
    BY <1>6
  <2>3. CASE s = {}
    BY <2>1, <2>2, <2>3
  <2>4. CASE s # {}
    <3> DEFINE r == s \ {Some(s)}
    <3>1. r \subseteq s /\ r \subseteq u /\ r # u /\ IsFiniteSet(r)
      BY <1>4, <1>6, <2>4, SomeIs, FS_Subset
    <3>2. Sums(f, r, G(r)) /\ Sums(f, s, G(s))
      BY <1>5, <1>6, <3>1
    <3>3. G(r)[r] = G(s)[r]
      <4> HIDE DEF r, G
      <4> QED
        BY <3>1, <3>2, SumsAgree
    <3>4. step(s) = f[Some(s)] + G(r)[r] /\ G(s)[s] = f[Some(s)] + G(s)[r]
      BY <2>1, <2>4
    <3> QED
      BY <2>2, <3>3, <3>4
  <2> QED
    BY <2>3, <2>4
<1>7. ASSUME NEW s \in SUBSET u PROVE step(s) = IF s = {} THEN 0 ELSE f[Some(s)] + h[s \ {Some(s)}]
  <2>1. CASE s = {}
    BY <2>1
  <2>2. CASE s # {}
    <3> DEFINE r == s \ {Some(s)}
    <3>1. r \subseteq u /\ r # u
      BY <2>2, SomeIs
    <3>2. h[r] = G(r)[r]
      <4> HIDE DEF r, G, h
      <4> QED
        BY <1>6, <3>1
    <3>3. step(s) = f[Some(s)] + G(r)[r]
      BY <2>2
    <3> HIDE DEF h, step, G
    <3> QED
      BY <2>2, <3>2, <3>3
  <2> QED
    BY <2>1, <2>2
<1>8. Sums(f, u, h)
  <2>1. h = [s \in SUBSET u |-> step(s)]
    OBVIOUS
  <2> HIDE DEF h, step, G
  <2> QED
    BY <1>7, <2>1 DEF Sums
<1> QED
  BY <1>4, <1>8

\* Total is the sum.
LEMMA TotalIs == ASSUME NEW f, NEW U, IsFiniteSet(U), NEW g, Sums(f, U, g) PROVE S!Total(f, U) = g[U]
<1> DEFINE iter(h) == h = [s \in SUBSET U |-> IF s = {} THEN 0 ELSE f[CHOOSE x \in s : TRUE] + h[s \ {CHOOSE x \in s : TRUE}]]
<1>1. S!Total(f, U) = (CHOOSE h : iter(h))[U]
  BY DEF S!Total, S!MapThenSumSet, S!MapThenFoldSet
<1>2. iter(g)
  BY DEF Sums, Some
<1>3. iter(CHOOSE h : iter(h))
  <2> HIDE DEF iter
  <2> QED
    BY <1>2
<1>4. Sums(f, U, CHOOSE h : iter(h))
  <2> DEFINE k == CHOOSE h : iter(h)
  <2>1. iter(k)
    BY <1>3
  <2> HIDE DEF k
  <2>2. Sums(f, U, k)
    BY <2>1 DEF Sums, Some
  <2> QED
    BY <2>2 DEF k
<1> HIDE DEF iter
<1> QED
  BY <1>1, <1>4, SumsAgree

\* The sum over nothing is 0, and that over a set the value of some element and the sum of the rest.
LEMMA TotalOf ==
  ASSUME NEW f, NEW U, IsFiniteSet(U)
  PROVE  S!Total(f, U) = IF U = {} THEN 0 ELSE f[Some(U)] + S!Total(f, U \ {Some(U)})
<1>1. PICK g : Sums(f, U, g)
  BY SumsExist
<1> DEFINE r == U \ {Some(U)}
<1>2. IsFiniteSet(r) /\ r \subseteq U
  BY FS_Subset
<1>3. PICK h : Sums(f, r, h)
  BY <1>2, SumsExist
<1>4. S!Total(f, U) = g[U] /\ S!Total(f, r) = h[r]
  BY <1>1, <1>2, <1>3, TotalIs
<1>5. g[r] = h[r]
  <2> HIDE DEF r
  <2> QED
    BY <1>1, <1>2, <1>3, SumsAgree
<1>6. g[U] = IF U = {} THEN 0 ELSE f[Some(U)] + g[r]
  BY <1>1, SumsIs
<1> QED
  BY <1>4, <1>5, <1>6

\* Sums of numbers are numbers.
LEMMA TotalInNat ==
  ASSUME NEW f, NEW U, IsFiniteSet(U), \A x \in U : f[x] \in Nat
  PROVE  S!Total(f, U) \in Nat
<1> DEFINE bad == {u \in SUBSET U : S!Total(f, u) \notin Nat}
<1>1. SUFFICES bad = {}
  BY DEF bad
<1>2. SUFFICES ASSUME bad # {} PROVE FALSE
  OBVIOUS
<1>3. PICK u \in bad : \A r \in bad : r \subseteq u => r = u
  <2>1. bad \subseteq SUBSET U
    OBVIOUS
  <2> HIDE DEF bad
  <2> QED
    BY <1>2, <2>1, SmallestSubset
<1>4. u \subseteq U /\ S!Total(f, u) \notin Nat /\ IsFiniteSet(u)
  BY FS_Subset
<1>5. S!Total(f, u) = IF u = {} THEN 0 ELSE f[Some(u)] + S!Total(f, u \ {Some(u)})
  BY <1>4, TotalOf
<1>6. u # {}
  BY <1>4, <1>5
<1>7. Some(u) \in u /\ f[Some(u)] \in Nat
  BY <1>4, <1>6, SomeIs
<1>8. u \ {Some(u)} \subseteq u /\ u \ {Some(u)} # u /\ u \ {Some(u)} \in SUBSET U
  BY <1>4, <1>7
<1>9. S!Total(f, u \ {Some(u)}) \in Nat
  BY <1>3, <1>8
<1> QED
  BY <1>4, <1>5, <1>6, <1>7, <1>9

\* A sum is the value of any element and the sum of the rest.
LEMMA TotalWith ==
  ASSUME NEW f, NEW U, IsFiniteSet(U), \A x \in U : f[x] \in Nat, NEW t \in U
  PROVE  S!Total(f, U) = f[t] + S!Total(f, U \ {t})
<1> DEFINE bad == {u \in SUBSET U : \E x \in u : S!Total(f, u) # f[x] + S!Total(f, u \ {x})}
<1>1. SUFFICES bad = {}
  BY DEF bad
<1>2. SUFFICES ASSUME bad # {} PROVE FALSE
  OBVIOUS
<1>3. PICK u \in bad : \A r \in bad : r \subseteq u => r = u
  <2>1. bad \subseteq SUBSET U
    OBVIOUS
  <2> HIDE DEF bad
  <2> QED
    BY <1>2, <2>1, SmallestSubset
<1>4. PICK x \in u : S!Total(f, u) # f[x] + S!Total(f, u \ {x})
  OBVIOUS
<1> DEFINE y == Some(u)
           both == (u \ {x}) \ {y}
<1>5. u \subseteq U /\ IsFiniteSet(u) /\ y \in u /\ x \in u
  BY SomeIs, FS_Subset
<1>6. S!Total(f, u) = f[y] + S!Total(f, u \ {y})
  BY <1>5, TotalOf
<1>7. x # y
  BY <1>4, <1>6
<1>8. u \ {y} \subseteq u /\ u \ {y} # u /\ u \ {y} \in SUBSET U /\ x \in u \ {y} /\ (u \ {y}) \ {x} = both
  BY <1>5, <1>7
<1>9. S!Total(f, u \ {y}) = f[x] + S!Total(f, both)
  BY <1>3, <1>8
<1>10. u \ {x} \subseteq u /\ u \ {x} # u /\ u \ {x} \in SUBSET U /\ y \in u \ {x}
  BY <1>5, <1>7
<1>11. S!Total(f, u \ {x}) = f[y] + S!Total(f, both)
  BY <1>3, <1>10
<1>12. f[x] \in Nat /\ f[y] \in Nat /\ S!Total(f, both) \in Nat
  <2>1. both \subseteq U /\ IsFiniteSet(both)
    BY <1>5, FS_Subset
  <2>2. S!Total(f, both) \in Nat
    BY <2>1, TotalInNat
  <2> QED
    BY <1>5, <2>2
<1> HIDE DEF both, y
<1> QED
  BY <1>4, <1>6, <1>9, <1>11, <1>12

\* The sum depends on the values that are summed only.
LEMMA TotalSame ==
  ASSUME NEW f, NEW g, NEW U, IsFiniteSet(U), \A x \in U : f[x] = g[x]
  PROVE  S!Total(f, U) = S!Total(g, U)
<1> DEFINE bad == {u \in SUBSET U : S!Total(f, u) # S!Total(g, u)}
<1>1. SUFFICES bad = {}
  BY DEF bad
<1>2. SUFFICES ASSUME bad # {} PROVE FALSE
  OBVIOUS
<1>3. PICK u \in bad : \A r \in bad : r \subseteq u => r = u
  <2>1. bad \subseteq SUBSET U
    OBVIOUS
  <2> HIDE DEF bad
  <2> QED
    BY <1>2, <2>1, SmallestSubset
<1>4. u \subseteq U /\ S!Total(f, u) # S!Total(g, u) /\ IsFiniteSet(u)
  BY FS_Subset
<1>5. /\ S!Total(f, u) = IF u = {} THEN 0 ELSE f[Some(u)] + S!Total(f, u \ {Some(u)})
      /\ S!Total(g, u) = IF u = {} THEN 0 ELSE g[Some(u)] + S!Total(g, u \ {Some(u)})
  BY <1>4, TotalOf
<1>6. u # {}
  BY <1>4, <1>5
<1>7. Some(u) \in u /\ f[Some(u)] = g[Some(u)]
  BY <1>4, <1>6, SomeIs
<1>8. u \ {Some(u)} \subseteq u /\ u \ {Some(u)} # u /\ u \ {Some(u)} \in SUBSET U
  BY <1>4, <1>7
<1>9. S!Total(f, u \ {Some(u)}) = S!Total(g, u \ {Some(u)})
  BY <1>3, <1>8
<1> QED
  BY <1>4, <1>5, <1>6, <1>7, <1>9

-----------------------------------------------------------------------------
(* The semaphore *)

TakeStates == {"idle", "begun", "waiting", "woken", "holding"}

SemaphoreTypes ==
  /\ max \in Nat /\ available \in Nat /\ sets \in Nat
  /\ take \in [Takers -> TakeStates]
  /\ size \in [Takers -> Nat] /\ taken \in [Takers -> Nat]
  /\ \A t \in Takers : size[t] <= Size[t]

\* While the capacity is the first one, a take is for what was asked for, or for all there is;
\* and what is not available is taken.
Counted ==
  sets = 0 =>
    /\ \A t \in Takers : take[t] \in {"begun", "waiting", "woken"} => S!Smaller(size[t], max) = S!Smaller(Size[t], max)
    /\ \A t \in S!Held : taken[t] = S!Smaller(Size[t], max)
    /\ available + S!Total(taken, S!Held) = max

SemaphoreInv == SemaphoreTypes /\ available <= max /\ Counted /\ S!NothingLost

\* Who holds something is one of finitely many.
LEMMA HeldIs == S!Held \subseteq Takers /\ IsFiniteSet(S!Held) /\ \A t \in S!Held : Size[t] \in Nat
  BY SemaphoreAssumption, FS_Subset DEF S!Held

\* With one more who holds something the sum is larger by its value.
LEMMA HoldsToo ==
  ASSUME NEW f, NEW H, IsFiniteSet(H), \A x \in H : f[x] \in Nat, NEW t, t \notin H, f[t] \in Nat
  PROVE  S!Total(f, H \cup {t}) = f[t] + S!Total(f, H)
<1>1. IsFiniteSet(H \cup {t}) /\ t \in H \cup {t} /\ (H \cup {t}) \ {t} = H /\ \A x \in H \cup {t} : f[x] \in Nat
  BY FS_AddElement
<1> QED
  BY <1>1, TotalWith

\* Steps that leave what is available and who holds it.
LEMMA NobodyTakes ==
  ASSUME SemaphoreInv, UNCHANGED <<max, available, taken, sets>>,
         take' \in [Takers -> TakeStates], S!Held' = S!Held,
         size' \in [Takers -> Nat], \A t \in Takers : size'[t] <= Size[t],
         sets = 0 => \A t \in Takers : take'[t] \in {"begun", "waiting", "woken"} => S!Smaller(size'[t], max) = S!Smaller(Size[t], max)
  PROVE  SemaphoreInv'
<1>1. SemaphoreTypes'
  BY DEF SemaphoreInv, SemaphoreTypes
<1>2. S!Total(taken, S!Held)' = S!Total(taken, S!Held) /\ S!Total(Size, S!Held)' = S!Total(Size, S!Held)
  <2>1. taken' = taken /\ S!Held' = S!Held
    OBVIOUS
  <2>2. S!Total(taken', S!Held') = S!Total(taken, S!Held) /\ S!Total(Size, S!Held') = S!Total(Size, S!Held)
    BY <2>1
  <2> QED
    BY <2>2
<1>3. Counted'
  BY <1>2 DEF SemaphoreInv, Counted, S!Smaller
<1>4. S!NothingLost'
  BY <1>2 DEF SemaphoreInv, S!NothingLost
<1> QED
  BY <1>1, <1>3, <1>4 DEF SemaphoreInv

\* A take begins, is told that its context is done, or gives up.
LEMMA BeginningKeeps ==
  ASSUME SemaphoreInv, NEW t \in Takers, S!Begin(t) \/ S!Cancel(t) \/ S!Tell(t)
  PROVE  SemaphoreInv'
<1>1. SemaphoreTypes /\ Counted
  BY DEF SemaphoreInv
<1>2. Size[t] \in Nat
  BY SemaphoreAssumption
<1>3. CASE S!Begin(t)
  <2>1. take[t] = "idle" /\ take' = [take EXCEPT ![t] = "begun"] /\ size' = [size EXCEPT ![t] = Size[t]]
        /\ UNCHANGED <<max, available, taken, sets>>
    BY <1>3 DEF S!Begin, S!semaphore
  <2>2. take' \in [Takers -> TakeStates] /\ S!Held' = S!Held
    BY <1>1, <2>1 DEF SemaphoreTypes, TakeStates, S!Held
  <2>3. size' \in [Takers -> Nat] /\ \A u \in Takers : size'[u] <= Size[u]
    BY <1>1, <1>2, <2>1 DEF SemaphoreTypes
  <2>4. sets = 0 => \A u \in Takers : take'[u] \in {"begun", "waiting", "woken"} => S!Smaller(size'[u], max) = S!Smaller(Size[u], max)
    BY <1>1, <2>1 DEF SemaphoreTypes, Counted
  <2> QED
    BY <2>1, <2>2, <2>3, <2>4, NobodyTakes
<1>4. CASE S!Cancel(t) \/ S!Tell(t)
  <2>1. UNCHANGED <<max, available, taken, sets, size>> /\ take' \in {take, S!Woken}
    BY <1>4 DEF S!Cancel, S!Tell, S!semaphore
  <2>2. take' \in [Takers -> TakeStates] /\ S!Held' = S!Held
        /\ \A u \in Takers : take'[u] \in {"begun", "waiting", "woken"} => take[u] \in {"begun", "waiting", "woken"}
    BY <1>1, <2>1 DEF SemaphoreTypes, TakeStates, S!Held, S!Woken
  <2>3. size' \in [Takers -> Nat] /\ \A u \in Takers : size'[u] <= Size[u]
    BY <1>1, <2>1 DEF SemaphoreTypes
  <2>4. sets = 0 => \A u \in Takers : take'[u] \in {"begun", "waiting", "woken"} => S!Smaller(size'[u], max) = S!Smaller(Size[u], max)
    BY <1>1, <2>1, <2>2 DEF Counted
  <2> QED
    BY <2>1, <2>2, <2>3, <2>4, NobodyTakes
<1> QED
  BY <1>3, <1>4

\* A take gets what it asks for, or no more than there is; or it gives up, or waits.
LEMMA TryKeeps == ASSUME SemaphoreInv, NEW t \in Takers, S!Try(t) PROVE SemaphoreInv'
<1>1. SemaphoreTypes /\ Counted /\ available <= max /\ S!NothingLost
  BY DEF SemaphoreInv
<1>2. Size[t] \in Nat /\ size[t] \in Nat /\ size[t] <= Size[t] /\ max \in Nat /\ available \in Nat
  BY <1>1, SemaphoreAssumption DEF SemaphoreTypes
<1> DEFINE wanted == S!Smaller(size[t], max)
<1>3. wanted \in Nat /\ wanted <= Size[t] /\ wanted <= max /\ (wanted = size[t] \/ wanted = max)
  BY <1>2 DEF S!Smaller
<1>4. S!Smaller(wanted, max) = wanted
  BY <1>2, <1>3 DEF S!Smaller
<1>5. sets = 0 => wanted = S!Smaller(Size[t], max)
  BY <1>1 DEF S!Try, Counted
<1>6. take[t] \in {"begun", "woken"} /\ UNCHANGED <<max, sets>> /\ t \notin S!Held
  BY DEF S!Try, S!Held
<1>7. CASE take' = [take EXCEPT ![t] = "idle"] /\ UNCHANGED <<size, taken, available>>
  <2>1. take' \in [Takers -> TakeStates] /\ S!Held' = S!Held
        /\ \A u \in Takers : take'[u] \in {"begun", "waiting", "woken"} => take[u] \in {"begun", "waiting", "woken"}
    BY <1>1, <1>6, <1>7 DEF SemaphoreTypes, TakeStates, S!Held
  <2>2. size' \in [Takers -> Nat] /\ \A u \in Takers : size'[u] <= Size[u]
    BY <1>1, <1>7 DEF SemaphoreTypes
  <2>3. sets = 0 => \A u \in Takers : take'[u] \in {"begun", "waiting", "woken"} => S!Smaller(size'[u], max) = S!Smaller(Size[u], max)
    BY <1>1, <1>7, <2>1 DEF Counted
  <2> QED
    BY <1>6, <1>7, <2>1, <2>2, <2>3, NobodyTakes
<1>8. ASSUME size' = [size EXCEPT ![t] = wanted]
      PROVE  /\ size' \in [Takers -> Nat] /\ \A u \in Takers : size'[u] <= Size[u]
             /\ \A u \in Takers : u # t => size'[u] = size[u]
             /\ size'[t] = wanted
  <2> HIDE DEF wanted
  <2> QED
    BY <1>1, <1>3, <1>8 DEF SemaphoreTypes
<1>9. CASE size' = [size EXCEPT ![t] = wanted] /\ take' = [take EXCEPT ![t] = "waiting"] /\ UNCHANGED <<available, taken>>
  <2>1. take' \in [Takers -> TakeStates] /\ S!Held' = S!Held /\ take'[t] = "waiting"
        /\ \A u \in Takers : u # t => take'[u] = take[u]
    BY <1>1, <1>6, <1>9 DEF SemaphoreTypes, TakeStates, S!Held
  <2>2. sets = 0 => \A u \in Takers : take'[u] \in {"begun", "waiting", "woken"} => S!Smaller(size'[u], max) = S!Smaller(Size[u], max)
    <3> HIDE DEF wanted
    <3> QED
      BY <1>1, <1>4, <1>5, <1>8, <1>9, <2>1 DEF Counted
  <2> QED
    BY <1>6, <1>8, <1>9, <2>1, <2>2, NobodyTakes
<1>10. CASE /\ size' = [size EXCEPT ![t] = wanted] /\ take' = [take EXCEPT ![t] = "holding"]
            /\ S!Fits(t, wanted) /\ available' = available - wanted /\ taken' = [taken EXCEPT ![t] = wanted]
  <2>1. /\ take' \in [Takers -> TakeStates] /\ take'[t] = "holding" /\ \A u \in Takers : u # t => take'[u] = take[u]
        /\ S!Held' = S!Held \cup {t}
    BY <1>1, <1>10 DEF SemaphoreTypes, TakeStates, S!Held
  <2>2. taken' \in [Takers -> Nat] /\ taken'[t] = wanted /\ \A u \in Takers : u # t => taken'[u] = taken[u]
    <3> HIDE DEF wanted
    <3> QED
      BY <1>1, <1>3, <1>10 DEF SemaphoreTypes
  <2>3. available' \in Nat /\ available' <= max' /\ available' = available - wanted
    <3>1. wanted <= available /\ available' = available - wanted /\ max' = max
      BY <1>6, <1>10 DEF S!Fits
    <3> HIDE DEF wanted
    <3> QED
      BY <1>1, <1>2, <1>3, <3>1
  <2>4. SemaphoreTypes'
    BY <1>1, <1>6, <1>8, <1>10, <2>1, <2>2, <2>3 DEF SemaphoreTypes
  <2>5. S!Total(Size, S!Held') = Size[t] + S!Total(Size, S!Held) /\ S!Total(Size, S!Held) \in Nat
    BY <1>2, <1>6, <2>1, HeldIs, HoldsToo, TotalInNat
  <2>6. S!Total(taken', S!Held') = wanted + S!Total(taken, S!Held) /\ S!Total(taken, S!Held) \in Nat
    <3>1. \A x \in S!Held : taken'[x] = taken[x] /\ taken'[x] \in Nat /\ taken[x] \in Nat
      BY <1>1, <1>6, <2>2, HeldIs DEF SemaphoreTypes
    <3>2. taken'[t] = wanted /\ taken'[t] \in Nat
      BY <1>3, <2>2
    <3>3. S!Total(taken', S!Held \cup {t}) = taken'[t] + S!Total(taken', S!Held)
      BY <1>6, <3>1, <3>2, HeldIs, HoldsToo
    <3>4. S!Total(taken', S!Held) = S!Total(taken, S!Held)
      BY <3>1, HeldIs, TotalSame
    <3>5. S!Total(taken, S!Held) \in Nat
      BY <3>1, HeldIs, TotalInNat
    <3> HIDE DEF wanted
    <3> QED
      BY <2>1, <3>2, <3>3, <3>4, <3>5
  <2>7. S!NothingLost'
    <3>1. available + S!Total(Size, S!Held) >= max
      BY <1>1 DEF S!NothingLost
    <3>2. available' + S!Total(Size, S!Held') >= max'
      <4> HIDE DEF wanted
      <4> QED
        BY <1>2, <1>3, <1>6, <2>3, <2>5, <3>1
    <3> QED
      BY <3>2 DEF S!NothingLost
  <2>8. Counted'
    <3> SUFFICES ASSUME sets = 0 PROVE Counted'
      BY <1>6 DEF Counted
    <3>1. \A u \in Takers : take'[u] \in {"begun", "waiting", "woken"} => S!Smaller(size'[u], max) = S!Smaller(Size[u], max)
      <4> HIDE DEF wanted
      <4> QED
        BY <1>1, <1>8, <1>10, <2>1 DEF Counted
    <3>2. \A u \in S!Held' : taken'[u] = S!Smaller(Size[u], max)
      <4>1. ASSUME NEW u \in S!Held PROVE taken'[u] = S!Smaller(Size[u], max)
        BY <1>1, <1>6, <2>2, HeldIs DEF Counted
      <4>2. taken'[t] = S!Smaller(Size[t], max)
        BY <1>5, <2>2
      <4> QED
        BY <2>1, <4>1, <4>2
    <3>3. available' + S!Total(taken', S!Held') = max
      <4>1. available + S!Total(taken, S!Held) = max
        BY <1>1 DEF Counted
      <4> HIDE DEF wanted
      <4> QED
        BY <1>2, <1>3, <2>3, <2>6, <4>1
    <3> QED
      BY <1>6, <3>1, <3>2, <3>3 DEF Counted, S!Smaller
  <2> QED
    BY <2>3, <2>4, <2>7, <2>8 DEF SemaphoreInv
<1> QED
  BY <1>7, <1>9, <1>10 DEF S!Try

\* What is given back is what was asked for, but never more than there can be.
LEMMA GiveKeeps == ASSUME SemaphoreInv, NEW t \in Takers, S!Give(t) PROVE SemaphoreInv'
<1>1. SemaphoreTypes /\ Counted /\ available <= max /\ S!NothingLost
  BY DEF SemaphoreInv
<1>2. Size[t] \in Nat /\ max \in Nat /\ available \in Nat
  BY <1>1, SemaphoreAssumption DEF SemaphoreTypes
<1> DEFINE back == S!Smaller(Size[t], max)
<1>3. back \in Nat /\ back <= max /\ (back = Size[t] \/ back = max)
  BY <1>2 DEF S!Smaller
<1>4. take[t] = "holding" /\ t \in S!Held /\ UNCHANGED <<max, size, sets>>
      /\ available' = S!Smaller(available + back, max)
      /\ take' = [S!Woken EXCEPT ![t] = "idle"] /\ taken' = [taken EXCEPT ![t] = 0]
  BY DEF S!Give, S!AfterGive, S!Held
<1>5. available' \in Nat /\ available' <= max /\ (available' = available + back \/ available' = max)
  <2> HIDE DEF back
  <2> QED
    BY <1>2, <1>3, <1>4 DEF S!Smaller
<1>6. /\ take' \in [Takers -> TakeStates] /\ S!Held' = S!Held \ {t}
      /\ \A u \in Takers : take'[u] \in {"begun", "waiting", "woken"} => take[u] \in {"begun", "waiting", "woken"}
  <2> DEFINE woken == S!Woken
  <2>1. /\ woken \in [Takers -> TakeStates]
        /\ \A u \in Takers : woken[u] = "holding" <=> take[u] = "holding"
        /\ \A u \in Takers : woken[u] \in {"begun", "waiting", "woken"} <=> take[u] \in {"begun", "waiting", "woken"}
    BY <1>1 DEF SemaphoreTypes, TakeStates, S!Woken
  <2>2. take' \in [Takers -> TakeStates] /\ take'[t] = "idle" /\ \A u \in Takers : u # t => take'[u] = woken[u]
    BY <1>4, <2>1 DEF TakeStates
  <2> HIDE DEF woken
  <2>3. ASSUME NEW u \in Takers PROVE take'[u] = "holding" <=> take[u] = "holding" /\ u # t
    BY <2>1, <2>2, <2>3
  <2>4. S!Held' = S!Held \ {t}
    BY <2>3 DEF S!Held
  <2>5. ASSUME NEW u \in Takers, take'[u] \in {"begun", "waiting", "woken"} PROVE take[u] \in {"begun", "waiting", "woken"}
    BY <2>1, <2>2, <2>5
  <2> QED
    BY <2>2, <2>4, <2>5
<1>7. taken' \in [Takers -> Nat] /\ \A u \in Takers : u # t => taken'[u] = taken[u]
  BY <1>1, <1>4 DEF SemaphoreTypes
<1>8. SemaphoreTypes'
  BY <1>1, <1>4, <1>5, <1>6, <1>7 DEF SemaphoreTypes
<1>9. IsFiniteSet(S!Held \ {t}) /\ \A u \in S!Held \ {t} : taken'[u] = taken[u] /\ taken[u] \in Nat /\ Size[u] \in Nat
  BY <1>1, <1>7, HeldIs, FS_Subset DEF SemaphoreTypes
<1>10. S!Total(Size, S!Held) = Size[t] + S!Total(Size, S!Held') /\ S!Total(Size, S!Held') \in Nat
  <2>1. S!Total(Size, S!Held) = Size[t] + S!Total(Size, S!Held \ {t})
    BY <1>4, HeldIs, TotalWith
  <2>2. S!Total(Size, S!Held \ {t}) \in Nat
    BY <1>9, TotalInNat
  <2> QED
    BY <1>6, <2>1, <2>2
<1>11. S!Total(taken, S!Held) = taken[t] + S!Total(taken', S!Held') /\ S!Total(taken', S!Held') \in Nat
  <2>1. \A u \in S!Held : taken[u] \in Nat
    BY <1>1, HeldIs DEF SemaphoreTypes
  <2>2. S!Total(taken, S!Held) = taken[t] + S!Total(taken, S!Held \ {t})
    BY <1>4, <2>1, HeldIs, TotalWith
  <2>3. S!Total(taken, S!Held \ {t}) = S!Total(taken', S!Held \ {t}) /\ S!Total(taken, S!Held \ {t}) \in Nat
    BY <1>9, TotalInNat, TotalSame
  <2> QED
    BY <1>6, <2>2, <2>3
<1>12. S!NothingLost'
  <2>1. available + S!Total(Size, S!Held) >= max
    BY <1>1 DEF S!NothingLost
  <2>2. available' + S!Total(Size, S!Held') >= max
    <3> HIDE DEF back
    <3> QED
      BY <1>2, <1>3, <1>5, <1>10, <2>1
  <2> QED
    BY <1>4, <2>2 DEF S!NothingLost
<1>13. Counted'
  <2> SUFFICES ASSUME sets = 0 PROVE Counted'
    BY <1>4 DEF Counted
  <2>1. taken[t] = back /\ available + S!Total(taken, S!Held) = max
    BY <1>1, <1>4 DEF Counted
  <2>2. available' + S!Total(taken', S!Held') = max
    <3>1. available + back <= max
      <4> HIDE DEF back
      <4> QED
        BY <1>2, <1>3, <1>11, <2>1
    <3>2. available' = available + back
      <4> HIDE DEF back
      <4> QED
        BY <1>2, <1>3, <1>4, <3>1 DEF S!Smaller
    <3> HIDE DEF back
    <3> QED
      BY <1>2, <1>3, <1>11, <2>1, <3>2
  <2>3. \A u \in Takers : take'[u] \in {"begun", "waiting", "woken"} => S!Smaller(size'[u], max) = S!Smaller(Size[u], max)
    BY <1>1, <1>4, <1>6 DEF Counted
  <2>4. \A u \in S!Held' : taken'[u] = S!Smaller(Size[u], max)
    BY <1>1, <1>6, <1>9 DEF Counted
  <2> QED
    BY <1>4, <2>2, <2>3, <2>4 DEF Counted, S!Smaller
<1> QED
  BY <1>4, <1>5, <1>8, <1>12, <1>13 DEF SemaphoreInv

\* Another capacity takes away, or adds, what is between the two, down to nothing.
LEMMA SetCapacityKeeps == ASSUME SemaphoreInv, NEW capacity \in Capacities, S!SetCapacity(capacity) PROVE SemaphoreInv'
<1>1. SemaphoreTypes /\ available <= max /\ S!NothingLost
  BY DEF SemaphoreInv
<1>2. max \in Nat /\ available \in Nat /\ capacity \in Nat /\ sets \in Nat
  BY <1>1, SemaphoreAssumption DEF SemaphoreTypes
<1>3. sets' = sets + 1 /\ max' = capacity /\ take' = S!Woken /\ UNCHANGED <<size, taken>>
      /\ available' = S!Available(available + capacity - max, capacity)
  BY DEF S!SetCapacity
<1>4. available' \in Nat /\ available' <= capacity
      /\ (available' = available + capacity - max \/ available' = capacity \/ (available' = 0 /\ available + capacity < max))
  BY <1>2, <1>3 DEF S!Available, S!Smaller
<1>5. take' \in [Takers -> TakeStates] /\ S!Held' = S!Held
  BY <1>1, <1>3 DEF SemaphoreTypes, TakeStates, S!Held, S!Woken
<1>6. SemaphoreTypes'
  BY <1>1, <1>2, <1>3, <1>4, <1>5 DEF SemaphoreTypes
<1>7. S!NothingLost'
  <2>1. available + S!Total(Size, S!Held) >= max /\ S!Total(Size, S!Held) \in Nat
    BY <1>1, HeldIs, TotalInNat DEF S!NothingLost
  <2>2. available' + S!Total(Size, S!Held) >= capacity
    BY <1>2, <1>4, <2>1
  <2>3. S!Total(Size, S!Held') = S!Total(Size, S!Held)
    BY <1>5
  <2> QED
    BY <1>3, <2>2, <2>3 DEF S!NothingLost
<1>8. Counted'
  <2>1. sets' # 0
    BY <1>2, <1>3
  <2> QED
    BY <2>1 DEF Counted
<1> QED
  BY <1>3, <1>4, <1>6, <1>7, <1>8 DEF SemaphoreInv

\* At first nobody holds anything.
LEMMA SemaphoreAtFirst == ASSUME S!Init PROVE SemaphoreInv
<1>1. S!Held = {}
  BY DEF S!Init, S!Held
<1>2. S!Total(Size, S!Held) = 0 /\ S!Total(taken, S!Held) = 0
  BY <1>1, FS_EmptySet, TotalOf
<1>3. max \in Nat /\ available = max /\ sets = 0
      /\ take = [t \in Takers |-> "idle"] /\ size = [t \in Takers |-> 0] /\ taken = [t \in Takers |-> 0]
  BY SemaphoreAssumption DEF S!Init
<1>4. SemaphoreTypes
  BY <1>3, SemaphoreAssumption DEF SemaphoreTypes, TakeStates
<1>5. Counted
  BY <1>1, <1>2, <1>3 DEF Counted
<1>6. S!NothingLost
  BY <1>2, <1>3 DEF S!NothingLost
<1> QED
  BY <1>3, <1>4, <1>5, <1>6 DEF SemaphoreInv

\* The semaphore (lib/semaphore/semaphore.go), for any routines and sizes, and whatever the capacity
\* is set to while they hold something: nothing that is given back is lost, so that with nobody
\* holding anything all of the capacity is available; and while the capacity stays, no more is
\* held than it allows.
THEOREM SemaphoreLosesNothing == SpecOne => []SemaphoreRight
<1>1. InitOne => SemaphoreInv
  BY SemaphoreAtFirst DEF InitOne
<1>2. SemaphoreInv /\ [NextOne]_allVars => SemaphoreInv'
  <2> SUFFICES ASSUME SemaphoreInv, [NextOne]_allVars PROVE SemaphoreInv'
    OBVIOUS
  <2>1. CASE S!Next
    BY <2>1, BeginningKeeps, TryKeeps, GiveKeeps, SetCapacityKeeps DEF S!Next
  <2>2. CASE UNCHANGED semaphoreVars
    <3>1. UNCHANGED <<max, available, taken, sets, take, size>> /\ S!Held' = S!Held
      BY <2>2 DEF semaphoreVars, S!Held
    <3>2. take' \in [Takers -> TakeStates] /\ size' \in [Takers -> Nat] /\ \A t \in Takers : size'[t] <= Size[t]
      BY <3>1 DEF SemaphoreInv, SemaphoreTypes
    <3>3. sets = 0 => \A t \in Takers : take'[t] \in {"begun", "waiting", "woken"} => S!Smaller(size'[t], max) = S!Smaller(Size[t], max)
      BY <3>1 DEF SemaphoreInv, Counted
    <3> QED
      BY <3>1, <3>2, <3>3, NobodyTakes
  <2> QED
    BY <2>1, <2>2 DEF NextOne, One, allVars
<1>3. SemaphoreInv => SemaphoreRight
  <2> SUFFICES ASSUME SemaphoreInv PROVE SemaphoreRight
    OBVIOUS
  <2>1. sets = 0 => S!Total(taken, S!Held) <= max
    <3> SUFFICES ASSUME sets = 0 PROVE S!Total(taken, S!Held) <= max
      OBVIOUS
    <3>1. available + S!Total(taken, S!Held) = max /\ available \in Nat
      BY DEF SemaphoreInv, SemaphoreTypes, Counted
    <3>2. \A t \in S!Held : taken[t] \in Nat
      BY HeldIs DEF SemaphoreInv, SemaphoreTypes
    <3>3. S!Total(taken, S!Held) \in Nat
      BY <3>2, HeldIs, TotalInNat
    <3> QED
      BY <3>1, <3>3
  <2> QED
    BY <2>1 DEF SemaphoreInv, SemaphoreRight, S!NotOversold
<1> QED
  BY <1>1, <1>2, <1>3, PTL DEF SpecOne

-----------------------------------------------------------------------------
(* Since: what is newer *)

Places(u) == \E n \in Nat : u \subseteq 1..n
Highest(u) == CHOOSE k \in u : \A l \in u : k >= l
Appended(into, e, id) == IF e > id THEN Append(into, e) ELSE into

Nothing == <<>>

\* g has, for each set of places, what Since returns of the events there.
Newers(events, U, id, g) ==
  g = [u \in SUBSET U |-> IF u = {} THEN Nothing ELSE Appended(g[u \ {Highest(u)}], events[Highest(u)], id)]

\* Among numbers there is a smallest one.
LEMMA LeastNumber == ASSUME NEW N, N \subseteq Nat, N # {} PROVE \E n \in N : \A m \in N : n <= m
<1>1. IsWellFoundedOn(OpToRel(<, Nat), Nat)
  BY NatLessThanWellFounded
<1>2. PICK n \in N : \A m \in N : <<m, n>> \notin OpToRel(<, Nat)
  BY <1>1, WFMin
<1>3. \A m \in N : ~(m < n)
  BY <1>2 DEF OpToRel
<1> QED
  BY <1>3

\* A finite set of numbers has a highest one.
LEMMA HighestIs == ASSUME NEW u, Places(u), u # {} PROVE Highest(u) \in u /\ \A l \in u : Highest(u) >= l
<1>0. PICK n \in Nat : u \subseteq 1..n
  BY DEF Places
<1> DEFINE R == {n - k : k \in u}
<1>1. R \subseteq Nat /\ R # {}
  <2>1. ASSUME NEW k \in u PROVE n - k \in Nat
    BY <1>0
  <2> QED
    BY <2>1
<1>2. PICK r \in R : \A q \in R : r <= q
  <2> HIDE DEF R
  <2> QED
    BY <1>1, LeastNumber
<1>3. PICK k \in u : r = n - k
  OBVIOUS
<1>4. ASSUME NEW l \in u PROVE k >= l
  <2>1. n - k <= n - l
    BY <1>2, <1>3
  <2>2. k \in Int /\ l \in Int
    BY <1>0
  <2> QED
    BY <2>1, <2>2
<1> QED
  BY <1>4 DEF Highest

\* What is in a set of places is one, and a finite set.
LEMMA PlacesAre == ASSUME NEW u, Places(u) PROVE IsFiniteSet(u) /\ \A s \in SUBSET u : Places(s)
<1>1. PICK n \in Nat : u \subseteq 1..n
  BY DEF Places
<1>2. IsFiniteSet(1..n)
  BY FS_Interval
<1>3. IsFiniteSet(u)
  BY <1>1, <1>2, FS_Subset
<1>4. ASSUME NEW s \in SUBSET u PROVE Places(s)
  BY <1>1 DEF Places
<1> QED
  BY <1>3, <1>4

\* What Newers says of a set of places.
LEMMA NewersIs ==
  ASSUME NEW events, NEW U, NEW id, NEW g, Newers(events, U, id, g), NEW u, u \subseteq U
  PROVE  g[u] = IF u = {} THEN Nothing ELSE Appended(g[u \ {Highest(u)}], events[Highest(u)], id)
<1>1. g = [v \in SUBSET U |->
             IF v = {} THEN Nothing ELSE Appended(g[v \ {Highest(v)}], events[Highest(v)], id)]
  BY DEF Newers
<1> QED
  BY <1>1

\* There is one such function.
LEMMA NewersAgree ==
  ASSUME NEW events, NEW id, NEW U, NEW V, NEW g, NEW h, Newers(events, U, id, g), Newers(events, V, id, h),
         NEW s, Places(s), s \subseteq U, s \subseteq V
  PROVE  g[s] = h[s]
<1> DEFINE bad == {u \in SUBSET s : g[u] # h[u]}
<1>1. SUFFICES bad = {}
  BY DEF bad
<1>2. SUFFICES ASSUME bad # {} PROVE FALSE
  OBVIOUS
<1>3. PICK u \in bad : \A r \in bad : r \subseteq u => r = u
  <2>1. bad \subseteq SUBSET s
    OBVIOUS
  <2>2. IsFiniteSet(s)
    BY PlacesAre
  <2> HIDE DEF bad
  <2> QED
    BY <1>2, <2>1, <2>2, SmallestSubset
<1>4. u \subseteq U /\ u \subseteq V /\ u \subseteq s /\ g[u] # h[u]
  OBVIOUS
<1>5. /\ g[u] = IF u = {} THEN Nothing ELSE Appended(g[u \ {Highest(u)}], events[Highest(u)], id)
      /\ h[u] = IF u = {} THEN Nothing ELSE Appended(h[u \ {Highest(u)}], events[Highest(u)], id)
  BY <1>4, NewersIs
<1>6. u # {}
  BY <1>4, <1>5
<1>7. Highest(u) \in u
  BY <1>4, <1>6, HighestIs, PlacesAre
<1>8. u \ {Highest(u)} \subseteq u /\ u \ {Highest(u)} # u /\ u \ {Highest(u)} \in SUBSET s
  BY <1>4, <1>7
<1>9. g[u \ {Highest(u)}] = h[u \ {Highest(u)}]
  BY <1>3, <1>8
<1> QED
  BY <1>4, <1>5, <1>6, <1>9

\* And there is one for any number of events.
LEMMA NewersExist == ASSUME NEW events, NEW id, NEW U, Places(U) PROVE \E g : Newers(events, U, id, g)
<1> DEFINE bad == {u \in SUBSET U : ~\E g : Newers(events, u, id, g)}
<1>1. SUFFICES bad = {}
  BY DEF bad
<1>2. SUFFICES ASSUME bad # {} PROVE FALSE
  OBVIOUS
<1>3. PICK u \in bad : \A r \in bad : r \subseteq u => r = u
  <2>1. bad \subseteq SUBSET U /\ IsFiniteSet(U)
    BY PlacesAre
  <2> HIDE DEF bad
  <2> QED
    BY <1>2, <2>1, SmallestSubset
<1>4. u \subseteq U /\ Places(u) /\ ~\E g : Newers(events, u, id, g)
  BY PlacesAre
<1> DEFINE G(s) == CHOOSE g : Newers(events, s, id, g)
           step(s) == IF s = {} THEN Nothing ELSE Appended(G(s \ {Highest(s)})[s \ {Highest(s)}], events[Highest(s)], id)
           h == [s \in SUBSET u |-> step(s)]
<1>5. ASSUME NEW s, s \subseteq u, s # u PROVE Newers(events, s, id, G(s))
  <2>1. s \in SUBSET U /\ s \notin bad
    BY <1>3, <1>4, <1>5
  <2>2. \E g : Newers(events, s, id, g)
    BY <2>1
  <2> QED
    BY <2>2
<1>6. ASSUME NEW s, s \subseteq u, s # u PROVE h[s] = G(s)[s]
  <2>1. G(s)[s] = IF s = {} THEN Nothing ELSE Appended(G(s)[s \ {Highest(s)}], events[Highest(s)], id)
    BY <1>5, <1>6, NewersIs
  <2>2. h[s] = step(s)
    BY <1>6
  <2>3. CASE s = {}
    BY <2>1, <2>2, <2>3
  <2>4. CASE s # {}
    <3> DEFINE r == s \ {Highest(s)}
    <3>1. r \subseteq s /\ r \subseteq u /\ r # u /\ Places(r)
      <4>1. Highest(s) \in s
        BY <1>4, <1>6, <2>4, HighestIs, PlacesAre
      <4>2. Places(r)
        BY <1>4, <1>6, PlacesAre
      <4> QED
        BY <1>4, <1>6, <4>1, <4>2
    <3>2. Newers(events, r, id, G(r)) /\ Newers(events, s, id, G(s))
      BY <1>5, <1>6, <3>1
    <3>3. G(r)[r] = G(s)[r]
      <4> HIDE DEF r, G
      <4> QED
        BY <3>1, <3>2, NewersAgree
    <3>4. step(s) = Appended(G(r)[r], events[Highest(s)], id) /\ G(s)[s] = Appended(G(s)[r], events[Highest(s)], id)
      BY <2>1, <2>4
    <3> QED
      BY <2>2, <3>3, <3>4
  <2> QED
    BY <2>3, <2>4
<1>7. ASSUME NEW s \in SUBSET u PROVE step(s) = IF s = {} THEN Nothing ELSE Appended(h[s \ {Highest(s)}], events[Highest(s)], id)
  <2>1. CASE s = {}
    BY <2>1
  <2>2. CASE s # {}
    <3> DEFINE r == s \ {Highest(s)}
    <3>1. r \subseteq u /\ r # u
      <4>1. Highest(s) \in s
        BY <1>4, <2>2, HighestIs, PlacesAre
      <4> QED
        BY <1>4, <4>1
    <3>2. h[r] = G(r)[r]
      <4> HIDE DEF r, G, h
      <4> QED
        BY <1>6, <3>1
    <3>3. step(s) = Appended(G(r)[r], events[Highest(s)], id)
      BY <2>2
    <3> HIDE DEF h, step, G
    <3> QED
      BY <2>2, <3>2, <3>3
  <2> QED
    BY <2>1, <2>2
<1>8. Newers(events, u, id, h)
  <2>1. h = [s \in SUBSET u |-> step(s)]
    OBVIOUS
  <2> HIDE DEF h, step, G
  <2> QED
    BY <1>7, <2>1 DEF Newers
<1> QED
  BY <1>4, <1>8

Upto(n) == 1..n

\* The places up to one.
LEMMA UptoIs ==
  ASSUME NEW n \in Nat
  PROVE  /\ Places(Upto(n))
         /\ n = 0 => Upto(n) = {}
         /\ n # 0 => Upto(n) # {} /\ Highest(Upto(n)) = n /\ Upto(n) \ {n} = Upto(n - 1)
         /\ \A m \in Nat : n <= m => Upto(n) \subseteq Upto(m)
<1>1. Places(Upto(n)) /\ (n = 0 => Upto(n) = {}) /\ \A m \in Nat : n <= m => Upto(n) \subseteq Upto(m)
  BY DEF Places, Upto
<1>2. ASSUME n # 0 PROVE Upto(n) # {} /\ Upto(n) \ {n} = Upto(n - 1) /\ n \in Upto(n) /\ \A k \in Upto(n) : k \in Nat /\ k <= n
  BY <1>2 DEF Upto
<1>3. ASSUME n # 0 PROVE Highest(Upto(n)) = n
  <2>1. Highest(Upto(n)) \in Upto(n) /\ Highest(Upto(n)) >= n
    BY <1>1, <1>2, <1>3, HighestIs
  <2>2. Highest(Upto(n)) \in Nat /\ Highest(Upto(n)) <= n
    BY <1>2, <1>3, <2>1
  <2> QED
    BY <2>1, <2>2
<1> QED
  BY <1>1, <1>2, <1>3

\* What Since returns of the events, which it looks at one after the other.
LEMMA NewerIs ==
  ASSUME NEW events \in Seq(Nat), NEW id \in Nat
  PROVE  \E h : /\ h[0] = <<>>
                /\ \A n \in 1..Len(events) : h[n] = Appended(h[n - 1], events[n], id)
                /\ L!Newer(events, id) = h[Len(events)]
<1> DEFINE m == Len(events)
           iter(g) == g = [s \in SUBSET DOMAIN events |->
                             IF s = {} THEN <<>>
                             ELSE LET x == CHOOSE k \in s : \A l \in s : k >= l
                                  IN  IF events[x] > id THEN Append(g[s \ {x}], events[x]) ELSE g[s \ {x}]]
<1>1. L!Newer(events, id) = (CHOOSE g : iter(g))[DOMAIN events]
  BY DEF L!Newer, L!FoldLeft, L!MapThenFoldSet, L!Max
<1>2. m \in Nat /\ DOMAIN events = Upto(m)
  BY DEF Upto
<1>3. PICK g : Newers(events, Upto(m), id, g)
  BY <1>2, UptoIs, NewersExist
<1>4. \A k : iter(k) <=> Newers(events, Upto(m), id, k)
  BY <1>2 DEF Newers, Appended, Highest, Nothing
<1> DEFINE c == CHOOSE k : iter(k)
<1>5. Newers(events, Upto(m), id, c)
  <2>1. iter(g)
    BY <1>3, <1>4
  <2>2. iter(c)
    <3> HIDE DEF iter
    <3> QED
      BY <2>1
  <2> HIDE DEF iter, c
  <2> QED
    BY <1>4, <2>2
<1> HIDE DEF iter, m, c
<1> DEFINE h == [n \in 0..m |-> c[Upto(n)]]
<1>6. h[0] = <<>>
  <2>1. Upto(0) = {} /\ Upto(0) \subseteq Upto(m)
    BY <1>2, UptoIs
  <2>2. c[Upto(0)] = Nothing
    BY <1>5, <2>1, NewersIs
  <2> QED
    BY <1>2, <2>2 DEF Nothing
<1>7. ASSUME NEW n \in 1..m PROVE h[n] = Appended(h[n - 1], events[n], id)
  <2>1. n \in Nat /\ n # 0 /\ n <= m /\ n \in 0..m /\ n - 1 \in 0..m
    BY <1>2
  <2>2. Upto(n) \subseteq Upto(m) /\ Upto(n) # {} /\ Highest(Upto(n)) = n /\ Upto(n) \ {n} = Upto(n - 1)
    BY <1>2, <2>1, UptoIs
  <2> DEFINE u == Upto(n)
  <2>3. c[u] = Appended(c[u \ {n}], events[n], id)
    <3>1. u \subseteq Upto(m) /\ u # {} /\ Highest(u) = n
      BY <2>2
    <3> HIDE DEF u
    <3>2. c[u] = IF u = {} THEN Nothing ELSE Appended(c[u \ {Highest(u)}], events[Highest(u)], id)
      BY <1>5, <3>1, NewersIs
    <3> QED
      BY <3>1, <3>2
  <2>4. h[n] = c[Upto(n)] /\ h[n - 1] = c[Upto(n - 1)]
    BY <2>1
  <2> QED
    BY <2>2, <2>3, <2>4
<1>8. L!Newer(events, id) = h[m]
  BY <1>1, <1>2 DEF c
<1> QED
  BY <1>6, <1>7, <1>8 DEF m

\* r has, in order, the events among the first n that are newer.
Newest(r, events, n, id) ==
  /\ r \in Seq(Nat)
  /\ \A i \in 1..Len(r) : r[i] > id /\ \E k \in 1..n : r[i] = events[k]
  /\ \A i, j \in 1..Len(r) : i < j => r[i] < r[j]
  /\ \A k \in 1..n : events[k] > id => \E i \in 1..Len(r) : r[i] = events[k]
  /\ Len(r) = n \/ \E k \in 1..n : events[k] <= id

Ascending(events) == \A k, l \in 1..Len(events) : k < l => events[k] = 0 \/ events[k] < events[l]

\* One more event is at the end of what is newer, or is not newer.
LEMMA OneMore ==
  ASSUME NEW events \in Seq(Nat), Ascending(events), NEW id \in Nat, NEW n \in 1..Len(events),
         NEW r, Newest(r, events, n - 1, id)
  PROVE  Newest(Appended(r, events[n], id), events, n, id)
<1>1. n \in Nat /\ n - 1 \in Nat /\ n > 0 /\ events[n] \in Nat /\ n \in 1..n /\ \A k \in 1..n : k = n \/ k \in 1..(n - 1)
  OBVIOUS
<1>2. \A k \in 1..(n - 1) : events[k] = 0 \/ events[k] < events[n]
  BY <1>1 DEF Ascending
<1>3. r \in Seq(Nat) /\ Len(r) \in Nat
  BY DEF Newest
<1>4. CASE ~(events[n] > id)
  <2>1. Appended(r, events[n], id) = r
    BY <1>4 DEF Appended
  <2>2. \A i \in 1..Len(r) : r[i] > id /\ \E k \in 1..n : r[i] = events[k]
    <3>1. \A k \in 1..(n - 1) : k \in 1..n
      BY <1>1
    <3> QED
      BY <3>1 DEF Newest
  <2>3. \A k \in 1..n : events[k] > id => \E i \in 1..Len(r) : r[i] = events[k]
    BY <1>1, <1>4 DEF Newest
  <2>4. \E k \in 1..n : events[k] <= id
    BY <1>1, <1>4
  <2>5. Newest(r, events, n, id)
    BY <2>2, <2>3, <2>4 DEF Newest
  <2> QED
    BY <2>1, <2>5
<1>5. CASE events[n] > id
  <2> DEFINE q == Append(r, events[n])
             m == Len(r)
  <2>1. Appended(r, events[n], id) = q
    BY <1>5 DEF Appended
  <2>2. q \in Seq(Nat) /\ Len(q) = m + 1 /\ (\A i \in 1..m : q[i] = r[i]) /\ q[m + 1] = events[n] /\ m \in Nat
    BY <1>1, <1>3, AppendProperties
  <2>3. \A i \in 1..m : r[i] \in Nat /\ r[i] > id /\ r[i] < events[n] /\ \E k \in 1..n : r[i] = events[k]
    <3> SUFFICES ASSUME NEW i \in 1..m PROVE r[i] \in Nat /\ r[i] > id /\ r[i] < events[n] /\ \E k \in 1..n : r[i] = events[k]
      OBVIOUS
    <3>1. PICK k \in 1..(n - 1) : r[i] = events[k]
      BY DEF Newest
    <3>2. r[i] > id /\ r[i] \in Nat
      BY <1>3 DEF Newest
    <3>3. events[k] # 0
      BY <3>1, <3>2
    <3>4. k \in 1..n
      BY <1>1
    <3> QED
      BY <1>2, <3>1, <3>2, <3>3, <3>4
  <2>4. \A i \in 1..(m + 1) : i = m + 1 \/ i \in 1..m
    BY <2>2
  <2> HIDE DEF q, m
  <2>5. \A i \in 1..(m + 1) : q[i] > id /\ \E k \in 1..n : q[i] = events[k]
    BY <1>1, <1>5, <2>2, <2>3, <2>4
  <2>6. ASSUME NEW i \in 1..(m + 1), NEW j \in 1..(m + 1), i < j PROVE q[i] < q[j]
    <3>1. i \in 1..m
      BY <2>2, <2>6
    <3>2. CASE j = m + 1
      BY <2>2, <2>3, <3>1, <3>2
    <3>3. CASE j \in 1..m
      <4>1. r[i] < r[j]
        BY <2>6, <3>1, <3>3 DEF Newest, m
      <4> QED
        BY <2>2, <3>1, <3>3, <4>1
    <3> QED
      BY <2>4, <3>2, <3>3
  <2>7. ASSUME NEW k \in 1..n, events[k] > id PROVE \E i \in 1..(m + 1) : q[i] = events[k]
    <3>1. CASE k = n
      BY <2>2, <3>1
    <3>2. CASE k \in 1..(n - 1)
      <4>1. PICK i \in 1..m : r[i] = events[k]
        BY <2>7, <3>2 DEF Newest, m
      <4>2. i \in 1..(m + 1) /\ q[i] = events[k]
        BY <2>2, <4>1
      <4> QED
        BY <4>2
    <3> QED
      BY <1>1, <3>1, <3>2
  <2>8. m + 1 = n \/ \E k \in 1..n : events[k] <= id
    <3>1. m = n - 1 \/ \E k \in 1..(n - 1) : events[k] <= id
      BY DEF Newest, m
    <3>2. \A k \in 1..(n - 1) : k \in 1..n
      BY <1>1
    <3> QED
      BY <1>1, <2>2, <3>1, <3>2
  <2>9. Len(q) = m + 1
    BY <2>2
  <2>10. Newest(q, events, n, id)
    BY <2>2, <2>5, <2>6, <2>7, <2>8, <2>9 DEF Newest
  <2> QED
    BY <2>1, <2>10
<1> QED
  BY <1>4, <1>5

\* What Since returns of events that ascend.
LEMMA NewerIsNewest ==
  ASSUME NEW events \in Seq(Nat), Ascending(events), NEW id \in Nat
  PROVE  Newest(L!Newer(events, id), events, Len(events), id)
<1>1. PICK h : /\ h[0] = <<>>
               /\ \A n \in 1..Len(events) : h[n] = Appended(h[n - 1], events[n], id)
               /\ L!Newer(events, id) = h[Len(events)]
  BY NewerIs
<1> DEFINE bad == {n \in 0..Len(events) : ~Newest(h[n], events, n, id)}
<1>2. Len(events) \in Nat
  OBVIOUS
<1>3. SUFFICES bad = {}
  BY <1>1, <1>2
<1>4. SUFFICES ASSUME bad # {} PROVE FALSE
  OBVIOUS
<1>5. PICK n \in bad : \A m \in bad : n <= m
  <2>1. bad \subseteq Nat
    BY <1>2
  <2> HIDE DEF bad
  <2> QED
    BY <1>4, <2>1, LeastNumber
<1>6. n \in 0..Len(events) /\ ~Newest(h[n], events, n, id) /\ n \in Nat
  BY <1>2
<1>7. n # 0
  <2>1. Newest(<<>>, events, 0, id)
    <3>1. <<>> \in Seq(Nat) /\ Len(<<>>) = 0 /\ 1..0 = {}
      OBVIOUS
    <3> QED
      BY <3>1 DEF Newest
  <2> QED
    BY <1>1, <1>6, <2>1
<1>8. n - 1 \in 0..Len(events) /\ n \in 1..Len(events) /\ ~(n <= n - 1)
  BY <1>2, <1>6, <1>7
<1>9. Newest(h[n - 1], events, n - 1, id)
  BY <1>5, <1>8
<1> QED
  BY <1>1, <1>6, <1>8, <1>9, OneMore

-----------------------------------------------------------------------------
(* The ring *)

Slots == 1..RingSize
Place(n, k) == IF n + k - 1 <= RingSize THEN n + k - 1 ELSE n + k - 1 - RingSize

\* From the oldest place on every place comes once.
LEMMA PlaceIs ==
  ASSUME NEW n \in Slots
  PROVE  /\ \A k \in Slots : Place(n, k) \in Slots
         /\ \A p \in Slots : \E k \in Slots : Place(n, k) = p
         /\ Place(n, 1) = n /\ RingSize \in Slots /\ 1 \in Slots
         /\ L!Following(n) \in Slots
         /\ Place(L!Following(n), RingSize) = n
         /\ \A k \in Slots : k # RingSize => k + 1 \in Slots /\ Place(L!Following(n), k) = Place(n, k + 1) /\ Place(n, k + 1) # n
<1>1. RingSize \in Nat /\ RingSize > 0 /\ n \in Nat /\ n > 0 /\ n <= RingSize
  BY EventsAssumption DEF Slots
<1>2. ASSUME NEW k \in Slots PROVE Place(n, k) \in Slots
  BY <1>1 DEF Slots, Place
<1>3. ASSUME NEW p \in Slots PROVE \E k \in Slots : Place(n, k) = p
  <2>1. CASE p >= n
    <3>1. p - n + 1 \in Slots /\ Place(n, p - n + 1) = p
      BY <1>1, <2>1 DEF Slots, Place
    <3> QED
      BY <3>1
  <2>2. CASE p < n
    <3>1. p + RingSize - n + 1 \in Slots /\ Place(n, p + RingSize - n + 1) = p
      BY <1>1, <2>2 DEF Slots, Place
    <3> QED
      BY <3>1
  <2> QED
    BY <1>1, <2>1, <2>2 DEF Slots
<1>4. Place(n, 1) = n /\ RingSize \in Slots /\ 1 \in Slots /\ L!Following(n) \in Slots /\ Place(L!Following(n), RingSize) = n
  BY <1>1 DEF Slots, Place, L!Following
<1>5. ASSUME NEW k \in Slots, k # RingSize
      PROVE  k + 1 \in Slots /\ Place(L!Following(n), k) = Place(n, k + 1) /\ Place(n, k + 1) # n
  BY <1>1, <1>5 DEF Slots, Place, L!Following
<1> QED
  BY <1>2, <1>3, <1>4, <1>5

\* InOrder has the events from the oldest place on.
LEMMA InOrderIs ==
  ASSUME NEW s, ring[s] \in [Slots -> Nat], next[s] \in Slots
  PROVE  /\ L!InOrder(s) \in Seq(Nat) /\ Len(L!InOrder(s)) = RingSize
         /\ \A k \in Slots : L!InOrder(s)[k] = ring[s][Place(next[s], k)]
<1> DEFINE buf == ring[s]
           n == next[s]
           x == SubSeq(buf, n, RingSize)
           y == SubSeq(buf, 1, n - 1)
<1>1. RingSize \in Nat /\ RingSize > 0 /\ n \in Nat /\ n > 0 /\ n <= RingSize /\ buf \in Seq(Nat) /\ Len(buf) = RingSize
  BY EventsAssumption DEF Slots
<1> HIDE DEF buf, n
<1>2. x \in Seq(Nat) /\ Len(x) = RingSize - n + 1 /\ \A k \in 1..(RingSize - n + 1) : x[k] = buf[n + k - 1]
  BY <1>1, SubSeqProperties
<1>3. y \in Seq(Nat) /\ Len(y) = n - 1 /\ \A k \in 1..(n - 1) : y[k] = buf[k]
  BY <1>1, SubSeqProperties
<1> HIDE DEF x, y
<1>4. x \o y \in Seq(Nat) /\ Len(x \o y) = RingSize
      /\ \A k \in 1..RingSize : (x \o y)[k] = IF k <= RingSize - n + 1 THEN x[k] ELSE y[k - (RingSize - n + 1)]
  <2>1. /\ x \o y \in Seq(Nat) /\ Len(x \o y) = Len(x) + Len(y)
        /\ \A k \in 1..(Len(x) + Len(y)) : (x \o y)[k] = IF k <= Len(x) THEN x[k] ELSE y[k - Len(x)]
    BY <1>2, <1>3, ConcatProperties
  <2>2. Len(x) = RingSize - n + 1 /\ Len(x) + Len(y) = RingSize
    BY <1>1, <1>2, <1>3
  <2> QED
    BY <2>1, <2>2
<1>5. ASSUME NEW k \in Slots PROVE (x \o y)[k] = buf[Place(n, k)]
  <2>1. CASE k <= RingSize - n + 1
    <3>1. k \in 1..(RingSize - n + 1) /\ Place(n, k) = n + k - 1
      BY <1>1, <2>1 DEF Slots, Place
    <3>2. (x \o y)[k] = x[k]
      BY <1>4, <2>1 DEF Slots
    <3> QED
      BY <1>2, <3>1, <3>2
  <2>2. CASE ~(k <= RingSize - n + 1)
    <3>1. k - (RingSize - n + 1) \in 1..(n - 1) /\ Place(n, k) = k - (RingSize - n + 1)
      BY <1>1, <2>2 DEF Slots, Place
    <3>2. (x \o y)[k] = y[k - (RingSize - n + 1)]
      BY <1>4, <2>2 DEF Slots
    <3> QED
      BY <1>3, <3>1, <3>2
  <2> QED
    BY <2>1, <2>2
<1>6. L!InOrder(s) = x \o y
  BY DEF L!InOrder, x, y, buf, n
<1> QED
  BY <1>4, <1>5, <1>6 DEF buf, n

-----------------------------------------------------------------------------
(* The event logger *)

\* The k-th place of the ring from the oldest on.
Kth(s, k) == ring[s][Place(next[s], k)]

\* The ring ends with cur, what is in the channel comes after it, and what was dropped is in neither.
InRing(s) ==
  /\ \A k, l \in Slots : k < l => Kth(s, k) = 0 \/ Kth(s, k) < Kth(s, l)
  /\ Kth(s, RingSize) = cur[s]
InChannel(s) ==
  /\ \A j \in 1..Len(channel[s]) : channel[s][j] > cur[s]
  /\ \A j, l \in 1..Len(channel[s]) : j < l => channel[s][j] < channel[s][l]
Waits(s, e) == \E j \in 1..Len(channel[s]) : channel[s][j] = e
Kept(s, e) == \E k \in Slots : ring[s][k] = e
Gone(s) == \A e \in dropped[s] : e > 0 /\ ~Waits(s, e) /\ ~Kept(s, e)
\* What has become of an event: dropped, on its way, in the ring, or pushed out of it.
Accounted(s, e) == e \in dropped[s] \/ Waits(s, e) \/ Kept(s, e) \/ e < Kth(s, 1)
Reached(s, e) == e <= cur[s] \/ \E j \in 1..Len(channel[s]) : e <= channel[s][j]
AllAccounted(s) == \A e \in Nat : e > 0 /\ Reached(s, e) => Accounted(s, e)
Sound(s) == InRing(s) /\ InChannel(s) /\ Gone(s) /\ AllAccounted(s)

\* n is the number of the next event of the subscription.
Numbered(s, n) ==
  /\ n > 0 /\ cur[s] < n
  /\ \A j \in 1..Len(channel[s]) : channel[s][j] < n
  /\ \A e \in dropped[s] : e < n
  /\ \A e \in Nat : e > 0 /\ e < n => Accounted(s, e)
New(s) == open[s] = "new" => channel[s] = <<>> /\ cur[s] = 0 /\ dropped[s] = {}
Subs == 1..Len(logSubs)
\* Nobody subscribes twice.
OneEach ==
  /\ \A i, j \in Subs : logSubs[i] = logSubs[j] => i = j
  /\ \A i \in Subs : open[logSubs[i]] # "new"

Subscription(s) ==
  /\ channel[s] \in Seq(Nat) /\ ring[s] \in [Slots -> Nat] /\ next[s] \in Slots /\ cur[s] \in Nat
  /\ since[s] \in Nat /\ found[s] \in Seq(Nat) /\ dropped[s] \subseteq Nat
Functions ==
  /\ channel \in [Listeners -> Seq(Nat)] /\ ring \in [Listeners -> [Slots -> Nat]]
  /\ next \in [Listeners -> Slots] /\ cur \in [Listeners -> Nat]
  /\ since \in [Listeners -> Nat] /\ found \in [Listeners -> Seq(Nat)] /\ dropped \in [Listeners -> SUBSET Nat]
Logger ==
  /\ open \in [Listeners -> {"new", "open", "closed"}]
  /\ logSubs \in Seq(Listeners) /\ nextIDs \in Seq(Nat) /\ Len(nextIDs) = Len(logSubs)
  /\ sending \in 0..Len(logSubs)

\* The number that the next event of a subscription gets.
Gets(s, n) == \E i \in Subs : logSubs[i] = s /\ nextIDs[i] = n

EventsInv ==
  /\ Logger /\ Functions /\ OneEach
  /\ \A s \in Listeners : Sound(s) /\ L!Readers(s) /\ New(s)
  /\ \A s \in Listeners, n \in Nat : Gets(s, n) => Numbered(s, n)

SameRing(s) ==
  /\ ring'[s] = ring[s] /\ next'[s] = next[s] /\ cur'[s] = cur[s]
  /\ channel'[s] = channel[s] /\ dropped'[s] = dropped[s]

\* What is said of a subscription says nothing of others.
LEMMA Elsewhere ==
  ASSUME NEW s, SameRing(s)
  PROVE  /\ Sound(s) => Sound(s)'
         /\ \A n : Numbered(s, n) => Numbered(s, n)'
         /\ since'[s] = since[s] /\ found'[s] = found[s] /\ L!Readers(s) => L!Readers(s)'
         /\ open'[s] = open[s] /\ New(s) => New(s)'
<1>1. \A k : Kth(s, k)' = Kth(s, k)
  BY DEF SameRing, Kth
<1>2. \A e : Waits(s, e)' = Waits(s, e) /\ Kept(s, e)' = Kept(s, e) /\ Reached(s, e)' = Reached(s, e)
  BY DEF SameRing, Waits, Kept, Reached
<1>3. \A e : Accounted(s, e)' = Accounted(s, e)
  BY <1>1, <1>2 DEF SameRing, Accounted
<1>4. InRing(s) => InRing(s)'
  BY <1>1 DEF SameRing, InRing
<1>5. InChannel(s) => InChannel(s)'
  BY DEF SameRing, InChannel
<1>6. Gone(s) => Gone(s)'
  BY <1>2 DEF SameRing, Gone
<1>7. AllAccounted(s) => AllAccounted(s)'
  BY <1>2, <1>3 DEF AllAccounted
<1>8. ASSUME NEW n PROVE Numbered(s, n) => Numbered(s, n)'
  BY <1>3 DEF SameRing, Numbered
<1>9. since'[s] = since[s] /\ found'[s] = found[s] /\ L!Readers(s) => L!Readers(s)'
  BY DEF SameRing, L!Readers, L!Last
<1>10. open'[s] = open[s] /\ New(s) => New(s)'
  BY DEF SameRing, New
<1> QED
  BY <1>4, <1>5, <1>6, <1>7, <1>8, <1>9, <1>10 DEF Sound

\* The ring ascends from its oldest place on, so it has nothing newer than cur.
LEMMA RingAscends ==
  ASSUME NEW s, Subscription(s), InRing(s)
  PROVE  /\ \A k \in Slots : Kth(s, k) \in Nat /\ Kth(s, k) <= cur[s]
         /\ \A k \in Slots : Kth(s, 1) = 0 \/ Kth(s, 1) <= Kth(s, k)
         /\ \A e : Kept(s, e) <=> \E k \in Slots : Kth(s, k) = e
<1>1. next[s] \in Slots /\ RingSize \in Nat /\ 1 \in Slots /\ RingSize \in Slots /\ ring[s] \in [Slots -> Nat]
  BY EventsAssumption, PlaceIs DEF Subscription
<1>2. /\ \A k \in Slots : Place(next[s], k) \in Slots
      /\ \A p \in Slots : \E k \in Slots : Place(next[s], k) = p
  BY <1>1, PlaceIs
<1>0. \A k \in Slots : k \in Nat /\ k >= 1 /\ k <= RingSize
  BY <1>1 DEF Slots
<1>3. \A k \in Slots : Kth(s, k) \in Nat
  BY <1>1, <1>2 DEF Kth
<1>4. ASSUME NEW k \in Slots PROVE Kth(s, k) <= cur[s] /\ (Kth(s, 1) = 0 \/ Kth(s, 1) <= Kth(s, k))
  <2>1. Kth(s, RingSize) = cur[s] /\ cur[s] \in Nat
    BY <1>1, <1>3 DEF InRing
  <2>2. k = RingSize \/ k < RingSize
    <3>1. k \in Nat /\ k <= RingSize /\ RingSize \in Nat
      BY <1>0, <1>1
    <3> QED
      BY <3>1
  <2>3. Kth(s, k) <= cur[s]
    <3>1. Kth(s, k) \in Nat
      BY <1>3
    <3>2. CASE k < RingSize
      <4>1. Kth(s, k) = 0 \/ Kth(s, k) < Kth(s, RingSize)
        BY <1>1, <3>2 DEF InRing
      <4> QED
        BY <2>1, <3>1, <4>1
    <3> QED
      BY <2>1, <2>2, <3>1, <3>2
  <2>4. k = 1 \/ 1 < k
    BY <1>0
  <2>5. Kth(s, 1) = 0 \/ Kth(s, 1) <= Kth(s, k)
    BY <1>1, <1>3, <2>4 DEF InRing
  <2> QED
    BY <2>3, <2>5
<1>5. ASSUME NEW e PROVE Kept(s, e) <=> \E k \in Slots : Kth(s, k) = e
  BY <1>2 DEF Kept, Kth
<1> QED
  BY <1>3, <1>4, <1>5

\* What a subscription has to do with an event that a step adds to its channel.
LEMMA ChannelGrows ==
  ASSUME NEW s, Subscription(s), Sound(s), NEW n \in Nat, Numbered(s, n),
         ring'[s] = ring[s], next'[s] = next[s], cur'[s] = cur[s], dropped'[s] = dropped[s],
         channel'[s] = Append(channel[s], n)
  PROVE  Sound(s)' /\ Numbered(s, n + 1)'
<1> DEFINE m == Len(channel[s])
           c == channel'[s]
<1>1. m \in Nat /\ channel[s] \in Seq(Nat) /\ cur[s] \in Nat /\ dropped[s] \subseteq Nat
  BY DEF Subscription
<1>2. c \in Seq(Nat) /\ Len(c) = m + 1 /\ (\A j \in 1..m : c[j] = channel[s][j]) /\ c[m + 1] = n
  BY <1>1, AppendProperties
<1>3. /\ \A j \in 1..(m + 1) : j = m + 1 \/ j \in 1..m
      /\ \A j \in 1..m : j \in 1..(m + 1) /\ channel[s][j] \in Nat /\ channel[s][j] < n
      /\ m + 1 \in 1..(m + 1)
  BY <1>1 DEF Numbered
<1>4. cur[s] < n /\ \A e \in dropped[s] : e < n
  BY DEF Numbered
<1>5. \A k : Kth(s, k)' = Kth(s, k)
  BY DEF Kth
<1>6. \A e : Kept(s, e)' = Kept(s, e)
  BY DEF Kept
<1>7. \A e : Waits(s, e)' <=> Waits(s, e) \/ e = n
  <2> HIDE DEF c, m
  <2>1. \A e : Waits(s, e) <=> \E j \in 1..m : channel[s][j] = e
    BY DEF Waits, m
  <2>2. \A e : Waits(s, e)' <=> \E j \in 1..(m + 1) : c[j] = e
    BY <1>2 DEF Waits, c
  <2> QED
    BY <1>2, <1>3, <2>1, <2>2
<1>8. \A e : Accounted(s, e)' <=> Accounted(s, e) \/ e = n
  BY <1>5, <1>6, <1>7 DEF Accounted
<1>9. \A e \in Nat : e > 0 /\ e < n => Accounted(s, e)
  BY DEF Numbered
<1>10. \A e \in Nat : e > 0 /\ e < n + 1 => Accounted(s, e)'
  <2> SUFFICES ASSUME NEW e \in Nat, e > 0, e < n + 1 PROVE Accounted(s, e)'
    OBVIOUS
  <2>1. e = n \/ e < n
    OBVIOUS
  <2> QED
    BY <1>8, <1>9, <2>1
<1> HIDE DEF c, m
<1>11. \A j \in 1..(m + 1) : c[j] \in Nat /\ c[j] <= n
  BY <1>2, <1>3
<1>12. InRing(s)'
  BY <1>5 DEF Sound, InRing
<1>13. InChannel(s)'
  <2>1. \A j \in 1..(m + 1) : c[j] > cur[s]
    <3>1. \A j \in 1..m : channel[s][j] > cur[s]
      BY DEF Sound, InChannel, m
    <3> QED
      BY <1>2, <1>3, <1>4, <3>1
  <2>2. \A j, l \in 1..(m + 1) : j < l => c[j] < c[l]
    <3> SUFFICES ASSUME NEW j \in 1..(m + 1), NEW l \in 1..(m + 1), j < l PROVE c[j] < c[l]
      OBVIOUS
    <3>1. j \in 1..m
      BY <1>1
    <3>2. CASE l = m + 1
      BY <1>2, <1>3, <3>1, <3>2
    <3>3. CASE l \in 1..m
      <4>1. channel[s][j] < channel[s][l]
        BY <3>1, <3>3 DEF Sound, InChannel, m
      <4> QED
        BY <1>2, <3>1, <3>3, <4>1
    <3> QED
      BY <1>3, <3>2, <3>3
  <2> QED
    BY <1>2, <2>1, <2>2 DEF InChannel, c
<1>14. Gone(s)'
  <2>1. \A e \in dropped[s] : e > 0 /\ ~Waits(s, e) /\ ~Kept(s, e) /\ e # n
    BY <1>1, <1>4 DEF Sound, Gone
  <2> QED
    BY <1>6, <1>7, <2>1 DEF Gone
<1>15. AllAccounted(s)'
  <2> SUFFICES ASSUME NEW e \in Nat, e > 0, Reached(s, e)' PROVE Accounted(s, e)'
    BY DEF AllAccounted
  <2>1. e <= cur[s] \/ \E j \in 1..(m + 1) : e <= c[j]
    BY <1>2 DEF Reached, c
  <2>2. e < n + 1
    <3>1. CASE e <= cur[s]
      BY <1>1, <1>4, <3>1
    <3>2. CASE \E j \in 1..(m + 1) : e <= c[j]
      BY <1>11, <3>2
    <3> QED
      BY <2>1, <3>1, <3>2
  <2> QED
    BY <1>10, <2>2
<1>16. Numbered(s, n + 1)'
  <2>1. n + 1 > 0 /\ cur[s] < n + 1 /\ (\A j \in 1..(m + 1) : c[j] < n + 1) /\ \A e \in dropped[s] : e < n + 1
    BY <1>1, <1>4, <1>11
  <2> QED
    BY <1>2, <1>10, <2>1 DEF Numbered, c
<1> QED
  BY <1>12, <1>13, <1>14, <1>15, <1>16 DEF Sound

\* What a subscription has to do with an event that did not fit.
LEMMA DroppedGrows ==
  ASSUME NEW s, Subscription(s), Sound(s), L!Readers(s), NEW n \in Nat, Numbered(s, n),
         ring'[s] = ring[s], next'[s] = next[s], cur'[s] = cur[s], channel'[s] = channel[s],
         since'[s] = since[s], found'[s] = found[s], dropped'[s] = dropped[s] \cup {n}
  PROVE  Sound(s)' /\ L!Readers(s)' /\ Numbered(s, n + 1)'
<1>1. channel[s] \in Seq(Nat) /\ Len(channel[s]) \in Nat /\ cur[s] \in Nat /\ dropped[s] \subseteq Nat
  BY DEF Subscription
<1>2. cur[s] < n /\ n > 0 /\ (\A j \in 1..Len(channel[s]) : channel[s][j] < n) /\ \A e \in dropped[s] : e < n
  BY DEF Numbered
<1>3. \A k : Kth(s, k)' = Kth(s, k)
  BY DEF Kth
<1>4. \A e : Kept(s, e)' = Kept(s, e) /\ Waits(s, e)' = Waits(s, e) /\ Reached(s, e)' = Reached(s, e)
  BY DEF Kept, Waits, Reached
<1>5. \A e : Accounted(s, e)' <=> Accounted(s, e) \/ e = n
  BY <1>3, <1>4 DEF Accounted
<1>6. InRing(s)' /\ InChannel(s)'
  BY <1>3 DEF Sound, InRing, InChannel
<1>7. Gone(s)'
  <2>1. ~Waits(s, n)
    <3> SUFFICES ASSUME NEW j \in 1..Len(channel[s]), channel[s][j] = n PROVE FALSE
      BY DEF Waits
    <3>1. channel[s][j] < n
      BY <1>2
    <3> QED
      BY <3>1
  <2>2. ~Kept(s, n)
    <3> SUFFICES ASSUME Kept(s, n) PROVE FALSE
      OBVIOUS
    <3>1. PICK k \in Slots : Kth(s, k) = n /\ Kth(s, k) <= cur[s]
      BY RingAscends DEF Sound
    <3> QED
      BY <1>1, <1>2, <3>1
  <2>3. \A e \in dropped[s] : e > 0 /\ ~Waits(s, e) /\ ~Kept(s, e)
    BY DEF Sound, Gone
  <2> QED
    BY <1>2, <1>4, <2>1, <2>2, <2>3 DEF Gone
<1>8. AllAccounted(s)'
  BY <1>4, <1>5 DEF Sound, AllAccounted
<1>9. L!Readers(s)'
  BY DEF L!Readers, L!Last
<1>10. Numbered(s, n + 1)'
  <2>1. n + 1 > 0 /\ cur[s] < n + 1 /\ \A e \in dropped[s] \cup {n} : e < n + 1
    BY <1>1, <1>2
  <2>2. \A j \in 1..Len(channel[s]) : channel[s][j] < n + 1
    <3> SUFFICES ASSUME NEW j \in 1..Len(channel[s]) PROVE channel[s][j] < n + 1
      OBVIOUS
    <3>1. channel[s][j] < n /\ channel[s][j] \in Nat
      BY <1>1, <1>2
    <3> QED
      BY <3>1
  <2>3. ASSUME NEW e \in Nat, e > 0, e < n + 1 PROVE Accounted(s, e)'
    <3>1. e = n \/ e < n
      BY <2>3
    <3> QED
      BY <1>5, <2>3, <3>1 DEF Numbered
  <2> QED
    BY <2>1, <2>2, <2>3 DEF Numbered
<1> QED
  BY <1>6, <1>7, <1>8, <1>9, <1>10 DEF Sound

\* What Poll does to a subscription.
Polled(s) ==
  /\ channel[s] # <<>>
  /\ channel'[s] = Tail(channel[s]) /\ cur'[s] = Head(channel[s])
  /\ ring'[s] = [ring[s] EXCEPT ![next[s]] = Head(channel[s])] /\ next'[s] = L!Following(next[s])
  /\ dropped'[s] = dropped[s]

\* The oldest event makes room for the one polled.
LEMMA PollKeeps ==
  ASSUME NEW s, Subscription(s), Sound(s), Polled(s)
  PROVE  Sound(s)' /\ \A n \in Nat : Numbered(s, n) => Numbered(s, n)'
<1> DEFINE h == Head(channel[s])
           m == Len(channel[s])
           c == channel'[s]
<1>1. /\ channel[s] \in Seq(Nat) /\ cur[s] \in Nat /\ dropped[s] \subseteq Nat
      /\ next[s] \in Slots /\ RingSize \in Slots /\ 1 \in Slots /\ ring[s] \in [Slots -> Nat]
  BY PlaceIs DEF Subscription
<1>2. m \in Nat /\ m > 0 /\ h = channel[s][1] /\ h \in Nat /\ c \in Seq(Nat) /\ Len(c) = m - 1
      /\ \A j \in 1..(m - 1) : c[j] = channel[s][j + 1]
  BY <1>1, HeadTailProperties, EmptySeq DEF Polled
<1>3. /\ \A j \in 1..(m - 1) : j + 1 \in 1..m
      /\ \A j \in 1..m : j = 1 \/ (j - 1 \in 1..(m - 1) /\ (j - 1) + 1 = j /\ j > 1)
      /\ 1 \in 1..m
  <2>1. m \in Nat /\ m > 0
    BY <1>2
  <2> HIDE DEF m
  <2>2. \A j \in 1..(m - 1) : j + 1 \in 1..m
    BY <2>1
  <2>3. 1 \in 1..m
    BY <2>1
  <2>4. ASSUME NEW j \in 1..m PROVE j = 1 \/ (j - 1 \in 1..(m - 1) /\ (j - 1) + 1 = j /\ j > 1)
    BY <2>1
  <2> QED
    BY <2>2, <2>3, <2>4
<1>4. h > cur[s] /\ \A j \in 1..(m - 1) : c[j] > h
  <2>1. channel[s][1] > cur[s] /\ \A j \in 1..m : 1 < j => channel[s][1] < channel[s][j]
    BY <1>3 DEF Sound, InChannel
  <2>2. ASSUME NEW j \in 1..(m - 1) PROVE c[j] > h
    <3>1. j + 1 \in 1..m /\ 1 < j + 1
      BY <1>3
    <3>2. channel[s][1] < channel[s][j + 1]
      BY <2>1, <3>1
    <3> HIDE DEF c, h, m
    <3>3. channel[s][j + 1] \in Nat
      BY <1>1, <3>1, ElementOfSeq DEF m
    <3> QED
      BY <1>2, <3>2, <3>3
  <2> QED
    BY <1>2, <2>1, <2>2
<1>5. /\ Kth(s, RingSize)' = h
      /\ \A k \in Slots : k # RingSize => k + 1 \in Slots /\ Kth(s, k)' = Kth(s, k + 1)
  <2>1. \A p \in Slots : ring'[s][p] = IF p = next[s] THEN h ELSE ring[s][p]
    BY <1>1 DEF Polled
  <2>2. Kth(s, RingSize)' = ring'[s][next[s]]
    BY <1>1, PlaceIs DEF Kth, Polled
  <2>3. ASSUME NEW k \in Slots, k # RingSize PROVE k + 1 \in Slots /\ Kth(s, k)' = Kth(s, k + 1)
    <3>1. k + 1 \in Slots /\ Place(L!Following(next[s]), k) = Place(next[s], k + 1) /\ Place(next[s], k + 1) # next[s]
      BY <1>1, <2>3, PlaceIs
    <3>2. Place(next[s], k + 1) \in Slots
      BY <1>1, <3>1, PlaceIs
    <3> QED
      BY <2>1, <3>1, <3>2 DEF Kth, Polled
  <2> QED
    BY <1>1, <2>1, <2>2, <2>3
<1>6. /\ \A k \in Slots : Kth(s, k) \in Nat /\ Kth(s, k) <= cur[s]
      /\ \A k \in Slots : Kth(s, 1) = 0 \/ Kth(s, 1) <= Kth(s, k)
      /\ \A e : Kept(s, e) <=> \E k \in Slots : Kth(s, k) = e
  BY RingAscends DEF Sound
<1>7. \A k \in Slots : k \in Nat /\ k >= 1 /\ k <= RingSize
  BY EventsAssumption DEF Slots
<1> HIDE DEF c, h, m
<1>8. InRing(s)'
  <2>1. ASSUME NEW k \in Slots, NEW l \in Slots, k < l PROVE Kth(s, k)' = 0 \/ Kth(s, k)' < Kth(s, l)'
    <3>1. k \in Nat /\ l \in Nat /\ l <= RingSize /\ RingSize \in Nat
      BY <1>1, <1>7
    <3>2. k # RingSize
      BY <2>1, <3>1
    <3>3. k + 1 \in Slots /\ Kth(s, k)' = Kth(s, k + 1)
      BY <1>5, <3>2
    <3>4. CASE l = RingSize
      <4>1. Kth(s, k + 1) \in Nat /\ Kth(s, k + 1) <= cur[s]
        BY <1>6, <3>3
      <4> QED
        BY <1>1, <1>2, <1>4, <1>5, <3>3, <3>4, <4>1
    <3>5. CASE l # RingSize
      <4>1. l + 1 \in Slots /\ Kth(s, l)' = Kth(s, l + 1)
        BY <1>5, <3>5
      <4>2. k + 1 < l + 1
        BY <2>1, <3>1
      <4>3. Kth(s, k + 1) = 0 \/ Kth(s, k + 1) < Kth(s, l + 1)
        BY <3>3, <4>1, <4>2 DEF Sound, InRing
      <4> QED
        BY <3>3, <4>1, <4>3
    <3> QED
      BY <3>4, <3>5
  <2>2. (cur[s])' = h
    BY DEF Polled, h
  <2> QED
    BY <1>5, <2>1, <2>2 DEF InRing
<1>9. InChannel(s)'
  <2>1. ASSUME NEW j \in 1..(m - 1), NEW l \in 1..(m - 1), j < l PROVE c[j] < c[l]
    <3>1. j + 1 \in 1..m /\ l + 1 \in 1..m /\ j + 1 < l + 1
      BY <1>3, <2>1
    <3>2. channel[s][j + 1] < channel[s][l + 1]
      BY <3>1 DEF Sound, InChannel, m
    <3> QED
      BY <1>2, <3>2
  <2> QED
    BY <1>2, <1>4, <2>1 DEF InChannel, Polled, c, h
<1>10. \A e : Waits(s, e) <=> e = h \/ Waits(s, e)'
  <2>1. \A e : Waits(s, e) <=> \E j \in 1..m : channel[s][j] = e
    BY DEF Waits, m
  <2>2. \A e : Waits(s, e)' <=> \E j \in 1..(m - 1) : c[j] = e
    BY <1>2 DEF Waits, c
  <2>3. \A j \in 1..m : j = 1 \/ \E i \in 1..(m - 1) : c[i] = channel[s][j]
    <3> SUFFICES ASSUME NEW j \in 1..m, j # 1 PROVE \E i \in 1..(m - 1) : c[i] = channel[s][j]
      OBVIOUS
    <3>1. j - 1 \in 1..(m - 1) /\ (j - 1) + 1 = j
      BY <1>3
    <3>2. c[j - 1] = channel[s][j]
      BY <1>2, <3>1
    <3> QED
      BY <3>1, <3>2
  <2> QED
    BY <1>2, <1>3, <2>1, <2>2, <2>3
<1>11. \A e : Kept(s, e)' <=> e = h \/ \E k \in Slots : k # next[s] /\ ring[s][k] = e
  <2>1. \A p \in Slots : ring'[s][p] = IF p = next[s] THEN h ELSE ring[s][p]
    BY <1>1 DEF Polled, h
  <2> QED
    BY <1>1, <2>1 DEF Kept
<1>12. Kth(s, 1) = ring[s][next[s]]
  BY <1>1, PlaceIs DEF Kth
<1>13. Kth(s, 1)' \in Nat /\ (Kth(s, 1) > 0 => Kth(s, 1) < Kth(s, 1)')
  <2>1. CASE RingSize = 1
    <3>1. Kth(s, 1) \in Nat /\ Kth(s, 1) <= cur[s] /\ Kth(s, 1)' = h
      BY <1>1, <1>5, <1>6, <2>1
    <3> QED
      BY <1>1, <1>2, <1>4, <3>1
  <2>2. CASE RingSize # 1
    <3>1. 1 + 1 \in Slots /\ Kth(s, 1)' = Kth(s, 1 + 1)
      BY <1>1, <1>5, <2>2
    <3>2. Kth(s, 1) = 0 \/ Kth(s, 1) < Kth(s, 1 + 1)
      BY <1>1, <3>1 DEF Sound, InRing
    <3>3. Kth(s, 1) \in Nat /\ Kth(s, 1 + 1) \in Nat
      BY <1>1, <1>6, <3>1
    <3> QED
      BY <3>1, <3>2, <3>3
  <2> QED
    BY <2>1, <2>2
<1>14. Gone(s)'
  <2>1. \A e \in dropped[s] : e > 0 /\ ~Waits(s, e) /\ ~Kept(s, e)
    BY DEF Sound, Gone
  <2>2. \A e \in dropped[s] : ~Waits(s, e)' /\ ~Kept(s, e)'
    BY <1>10, <1>11, <2>1 DEF Kept
  <2> QED
    BY <2>1, <2>2 DEF Gone, Polled
<1>15. ASSUME NEW e \in Nat, e > 0, Accounted(s, e) PROVE Accounted(s, e)'
  <2>1. CASE e \in dropped[s]
    BY <2>1 DEF Accounted, Polled
  <2>2. CASE Waits(s, e)
    BY <1>10, <1>11, <2>2 DEF Accounted
  <2>3. CASE Kept(s, e)
    <3>1. PICK k \in Slots : ring[s][k] = e
      BY <2>3 DEF Kept
    <3>2. CASE k = next[s]
      <4>1. e = Kth(s, 1)
        BY <1>12, <3>1, <3>2
      <4>2. e < Kth(s, 1)'
        BY <1>13, <1>15, <4>1
      <4> QED
        BY <4>2 DEF Accounted
    <3>3. CASE k # next[s]
      BY <1>11, <3>1, <3>3 DEF Accounted
    <3> QED
      BY <3>2, <3>3
  <2>4. CASE e < Kth(s, 1)
    <3>1. Kth(s, 1) \in Nat
      BY <1>1, <1>6
    <3>2. e < Kth(s, 1)'
      BY <1>13, <1>15, <2>4, <3>1
    <3> QED
      BY <3>2 DEF Accounted
  <2> QED
    BY <1>15, <2>1, <2>2, <2>3, <2>4 DEF Accounted
<1>16. ASSUME NEW e \in Nat, Reached(s, e)' PROVE Reached(s, e)
  <2>1. e <= h \/ \E j \in 1..(m - 1) : e <= c[j]
    BY <1>2, <1>16 DEF Reached, Polled, c, h
  <2>2. \E j \in 1..m : e <= channel[s][j]
    <3>1. CASE e <= h
      BY <1>2, <1>3, <3>1
    <3>2. CASE \E j \in 1..(m - 1) : e <= c[j]
      BY <1>2, <1>3, <3>2
    <3> QED
      BY <2>1, <3>1, <3>2
  <2> QED
    BY <2>2 DEF Reached, m
<1>17. AllAccounted(s)'
  BY <1>15, <1>16 DEF Sound, AllAccounted
<1>18. ASSUME NEW n \in Nat, Numbered(s, n) PROVE Numbered(s, n)'
  <2>1. \A j \in 1..m : channel[s][j] < n
    BY <1>18 DEF Numbered, m
  <2>2. (cur[s])' < n
    BY <1>2, <1>3, <2>1 DEF Polled, h
  <2>3. \A j \in 1..(m - 1) : c[j] < n
    BY <1>2, <1>3, <2>1
  <2>4. n > 0 /\ (\A e \in dropped[s] : e < n) /\ \A e \in Nat : e > 0 /\ e < n => Accounted(s, e)
    BY <1>18 DEF Numbered
  <2>5. \A e \in Nat : e > 0 /\ e < n => Accounted(s, e)'
    BY <1>15, <2>4
  <2>6. Len(channel'[s]) = m - 1 /\ dropped'[s] = dropped[s]
    BY <1>2 DEF c, Polled
  <2> QED
    BY <2>2, <2>3, <2>4, <2>5, <2>6 DEF Numbered, c
<1> QED
  BY <1>8, <1>9, <1>14, <1>17, <1>18 DEF Sound

\* What Since returns accounts for every event up to the last one.
LEMMA SinceReads ==
  ASSUME NEW s, Subscription(s), Sound(s), NEW id \in Nat, id < cur[s], SameRing(s),
         since'[s] = id, found'[s] = L!Newer(L!InOrder(s), id)
  PROVE  L!Readers(s)' /\ found'[s] \in Seq(Nat)
<1> DEFINE r == found'[s]
           x == L!InOrder(s)
           m == Len(r)
<1>1. cur[s] \in Nat /\ next[s] \in Slots /\ RingSize \in Slots /\ 1 \in Slots /\ ring[s] \in [Slots -> Nat]
      /\ RingSize \in Nat /\ Slots = 1..RingSize
  BY PlaceIs, EventsAssumption DEF Subscription, Slots
<1>2. x \in Seq(Nat) /\ Len(x) = RingSize /\ \A k \in Slots : x[k] = Kth(s, k)
  BY <1>1, InOrderIs DEF Kth
<1>3. Ascending(x)
  BY <1>1, <1>2 DEF Ascending, Sound, InRing
<1>4. Newest(r, x, RingSize, id)
  <2> HIDE DEF x
  <2>1. Newest(L!Newer(x, id), x, Len(x), id)
    BY <1>2, <1>3, NewerIsNewest
  <2> QED
    BY <1>2, <2>1 DEF x
<1>5. /\ \A k \in Slots : Kth(s, k) \in Nat /\ Kth(s, k) <= cur[s]
      /\ \A k \in Slots : Kth(s, 1) = 0 \/ Kth(s, 1) <= Kth(s, k)
      /\ \A e : Kept(s, e) <=> \E k \in Slots : Kth(s, k) = e
  BY RingAscends DEF Sound
<1> HIDE DEF r, x, m
<1>6. /\ r \in Seq(Nat) /\ m \in Nat
      /\ \A i \in 1..m : r[i] > id /\ r[i] \in Nat /\ \E k \in Slots : r[i] = Kth(s, k)
      /\ \A i, j \in 1..m : i < j => r[i] < r[j]
      /\ \A k \in Slots : Kth(s, k) > id => \E i \in 1..m : r[i] = Kth(s, k)
      /\ m = RingSize \/ \E k \in Slots : Kth(s, k) <= id
  <2>1. r \in Seq(Nat) /\ m \in Nat
    BY <1>4 DEF Newest, m
  <2>2. \A i \in 1..m : r[i] > id /\ \E k \in Slots : r[i] = Kth(s, k)
    <3>1. \A i \in 1..m : r[i] > id /\ \E k \in 1..RingSize : r[i] = x[k]
      BY <1>4 DEF Newest, m
    <3>2. \A k \in 1..RingSize : k \in Slots /\ x[k] = Kth(s, k)
      BY <1>1, <1>2
    <3> QED
      BY <3>1, <3>2
  <2>3. \A i \in 1..m : r[i] \in Nat
    BY <2>1 DEF m
  <2>4. \A k \in Slots : Kth(s, k) > id => \E i \in 1..m : r[i] = Kth(s, k)
    <3>1. \A k \in Slots : x[k] > id => \E i \in 1..m : r[i] = x[k]
      BY <1>1, <1>4 DEF Newest, m
    <3> QED
      BY <1>2, <3>1
  <2>5. m = RingSize \/ \E k \in Slots : Kth(s, k) <= id
    BY <1>1, <1>2, <1>4 DEF Newest, m
  <2>6. \A i, j \in 1..m : i < j => r[i] < r[j]
    BY <1>4 DEF Newest, m
  <2> QED
    BY <2>1, <2>2, <2>3, <2>4, <2>5, <2>6
<1>7. \A i \in 1..m : r[i] > id /\ (i > 1 => r[i] > r[i - 1])
  <2> SUFFICES ASSUME NEW i \in 1..m, i > 1 PROVE r[i] > r[i - 1]
    BY <1>6
  <2>1. i - 1 \in 1..m /\ i - 1 < i
    BY <1>6
  <2>2. r[i - 1] < r[i] /\ r[i - 1] \in Nat /\ r[i] \in Nat
    BY <1>6, <2>1
  <2> QED
    BY <2>2
<1>8. ASSUME r # <<>>, NEW e \in (id + 1)..L!Last(r)
      PROVE  e \in {r[i] : i \in 1..m} \/ e \in dropped[s] \/ (m = RingSize /\ e < r[1])
  <2>1. m > 0 /\ m \in 1..m /\ 1 \in 1..m /\ L!Last(r) = r[m]
    BY <1>6, <1>8, EmptySeq DEF L!Last, m
  <2>2. r[m] <= cur[s] /\ r[m] \in Nat
    BY <1>5, <1>6, <2>1
  <2>3. e \in Nat /\ e > id /\ e > 0 /\ e <= cur[s]
    BY <1>1, <2>1, <2>2
  <2>4. Accounted(s, e)
    BY <2>3 DEF Sound, AllAccounted, Reached
  <2>5. ~Waits(s, e)
    <3> SUFFICES ASSUME NEW j \in 1..Len(channel[s]), channel[s][j] = e PROVE FALSE
      BY DEF Waits
    <3>1. channel[s][j] > cur[s]
      BY DEF Sound, InChannel
    <3> QED
      BY <1>1, <2>3, <3>1
  <2>6. CASE Kept(s, e)
    <3>1. PICK k \in Slots : Kth(s, k) = e
      BY <1>5, <2>6
    <3>2. PICK i \in 1..m : r[i] = e
      BY <1>6, <2>3, <3>1
    <3> QED
      BY <3>2
  <2>7. CASE e < Kth(s, 1)
    <3>1. Kth(s, 1) \in Nat /\ Kth(s, 1) > 0
      BY <1>1, <1>5, <2>3, <2>7
    <3>2. \A k \in Slots : Kth(s, k) \in Nat /\ Kth(s, k) > id
      <4> SUFFICES ASSUME NEW k \in Slots PROVE Kth(s, k) \in Nat /\ Kth(s, k) > id
        OBVIOUS
      <4>1. Kth(s, 1) <= Kth(s, k) /\ Kth(s, k) \in Nat
        BY <1>5, <3>1
      <4> QED
        BY <2>3, <2>7, <3>1, <4>1
    <3>3. m = RingSize
      <4>1. ASSUME NEW k \in Slots PROVE ~(Kth(s, k) <= id)
        <5>1. Kth(s, k) \in Nat /\ Kth(s, k) > id
          BY <3>2
        <5> QED
          BY <5>1
      <4> QED
        BY <1>6, <4>1
    <3>4. PICK k \in Slots : r[1] = Kth(s, k)
      BY <1>6, <2>1
    <3>5. Kth(s, 1) <= r[1] /\ r[1] \in Nat
      BY <1>5, <3>1, <3>4
    <3> QED
      BY <2>3, <2>7, <3>1, <3>3, <3>5
  <2> QED
    BY <2>4, <2>5, <2>6, <2>7 DEF Accounted
<1>9. (since[s])' = id /\ (found[s])' = r /\ (dropped[s])' = dropped[s]
  BY DEF r, SameRing
<1>10. L!Readers(s)'
  <2>1. (L!Last(found[s]))' = L!Last(r)
    BY <1>9 DEF L!Last
  <2> QED
    BY <1>7, <1>8, <1>9, <2>1 DEF L!Readers, m
<1> QED
  BY <1>6, <1>10 DEF r

\* The state of one subscription.
LEMMA SubscriptionIs == ASSUME Functions, NEW s \in Listeners PROVE Subscription(s)
  BY DEF Functions, Subscription

\* A subscriber has one number to get.
LEMMA GetsOne ==
  ASSUME Logger, OneEach
  PROVE  /\ \A i \in Subs : logSubs[i] \in Listeners /\ nextIDs[i] \in Nat /\ Gets(logSubs[i], nextIDs[i])
         /\ \A i \in Subs : \A n : Gets(logSubs[i], n) => n = nextIDs[i]
<1>1. ASSUME NEW i \in Subs PROVE logSubs[i] \in Listeners /\ nextIDs[i] \in Nat
  BY DEF Subs, Logger
<1>2. ASSUME NEW i \in Subs PROVE Gets(logSubs[i], nextIDs[i])
  BY DEF Gets
<1>3. ASSUME NEW i \in Subs, NEW n, Gets(logSubs[i], n) PROVE n = nextIDs[i]
  BY <1>3 DEF Gets, OneEach
<1> QED
  BY <1>1, <1>2, <1>3

\* Steps that leave the channels and the rings alone.
LEMMA RingsSame ==
  ASSUME EventsInv, UNCHANGED <<channel, dropped, ring, next, cur, since, found>>,
         Logger', OneEach', \A s \in Listeners : New(s)',
         \A s \in Listeners, n \in Nat : Gets(s, n)' => Gets(s, n) \/ Numbered(s, n)
  PROVE  EventsInv'
<1>1. \A s : SameRing(s)
  BY DEF SameRing
<1>2. Functions'
  BY DEF EventsInv, Functions
<1>3. \A s \in Listeners : Sound(s)' /\ L!Readers(s)'
  BY <1>1, Elsewhere DEF EventsInv
<1>4. \A s \in Listeners, n \in Nat : Gets(s, n)' => Numbered(s, n)'
  BY <1>1, Elsewhere DEF EventsInv
<1> QED
  BY <1>2, <1>3, <1>4 DEF EventsInv

\* A new subscription numbers its events from 1.
LEMMA SubscribeKeepsEvents == ASSUME EventsInv, NEW s \in Listeners, L!Subscribe(s) PROVE EventsInv'
<1> DEFINE m == Len(logSubs)
<1>1. /\ UNCHANGED <<channel, dropped, ring, next, cur, since, found>>
      /\ sending' = sending /\ sending = 0 /\ open[s] = "new"
      /\ logSubs' = Append(logSubs, s) /\ nextIDs' = Append(nextIDs, 1) /\ open' = [open EXCEPT ![s] = "open"]
  BY DEF L!Subscribe, L!AtSelect, L!rings, L!readers
<1>2. Logger /\ OneEach
  BY DEF EventsInv
<1>3. /\ logSubs \in Seq(Listeners) /\ nextIDs \in Seq(Nat) /\ Len(nextIDs) = m /\ m \in Nat
      /\ open \in [Listeners -> {"new", "open", "closed"}]
  BY <1>2 DEF Logger
<1>4. /\ logSubs' \in Seq(Listeners) /\ Len(logSubs') = m + 1
      /\ logSubs'[m + 1] = s /\ \A i \in 1..m : logSubs'[i] = logSubs[i]
  BY <1>1, <1>3, AppendProperties
<1>5. /\ nextIDs' \in Seq(Nat) /\ Len(nextIDs') = m + 1
      /\ nextIDs'[m + 1] = 1 /\ \A i \in 1..m : nextIDs'[i] = nextIDs[i]
  BY <1>1, <1>3, AppendProperties
<1> HIDE DEF m
<1>6. Subs = 1..m /\ Subs' = 1..(m + 1) /\ \A i \in 1..(m + 1) : i = m + 1 \/ i \in 1..m
  BY <1>3, <1>4 DEF Subs, m
<1>7. Logger'
  <2>1. open' \in [Listeners -> {"new", "open", "closed"}]
    BY <1>1, <1>3
  <2>2. sending' \in 0..(m + 1)
    BY <1>1, <1>3
  <2> QED
    BY <1>4, <1>5, <2>1, <2>2 DEF Logger
<1>8. \A i \in 1..m : logSubs[i] # s /\ logSubs[i] \in Listeners /\ open[logSubs[i]] # "new"
  BY <1>1, <1>2, <1>3, <1>6, GetsOne DEF OneEach
<1>9. OneEach'
  <2>1. \A i \in 1..m : open'[logSubs[i]] # "new"
    BY <1>1, <1>3, <1>8
  <2>2. open'[s] = "open"
    BY <1>1, <1>3
  <2>3. \A i \in 1..(m + 1) : open'[logSubs'[i]] # "new"
    BY <1>4, <1>6, <2>1, <2>2
  <2>4. \A i, j \in 1..m : logSubs[i] = logSubs[j] => i = j
    BY <1>2, <1>6 DEF OneEach
  <2>5. \A i, j \in 1..(m + 1) : logSubs'[i] = logSubs'[j] => i = j
    BY <1>4, <1>6, <1>8, <2>4
  <2> QED
    BY <1>6, <2>3, <2>5 DEF OneEach
<1>10. \A l \in Listeners : New(l)'
  <2>1. \A l \in Listeners : open'[l] = "new" => open[l] = "new"
    BY <1>1, <1>3
  <2> QED
    BY <1>1, <2>1 DEF EventsInv, New
<1>11. Numbered(s, 1)
  <2>1. channel[s] = <<>> /\ cur[s] = 0 /\ dropped[s] = {}
    BY <1>1 DEF EventsInv, New
  <2>2. Len(channel[s]) = 0 /\ 1..0 = {}
    BY <2>1
  <2>3. \A e \in Nat : ~(e > 0 /\ e < 1)
    OBVIOUS
  <2> QED
    BY <2>1, <2>2, <2>3 DEF Numbered
<1>12. ASSUME NEW l \in Listeners, NEW n \in Nat, Gets(l, n)' PROVE Gets(l, n) \/ Numbered(l, n)
  <2>1. PICK i \in 1..(m + 1) : logSubs'[i] = l /\ nextIDs'[i] = n
    BY <1>6, <1>12 DEF Gets
  <2>2. CASE i = m + 1
    BY <1>4, <1>5, <1>11, <2>1, <2>2
  <2>3. CASE i \in 1..m
    BY <1>4, <1>5, <1>6, <2>1, <2>3 DEF Gets
  <2> QED
    BY <1>6, <2>2, <2>3
<1> QED
  BY <1>1, <1>7, <1>9, <1>10, <1>12, RingsSame

\* The others keep their numbers when the last one takes the place of the one that goes.
LEMMA UnsubscribeKeepsEvents == ASSUME EventsInv, NEW s \in Listeners, L!Unsubscribe(s) PROVE EventsInv'
<1> DEFINE m == Len(logSubs)
<1>1. PICK i \in 1..m : logSubs' = L!TakeOut(logSubs, i) /\ nextIDs' = L!TakeOut(nextIDs, i)
  BY DEF L!Unsubscribe, L!NumbersWithout
<1>2. /\ UNCHANGED <<channel, dropped, ring, next, cur, since, found>>
      /\ sending' = sending /\ sending = 0
      /\ open' = [open EXCEPT ![s] = "closed"]
  BY DEF L!Unsubscribe, L!AtSelect, L!rings, L!readers
<1>3. Logger /\ OneEach
  BY DEF EventsInv
<1>4. /\ logSubs \in Seq(Listeners) /\ nextIDs \in Seq(Nat) /\ Len(nextIDs) = m /\ m \in Nat /\ m > 0
      /\ open \in [Listeners -> {"new", "open", "closed"}]
  BY <1>1, <1>3 DEF Logger
<1> DEFINE from(j) == IF j = i THEN m ELSE j
<1>5. /\ logSubs' = [j \in 1..(m - 1) |-> logSubs[from(j)]]
      /\ nextIDs' = [j \in 1..(m - 1) |-> nextIDs[from(j)]]
  BY <1>1, <1>4 DEF L!TakeOut, L!Last
<1> HIDE DEF m
<1>6. /\ \A j \in 1..(m - 1) : from(j) \in 1..m
      /\ \A j, l \in 1..(m - 1) : from(j) = from(l) => j = l
  BY <1>4
<1> HIDE DEF from
<1>7. Subs = 1..m /\ \A j \in 1..m : logSubs[j] \in Listeners /\ nextIDs[j] \in Nat
  BY <1>3, GetsOne DEF Subs, m
<1>8. /\ logSubs' \in Seq(Listeners) /\ nextIDs' \in Seq(Nat) /\ Len(logSubs') = m - 1 /\ Len(nextIDs') = m - 1
  <2>1. m - 1 \in Nat
    BY <1>4
  <2>2. logSubs' \in [1..(m - 1) -> Listeners] /\ nextIDs' \in [1..(m - 1) -> Nat]
    BY <1>5, <1>6, <1>7
  <2> QED
    BY <2>1, <2>2
<1>9. Subs' = 1..(m - 1)
  BY <1>8 DEF Subs
<1>10. Logger'
  <2>1. open' \in [Listeners -> {"new", "open", "closed"}] /\ sending' \in 0..(m - 1)
    BY <1>2, <1>4
  <2> QED
    BY <1>8, <2>1 DEF Logger
<1>11. OneEach'
  <2>1. \A l \in Listeners : open'[l] = "new" => open[l] = "new"
    BY <1>2, <1>4
  <2>2. \A j \in 1..(m - 1) : logSubs'[j] = logSubs[from(j)]
    BY <1>5
  <2>3. \A j \in 1..m : open[logSubs[j]] # "new"
    BY <1>3, <1>7 DEF OneEach
  <2>4. \A j, l \in 1..m : logSubs[j] = logSubs[l] => j = l
    BY <1>3, <1>7 DEF OneEach
  <2>5. \A j \in 1..(m - 1) : open'[logSubs'[j]] # "new"
    BY <1>6, <1>7, <2>1, <2>2, <2>3
  <2>6. \A j, l \in 1..(m - 1) : logSubs'[j] = logSubs'[l] => j = l
    BY <1>6, <2>2, <2>4
  <2> QED
    BY <1>9, <2>5, <2>6 DEF OneEach
<1>12. \A l \in Listeners : New(l)'
  <2>1. \A l \in Listeners : open'[l] = "new" => open[l] = "new"
    BY <1>2, <1>4
  <2> QED
    BY <1>2, <2>1 DEF EventsInv, New
<1>13. ASSUME NEW l \in Listeners, NEW n \in Nat, Gets(l, n)' PROVE Gets(l, n)
  <2>1. PICK j \in 1..(m - 1) : logSubs'[j] = l /\ nextIDs'[j] = n
    BY <1>9, <1>13 DEF Gets
  <2>2. logSubs[from(j)] = l /\ nextIDs[from(j)] = n
    BY <1>5, <2>1
  <2> QED
    BY <1>6, <1>7, <2>2 DEF Gets
<1> QED
  BY <1>2, <1>10, <1>11, <1>12, <1>13, RingsSame

\* Log, and the beginning of an event's way to the subscriptions.
LEMMA LogKeepsEvents == ASSUME EventsInv, L!Log \/ L!SendEvent PROVE EventsInv'
<1>1. UNCHANGED <<channel, dropped, ring, next, cur, since, found, open, logSubs, nextIDs>>
  BY DEF L!Log, L!SendEvent, L!rings, L!readers
<1>2. Logger /\ OneEach
  BY DEF EventsInv
<1>3. sending' \in 0..Len(logSubs)
  <2>1. CASE L!Log
    BY <1>2, <2>1 DEF L!Log, Logger
  <2>2. CASE L!SendEvent
    <3>1. logSubs \in Seq(Listeners) /\ (logSubs # <<>> => Len(logSubs) \in Nat /\ Len(logSubs) > 0)
      BY <1>2, EmptySeq DEF Logger
    <3> QED
      BY <2>2, <3>1 DEF L!SendEvent
  <2> QED
    BY <2>1, <2>2
<1>4. Logger' /\ OneEach'
  BY <1>1, <1>2, <1>3 DEF Logger, OneEach, Subs
<1>5. \A s \in Listeners : New(s)'
  BY <1>1 DEF EventsInv, New
<1>6. \A s, n : Gets(s, n)' <=> Gets(s, n)
  BY <1>1 DEF Gets, Subs
<1> QED
  BY <1>1, <1>4, <1>5, <1>6, RingsSame

\* Stop closes the subscriptions, and a subscription that is closed is not new.
LEMMA StopKeepsEvents == ASSUME EventsInv, L!Stop PROVE EventsInv'
<1>1. UNCHANGED <<channel, dropped, ring, next, cur, since, found, logSubs, nextIDs, sending>>
  BY DEF L!Stop, L!rings, L!readers
<1>2. Logger /\ OneEach
  BY DEF EventsInv
<1>3. open' = [s \in Listeners |-> IF \E i \in Subs : logSubs[i] = s THEN "closed" ELSE open[s]]
  BY DEF L!Stop, Subs
<1>4. open' \in [Listeners -> {"new", "open", "closed"}] /\ \A s \in Listeners : open'[s] = "new" => open[s] = "new"
  BY <1>2, <1>3 DEF Logger
<1>5. Logger'
  BY <1>1, <1>2, <1>4 DEF Logger
<1>6. OneEach'
  <2>1. \A i \in Subs : open'[logSubs[i]] # "new"
    BY <1>2, <1>4, GetsOne DEF OneEach
  <2> QED
    BY <1>1, <1>2, <2>1 DEF OneEach, Subs
<1>7. \A s \in Listeners : New(s)'
  BY <1>1, <1>4 DEF EventsInv, New
<1>8. \A s, n : Gets(s, n)' <=> Gets(s, n)
  BY <1>1 DEF Gets, Subs
<1> QED
  BY <1>1, <1>5, <1>6, <1>7, <1>8, RingsSame

\* The subscription that the event is for has the number after it next.
LEMMA AfterSubIs ==
  ASSUME Logger, OneEach, sending > 0, L!AfterSub, UNCHANGED <<logSubs, open>>, NEW s, s = logSubs[sending]
  PROVE  /\ s \in Listeners /\ nextIDs[sending] \in Nat /\ Gets(s, nextIDs[sending])
         /\ Logger' /\ OneEach'
         /\ \A n : Gets(s, n)' => n = nextIDs[sending] + 1
         /\ \A l, n : l # s => (Gets(l, n)' => Gets(l, n))
<1>1. /\ logSubs \in Seq(Listeners) /\ nextIDs \in Seq(Nat) /\ Len(nextIDs) = Len(logSubs) /\ Len(logSubs) \in Nat
      /\ sending \in 0..Len(logSubs)
  BY DEF Logger
<1>2. sending \in Subs /\ DOMAIN nextIDs = Subs
  BY <1>1 DEF Subs
<1>3. nextIDs' = [nextIDs EXCEPT ![sending] = nextIDs[sending] + 1]
  BY DEF L!AfterSub
<1>4. \A i \in Subs : nextIDs'[i] = IF i = sending THEN nextIDs[sending] + 1 ELSE nextIDs[i]
  BY <1>2, <1>3
<1>5. Subs' = Subs
  BY DEF Subs
<1>6. s \in Listeners /\ nextIDs[sending] \in Nat /\ Gets(s, nextIDs[sending])
  BY <1>2, GetsOne
<1>7. Logger'
  <2>1. nextIDs' \in Seq(Nat) /\ Len(nextIDs') = Len(nextIDs)
    <3>1. nextIDs[sending] + 1 \in Nat /\ sending \in 1..Len(nextIDs)
      BY <1>1, <1>2, <1>6 DEF Subs
    <3> QED
      BY <1>1, <1>3, <3>1, ExceptSeq
  <2>2. sending' \in 0..Len(logSubs)
    BY <1>1 DEF L!AfterSub
  <2> QED
    BY <1>1, <2>1, <2>2 DEF Logger
<1>8. OneEach'
  BY <1>5 DEF OneEach
<1>9. ASSUME NEW n, Gets(s, n)' PROVE n = nextIDs[sending] + 1
  <2>1. PICK i \in Subs : logSubs[i] = s /\ nextIDs'[i] = n
    BY <1>5, <1>9 DEF Gets
  <2>2. i = sending
    BY <1>2, <2>1 DEF OneEach
  <2> QED
    BY <1>4, <2>1, <2>2
<1>10. ASSUME NEW l, NEW n, l # s, Gets(l, n)' PROVE Gets(l, n)
  <2>1. PICK i \in Subs : logSubs[i] = l /\ nextIDs'[i] = n
    BY <1>5, <1>10 DEF Gets
  <2>2. i # sending
    BY <1>10, <2>1
  <2>3. nextIDs[i] = n
    BY <1>4, <2>1, <2>2
  <2> QED
    BY <2>1, <2>3 DEF Gets
<1> QED
  BY <1>6, <1>7, <1>8, <1>9, <1>10

\* Steps at one subscription.
LEMMA OneMoves ==
  ASSUME EventsInv, NEW s \in Listeners, Functions', Logger', OneEach',
         \A l \in Listeners : l # s => SameRing(l) /\ since'[l] = since[l] /\ found'[l] = found[l],
         \A l, n : l # s => (Gets(l, n)' => Gets(l, n)),
         \A l \in Listeners : open'[l] = open[l],
         Sound(s)', L!Readers(s)', New(s)', \A n \in Nat : Gets(s, n)' => Numbered(s, n)'
  PROVE  EventsInv'
<1>1. ASSUME NEW l \in Listeners PROVE Sound(l)' /\ L!Readers(l)' /\ New(l)'
  <2>1. CASE l = s
    BY <2>1
  <2>2. CASE l # s
    BY <2>2, Elsewhere DEF EventsInv
  <2> QED
    BY <2>1, <2>2
<1>2. ASSUME NEW l \in Listeners, NEW n \in Nat, Gets(l, n)' PROVE Numbered(l, n)'
  <2>1. CASE l = s
    BY <1>2, <2>1
  <2>2. CASE l # s
    BY <1>2, <2>2, Elsewhere DEF EventsInv
  <2> QED
    BY <2>1, <2>2
<1> QED
  BY <1>1, <1>2 DEF EventsInv

\* An event that fits waits in the channel.
LEMMA DeliverKeepsEvents == ASSUME EventsInv, L!Deliver PROVE EventsInv'
<1> DEFINE s == logSubs[sending]
           n == nextIDs[sending]
<1>1. /\ sending > 0 /\ L!AfterSub
      /\ channel' = [channel EXCEPT ![s] = Append(channel[s], n)]
      /\ UNCHANGED <<logSubs, open, ring, next, cur, since, found, dropped>>
  BY DEF L!Deliver, L!rings, L!readers
<1>2. Logger /\ Functions /\ OneEach
  BY DEF EventsInv
<1>3. PICK t : t = s
  OBVIOUS
<1>4. PICK k : k = n
  OBVIOUS
<1> HIDE DEF s, n
<1>5. /\ t \in Listeners /\ k \in Nat /\ Gets(t, k)
      /\ Logger' /\ OneEach'
      /\ \A m : Gets(t, m)' => m = k + 1
      /\ \A l, m : l # t => (Gets(l, m)' => Gets(l, m))
  BY <1>1, <1>2, <1>3, <1>4, AfterSubIs DEF s, n
<1>6. channel' = [channel EXCEPT ![t] = Append(channel[t], k)]
  BY <1>1, <1>3, <1>4
<1>7. Subscription(t)
  BY <1>2, <1>5, SubscriptionIs
<1>8. /\ channel'[t] = Append(channel[t], k) /\ Append(channel[t], k) \in Seq(Nat)
      /\ \A l \in Listeners : l # t => channel'[l] = channel[l]
  BY <1>2, <1>5, <1>6, <1>7, AppendProperties DEF Functions, Subscription
<1>9. Functions'
  <2>1. channel' \in [Listeners -> Seq(Nat)]
    BY <1>2, <1>6, <1>8 DEF Functions
  <2> QED
    BY <1>1, <1>2, <2>1 DEF Functions
<1>10. Sound(t)' /\ Numbered(t, k + 1)'
  <2>1. Sound(t) /\ Numbered(t, k)
    BY <1>5 DEF EventsInv
  <2> QED
    BY <1>1, <1>5, <1>7, <1>8, <2>1, ChannelGrows
<1>11. L!Readers(t)'
  BY <1>1, <1>5 DEF EventsInv, L!Readers, L!Last
<1>12. New(t)'
  <2>1. open[t] # "new"
    BY <1>2, <1>5 DEF Gets, OneEach
  <2> QED
    BY <1>1, <2>1 DEF New
<1>13. \A l \in Listeners : l # t => SameRing(l) /\ since'[l] = since[l] /\ found'[l] = found[l]
  BY <1>1, <1>8 DEF SameRing
<1>14. \A m \in Nat : Gets(t, m)' => Numbered(t, m)'
  BY <1>5, <1>10
<1> QED
  BY <1>1, <1>5, <1>9, <1>10, <1>11, <1>12, <1>13, <1>14, OneMoves

\* An event that does not fit is dropped, and has its number all the same.
LEMMA DropKeepsEvents == ASSUME EventsInv, L!Drop PROVE EventsInv'
<1> DEFINE s == logSubs[sending]
           n == nextIDs[sending]
<1>1. /\ sending > 0 /\ L!AfterSub
      /\ dropped' = [dropped EXCEPT ![s] = dropped[s] \cup {n}]
      /\ UNCHANGED <<logSubs, open, ring, next, cur, since, found, channel>>
  BY DEF L!Drop, L!MayDrop, L!AfterDrop, L!rings, L!readers
<1>2. Logger /\ Functions /\ OneEach
  BY DEF EventsInv
<1>3. PICK t : t = s
  OBVIOUS
<1>4. PICK k : k = n
  OBVIOUS
<1> HIDE DEF s, n
<1>5. /\ t \in Listeners /\ k \in Nat /\ Gets(t, k)
      /\ Logger' /\ OneEach'
      /\ \A m : Gets(t, m)' => m = k + 1
      /\ \A l, m : l # t => (Gets(l, m)' => Gets(l, m))
  BY <1>1, <1>2, <1>3, <1>4, AfterSubIs DEF s, n
<1>6. dropped' = [dropped EXCEPT ![t] = dropped[t] \cup {k}]
  BY <1>1, <1>3, <1>4
<1>7. Subscription(t)
  BY <1>2, <1>5, SubscriptionIs
<1>8. /\ dropped'[t] = dropped[t] \cup {k} /\ dropped[t] \cup {k} \in SUBSET Nat
      /\ \A l \in Listeners : l # t => dropped'[l] = dropped[l]
  BY <1>2, <1>5, <1>6, <1>7 DEF Functions, Subscription
<1>9. Functions'
  <2>1. dropped' \in [Listeners -> SUBSET Nat]
    BY <1>2, <1>6, <1>8 DEF Functions
  <2> QED
    BY <1>1, <1>2, <2>1 DEF Functions
<1>10. Sound(t)' /\ L!Readers(t)' /\ Numbered(t, k + 1)'
  <2>1. Sound(t) /\ L!Readers(t) /\ Numbered(t, k)
    BY <1>5 DEF EventsInv
  <2> QED
    BY <1>1, <1>5, <1>7, <1>8, <2>1, DroppedGrows
<1>11. New(t)'
  <2>1. open[t] # "new"
    BY <1>2, <1>5 DEF Gets, OneEach
  <2> QED
    BY <1>1, <2>1 DEF New
<1>12. \A l \in Listeners : l # t => SameRing(l) /\ since'[l] = since[l] /\ found'[l] = found[l]
  BY <1>1, <1>8 DEF SameRing
<1>13. \A m \in Nat : Gets(t, m)' => Numbered(t, m)'
  BY <1>5, <1>10
<1> QED
  BY <1>1, <1>5, <1>9, <1>10, <1>11, <1>12, <1>13, OneMoves

\* Poll moves an event from the channel into the ring.
LEMMA PollKeepsEvents == ASSUME EventsInv, NEW s \in Listeners, L!Poll(s) PROVE EventsInv'
<1> DEFINE h == Head(channel[s])
           buf == [ring[s] EXCEPT ![next[s]] = h]
<1>1. /\ channel[s] # <<>>
      /\ channel' = [channel EXCEPT ![s] = Tail(channel[s])]
      /\ ring' = [ring EXCEPT ![s] = buf]
      /\ next' = [next EXCEPT ![s] = L!Following(next[s])]
      /\ cur' = [cur EXCEPT ![s] = h]
      /\ UNCHANGED <<logSubs, nextIDs, sending, open, since, found, dropped>>
  BY DEF L!Poll, L!readers
<1>2. Logger /\ Functions /\ OneEach /\ Sound(s) /\ L!Readers(s) /\ New(s)
  BY DEF EventsInv
<1>3. Subscription(s)
  BY <1>2, SubscriptionIs
<1>4. h \in Nat /\ Tail(channel[s]) \in Seq(Nat) /\ buf \in [Slots -> Nat] /\ L!Following(next[s]) \in Slots
  <2>1. h \in Nat /\ Tail(channel[s]) \in Seq(Nat)
    BY <1>1, <1>3, HeadTailProperties DEF Subscription
  <2>2. L!Following(next[s]) \in Slots
    BY <1>3, PlaceIs DEF Subscription
  <2> QED
    BY <1>3, <2>1, <2>2 DEF Subscription
<1> HIDE DEF h, buf
<1>5. Functions'
  BY <1>1, <1>2, <1>4 DEF Functions
<1>6. Logger' /\ OneEach' /\ \A l, n : Gets(l, n)' <=> Gets(l, n)
  BY <1>1, <1>2 DEF Logger, OneEach, Gets, Subs
<1>7. /\ channel'[s] = Tail(channel[s]) /\ ring'[s] = buf /\ next'[s] = L!Following(next[s]) /\ cur'[s] = h
      /\ \A l \in Listeners : l # s => channel'[l] = channel[l] /\ ring'[l] = ring[l] /\ next'[l] = next[l] /\ cur'[l] = cur[l]
  BY <1>1, <1>2 DEF Functions
<1>8. Polled(s)
  BY <1>1, <1>7 DEF Polled, h, buf
<1>9. Sound(s)' /\ \A n \in Nat : Numbered(s, n) => Numbered(s, n)'
  BY <1>2, <1>3, <1>8, PollKeeps
<1>10. L!Readers(s)'
  BY <1>1, <1>2 DEF L!Readers, L!Last
<1>11. New(s)'
  BY <1>1, <1>2 DEF New
<1>12. \A l \in Listeners : l # s => SameRing(l) /\ since'[l] = since[l] /\ found'[l] = found[l]
  BY <1>1, <1>7 DEF SameRing
<1>13. \A n \in Nat : Gets(s, n)' => Numbered(s, n)'
  BY <1>6, <1>9 DEF EventsInv
<1> QED
  BY <1>1, <1>5, <1>6, <1>9, <1>10, <1>11, <1>12, <1>13, OneMoves

\* Since begins after what the reader has seen, or at the beginning.
LEMMA SinceKeepsEvents ==
  ASSUME EventsInv, NEW s \in Listeners, NEW id \in {0, L!Seen(s)}, L!Since(s, id) PROVE EventsInv'
<1> DEFINE r == L!Newer(L!InOrder(s), id)
<1>1. /\ id < cur[s]
      /\ since' = [since EXCEPT ![s] = id] /\ found' = [found EXCEPT ![s] = r]
      /\ UNCHANGED <<logSubs, nextIDs, sending, open, channel, ring, next, cur, dropped>>
  BY DEF L!Since, L!rings
<1>2. Logger /\ Functions /\ OneEach /\ Sound(s) /\ L!Readers(s) /\ New(s)
  BY DEF EventsInv
<1>3. Subscription(s)
  BY <1>2, SubscriptionIs
<1>4. id \in Nat
  <2>1. found[s] \in Seq(Nat)
    BY <1>3 DEF Subscription
  <2>2. L!Seen(s) \in Nat
    BY <2>1, EmptySeq, ElementOfSeq DEF L!Seen, L!Last
  <2> QED
    BY <2>2
<1> HIDE DEF r
<1>5. since'[s] = id /\ found'[s] = r /\ \A l \in Listeners : l # s => since'[l] = since[l] /\ found'[l] = found[l]
  BY <1>1, <1>2 DEF Functions
<1>6. \A l : SameRing(l)
  BY <1>1 DEF SameRing
<1>7. L!Readers(s)' /\ r \in Seq(Nat)
  BY <1>1, <1>2, <1>3, <1>4, <1>5, <1>6, SinceReads DEF r
<1>8. Functions'
  BY <1>1, <1>2, <1>4, <1>7 DEF Functions
<1>9. Logger' /\ OneEach' /\ \A l, n : Gets(l, n)' <=> Gets(l, n)
  BY <1>1, <1>2 DEF Logger, OneEach, Gets, Subs
<1>10. Sound(s)' /\ (\A n \in Nat : Numbered(s, n) => Numbered(s, n)')
  BY <1>2, <1>6, Elsewhere
<1>11. New(s)'
  BY <1>1, <1>2 DEF New
<1>12. \A n \in Nat : Gets(s, n)' => Numbered(s, n)'
  BY <1>9, <1>10 DEF EventsInv
<1> QED
  BY <1>1, <1>5, <1>6, <1>7, <1>8, <1>9, <1>10, <1>11, <1>12, OneMoves

\* At first there are no subscriptions and no events.
LEMMA EventsAtFirst == ASSUME L!Init PROVE EventsInv
<1>1. /\ logSubs = <<>> /\ nextIDs = <<>> /\ sending = 0
      /\ channel = [s \in Listeners |-> <<>>] /\ open = [s \in Listeners |-> "new"]
      /\ ring = [s \in Listeners |-> [i \in Slots |-> 0]] /\ next = [s \in Listeners |-> 1]
      /\ cur = [s \in Listeners |-> 0] /\ since = [s \in Listeners |-> 0]
      /\ found = [s \in Listeners |-> <<>>] /\ dropped = [s \in Listeners |-> {}]
  BY DEF L!Init, Slots
<1>2. <<>> \in Seq(Nat) /\ <<>> \in Seq(Listeners) /\ Len(<<>>) = 0
  OBVIOUS
<1>3. 1 \in Slots
  BY EventsAssumption DEF Slots
<1>4. Logger /\ Functions
  <2>1. Logger
    BY <1>1, <1>2 DEF Logger
  <2>2. Functions
    BY <1>1, <1>2, <1>3 DEF Functions
  <2> QED
    BY <2>1, <2>2
<1>5. Subs = {}
  BY <1>1, <1>2 DEF Subs
<1>6. OneEach /\ \A s, n : ~Gets(s, n)
  BY <1>5 DEF OneEach, Gets
<1>7. ASSUME NEW s \in Listeners PROVE Sound(s) /\ L!Readers(s) /\ New(s)
  <2>1. channel[s] = <<>> /\ Len(channel[s]) = 0 /\ cur[s] = 0 /\ dropped[s] = {} /\ found[s] = <<>> /\ Len(found[s]) = 0
    BY <1>1, <1>2
  <2>2. 1..Len(channel[s]) = {} /\ 1..Len(found[s]) = {}
    BY <2>1
  <2>3. \A k \in Slots : ring[s][k] = 0
    BY <1>1
  <2>4. \A k \in Slots : Place(next[s], k) \in Slots /\ RingSize \in Slots
    BY <1>1, <1>3, PlaceIs
  <2>5. \A k \in Slots : Kth(s, k) = 0
    BY <2>3, <2>4 DEF Kth
  <2>6. InRing(s)
    BY <1>3, <2>1, <2>4, <2>5 DEF InRing
  <2>7. InChannel(s) /\ Gone(s)
    BY <2>1, <2>2 DEF InChannel, Gone
  <2>8. \A e \in Nat : ~(e > 0 /\ Reached(s, e))
    BY <2>1, <2>2 DEF Reached
  <2>9. AllAccounted(s)
    BY <2>8 DEF AllAccounted
  <2>10. L!Readers(s)
    BY <2>1, <2>2 DEF L!Readers
  <2>11. New(s)
    BY <2>1 DEF New
  <2> QED
    BY <2>6, <2>7, <2>9, <2>10, <2>11 DEF Sound
<1> QED
  BY <1>4, <1>6, <1>7 DEF EventsInv

\* What readers get, and that numbers are fresh.
LEMMA EventsInvIsRight == ASSUME EventsInv PROVE EventsRight
<1>1. L!SinceIsComplete
  BY DEF EventsInv, L!SinceIsComplete
<1>2. ASSUME NEW i \in 1..Len(logSubs), NEW s, s = logSubs[i]
      PROVE  /\ \A e \in dropped[s] : e < nextIDs[i] /\ e \notin L!ToSet(channel[s]) \cup L!ToSet(ring[s])
             /\ \A j \in 1..Len(channel[s]) : channel[s][j] < nextIDs[i]
             /\ cur[s] < nextIDs[i]
  <2>1. Logger /\ OneEach /\ Functions
    BY DEF EventsInv
  <2>2. s \in Listeners /\ nextIDs[i] \in Nat /\ Gets(s, nextIDs[i])
    BY <1>2, <2>1, GetsOne DEF Subs
  <2>3. Numbered(s, nextIDs[i]) /\ Sound(s)
    BY <2>2 DEF EventsInv
  <2>4. channel[s] \in Seq(Nat) /\ ring[s] \in [Slots -> Nat]
    BY <2>1, <2>2, SubscriptionIs DEF Subscription
  <2>5. ASSUME NEW e \in dropped[s] PROVE e \notin L!ToSet(channel[s]) \cup L!ToSet(ring[s])
    <3>1. ~Waits(s, e) /\ ~Kept(s, e)
      BY <2>3 DEF Sound, Gone
    <3>2. e \notin L!ToSet(channel[s])
      BY <2>4, <3>1 DEF L!ToSet, Waits
    <3>3. e \notin L!ToSet(ring[s])
      BY <2>4, <3>1 DEF L!ToSet, Kept
    <3> QED
      BY <3>2, <3>3
  <2> QED
    BY <2>3, <2>5 DEF Numbered
<1>3. L!NumbersAreFresh
  BY <1>2 DEF L!NumbersAreFresh
<1> QED
  BY <1>1, <1>3 DEF EventsRight

\* Events: a reader gets, in their order, all the events since the one it names that were not
\* dropped and are still in the ring, and numbers are not given twice, whatever the number of
\* subscriptions, the size of their channels and that of their rings.
THEOREM ReadersGetEveryEvent == SpecOne => []EventsRight
<1>1. InitOne => EventsInv
  BY EventsAtFirst DEF InitOne
<1>2. EventsInv /\ [NextOne]_allVars => EventsInv'
  <2> SUFFICES ASSUME EventsInv, [NextOne]_allVars PROVE EventsInv'
    OBVIOUS
  <2>1. CASE L!Next
    BY <2>1, LogKeepsEvents, DeliverKeepsEvents, DropKeepsEvents, StopKeepsEvents, SubscribeKeepsEvents,
       UnsubscribeKeepsEvents, PollKeepsEvents, SinceKeepsEvents DEF L!Next
  <2>2. CASE UNCHANGED eventsVars
    <3>1. UNCHANGED <<channel, dropped, ring, next, cur, since, found, open, logSubs, nextIDs, sending>>
      BY <2>2 DEF eventsVars
    <3>2. Logger' /\ OneEach' /\ \A s, n : Gets(s, n)' <=> Gets(s, n)
      BY <3>1 DEF EventsInv, Logger, OneEach, Gets, Subs
    <3>3. \A s \in Listeners : New(s)'
      BY <3>1 DEF EventsInv, New
    <3> QED
      BY <3>1, <3>2, <3>3, RingsSame
  <2> QED
    BY <2>1, <2>2 DEF NextOne, One, allVars
<1>3. EventsInv => EventsRight
  BY EventsInvIsRight
<1> QED
  BY <1>1, <1>2, <1>3, PTL DEF SpecOne
=============================================================================
