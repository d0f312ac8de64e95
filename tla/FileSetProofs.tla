---------------------------- MODULE FileSetProofs ----------------------------
(*****************************************************************************)
(* Proofs about FileSet, for any devices, items and versions: the version    *)
(* lists are those of the files, and the global version, the needs and the   *)
(* counts that are kept along the way are what a recount gives.              *)
(*                                                                           *)
(* A list is that of files (ListOf) if every entry is of devices that have   *)
(* its version, no device is in two, and none is left out; pop and insert    *)
(* give the list of the files with one changed (PopIs, InsertIs), so Update  *)
(* and Forget keep all of them (Base).  Where versions are not in conflict,  *)
(* they keep each list in the order of its versions (Sorted), and the front  *)
(* is the newest.  A count is a tally of items (Tally), of which a step      *)
(* changes one: taking away what it was and adding what it is gives the      *)
(* tally after it (Retallied).  So it is for the local needs (LocalPart),    *)
(* the global counts (GlobalPart) and the needs of remotes (RemotePart),     *)
(* each under the condition under which the step takes away what was added.  *)
(*****************************************************************************)
EXTENDS FileSet, FiniteSetTheorems, SequenceTheorems, WellFoundedInduction, TLAPS

-----------------------------------------------------------------------------
(* Lists *)

\* Among numbers there is a smallest one.
LEMMA LeastOf == ASSUME NEW N, N \subseteq Nat, N # {} PROVE \E n \in N : \A m \in N : n <= m
<1>1. IsWellFoundedOn(OpToRel(<, Nat), Nat)
  BY NatLessThanWellFounded
<1>2. PICK n \in N : \A m \in N : <<m, n>> \notin OpToRel(<, Nat)
  BY <1>1, WFMin
<1>3. \A m \in N : ~(m < n)
  BY <1>2 DEF OpToRel
<1> QED
  BY <1>3

\* Min gives it.
LEMMA MinIs == ASSUME NEW N, N \subseteq Nat, N # {} PROVE Min(N) \in N /\ \A m \in N : Min(N) <= m
<1>1. \E n \in N : \A m \in N : n <= m
  BY LeastOf
<1> QED
  BY <1>1, Zenon DEF Min

\* A list without its i-th element.
LEMMA RemoveAtIs ==
    ASSUME NEW S, NEW s \in Seq(S), NEW i \in 1..Len(s)
    PROVE  /\ RemoveAt(s, i) \in Seq(S)
           /\ Len(RemoveAt(s, i)) = Len(s) - 1
           /\ \A j \in 1..Len(s) - 1 : RemoveAt(s, i)[j] = IF j < i THEN s[j] ELSE s[j + 1]
<1> DEFINE a == SubSeq(s, 1, i - 1)
           b == SubSeq(s, i + 1, Len(s))
<1>1. a \in Seq(S) /\ Len(a) = i - 1 /\ \A j \in 1..i - 1 : a[j] = s[j]
  OBVIOUS
<1>2. b \in Seq(S) /\ Len(b) = Len(s) - i /\ \A j \in 1..Len(s) - i : b[j] = s[i + j]
  OBVIOUS
<1>3. RemoveAt(s, i) = a \o b
  BY DEF RemoveAt
<1> HIDE DEF a, b
<1>4. a \o b \in Seq(S) /\ Len(a \o b) = Len(s) - 1
  <2>1. a \o b \in Seq(S) /\ Len(a \o b) = Len(a) + Len(b)
    BY <1>1, <1>2, ConcatProperties
  <2> QED
    BY <2>1, <1>1, <1>2
<1>5. ASSUME NEW j \in 1..Len(s) - 1 PROVE (a \o b)[j] = IF j < i THEN s[j] ELSE s[j + 1]
  <2>1. (a \o b)[j] = IF j <= Len(a) THEN a[j] ELSE b[j - Len(a)]
    BY <1>1, <1>2, ConcatProperties
  <2>2. CASE j < i
    BY <2>1, <2>2, <1>1
  <2>3. CASE ~(j < i)
    BY <2>1, <2>3, <1>1, <1>2
  <2> QED
    BY <2>2, <2>3
<1> QED
  BY <1>3, <1>4, <1>5

\* The list r is s with e at the i-th place, in addition.
With(r, s, i, e) ==
  /\ Len(r) = Len(s) + 1
  /\ \A j \in 1..Len(s) + 1 : r[j] = IF j < i THEN s[j] ELSE IF j = i THEN e ELSE s[j - 1]

\* A list with one more element at the i-th place.
LEMMA InsertAtIs ==
    ASSUME NEW S, NEW s \in Seq(S), NEW i \in 1..Len(s), NEW e \in S
    PROVE  InsertAt(s, i, e) \in Seq(S) /\ With(InsertAt(s, i, e), s, i, e)
<1> DEFINE a == SubSeq(s, 1, i - 1)
           b == SubSeq(s, i, Len(s))
           c == a \o <<e>>
<1>1. a \in Seq(S) /\ Len(a) = i - 1 /\ \A j \in 1..i - 1 : a[j] = s[j]
  OBVIOUS
<1>2. b \in Seq(S) /\ Len(b) = Len(s) - i + 1 /\ \A j \in 1..Len(s) - i + 1 : b[j] = s[i + j - 1]
  OBVIOUS
<1>3. InsertAt(s, i, e) = c \o b
  BY DEF InsertAt
<1> HIDE DEF a, b
<1>4. c \in Seq(S) /\ Len(c) = i /\ c[i] = e /\ \A j \in 1..i - 1 : c[j] = s[j]
  BY <1>1
<1> HIDE DEF c
<1>5. c \o b \in Seq(S) /\ Len(c \o b) = Len(s) + 1
  <2>1. c \o b \in Seq(S) /\ Len(c \o b) = Len(c) + Len(b)
    BY <1>2, <1>4, ConcatProperties
  <2> QED
    BY <2>1, <1>2, <1>4
<1>6. ASSUME NEW j \in 1..Len(s) + 1 PROVE (c \o b)[j] = IF j < i THEN s[j] ELSE IF j = i THEN e ELSE s[j - 1]
  <2>1. (c \o b)[j] = IF j <= Len(c) THEN c[j] ELSE b[j - Len(c)]
    BY <1>2, <1>4, ConcatProperties
  <2>2. CASE j <= i
    BY <2>1, <2>2, <1>4
  <2>3. CASE ~(j <= i)
    BY <2>1, <2>3, <1>4, <1>2
  <2> QED
    BY <2>2, <2>3
<1> QED
  BY <1>3, <1>5, <1>6 DEF With

\* No element twice.
Distinct(s) == \A i, j \in DOMAIN s : s[i] = s[j] => i = j

\* A list that has no element twice, without one of them.
LEMMA RemoveFirstIs ==
    ASSUME NEW S, NEW s \in Seq(S), Distinct(s), NEW e
    PROVE  /\ RemoveFirst(s, e) \in Seq(S)
           /\ Distinct(RemoveFirst(s, e))
           /\ ToSet(RemoveFirst(s, e)) = ToSet(s) \ {e}
           /\ s # <<e>> /\ s # <<>> => RemoveFirst(s, e) # <<>>
<1>1. CASE ~\E i \in 1..Len(s) : s[i] = e
  BY <1>1 DEF RemoveFirst, ToSet
<1>2. CASE \E i \in 1..Len(s) : s[i] = e
  <2> DEFINE N == {i \in 1..Len(s) : s[i] = e}
             k == Min(N)
             r == RemoveAt(s, k)
  <2>1. k \in 1..Len(s) /\ s[k] = e
    <3>1. N \subseteq Nat /\ N # {}
      BY <1>2
    <3>2. Min(N) \in N
      BY <3>1, MinIs
    <3> QED
      BY <3>2
  <2>2. RemoveFirst(s, e) = r
    BY <1>2 DEF RemoveFirst, SelectInSeq
  <2>3. /\ r \in Seq(S) /\ Len(r) = Len(s) - 1
        /\ \A j \in 1..Len(s) - 1 : r[j] = IF j < k THEN s[j] ELSE s[j + 1]
    BY <2>1, RemoveAtIs
  <2> HIDE DEF N, k, r
  <2>4. Distinct(r)
    <3> SUFFICES ASSUME NEW i \in 1..Len(s) - 1, NEW j \in 1..Len(s) - 1, r[i] = r[j]
                 PROVE  i = j
      BY <2>3 DEF Distinct
    <3>1. (IF i < k THEN i ELSE i + 1) = (IF j < k THEN j ELSE j + 1)
      <4>1. s[IF i < k THEN i ELSE i + 1] = s[IF j < k THEN j ELSE j + 1]
        BY <2>3
      <4> QED
        BY <4>1 DEF Distinct
    <3> QED
      BY <3>1, <2>1
  <2>5. ToSet(r) = ToSet(s) \ {e}
    <3>1. ASSUME NEW j \in 1..Len(r) PROVE r[j] \in ToSet(s) \ {e}
      <4> DEFINE i == IF j < k THEN j ELSE j + 1
      <4>1. i \in 1..Len(s) /\ i # k /\ r[j] = s[i]
        BY <2>1, <2>3
      <4>2. s[i] # s[k]
        BY <4>1, <2>1 DEF Distinct
      <4> QED
        BY <4>1, <4>2, <2>1 DEF ToSet
    <3>2. ASSUME NEW i \in 1..Len(s), s[i] # e PROVE \E j \in 1..Len(r) : r[j] = s[i]
      <4>1. i # k
        BY <2>1, <3>2
      <4>2. CASE i < k
        BY <4>2, <2>3, <2>1
      <4>3. CASE i > k
        <5>1. i - 1 \in 1..Len(r) /\ ~(i - 1 < k)
          BY <4>3, <2>3, <2>1
        <5> QED
          BY <5>1, <2>3
      <4> QED
        BY <4>1, <4>2, <4>3, <2>1
    <3>3. ToSet(r) = {r[j] : j \in 1..Len(r)} /\ ToSet(s) = {s[i] : i \in 1..Len(s)}
      BY <2>3 DEF ToSet
    <3> QED
      BY <3>1, <3>2, <3>3
  <2>6. s # <<e>> => r # <<>>
    <3>1. CASE Len(s) = 1
      <4>1. s = <<e>>
        BY <3>1, <2>1
      <4> QED
        BY <4>1
    <3>2. CASE Len(s) # 1
      BY <3>2, <2>1, <2>3
    <3> QED
      BY <3>1, <3>2
  <2> QED
    BY <2>2, <2>3, <2>4, <2>5, <2>6
<1> QED
  BY <1>1, <1>2

-----------------------------------------------------------------------------
(* Versions *)

\* Equal vectors are of one version.
LEMMA EqualIs == ASSUME Configured, NEW v \in Versions, NEW w \in Versions PROVE Equal(v.vec, w.vec) <=> v = w
<1>1. v.vec \in [DOMAIN v.vec -> Nat] /\ w.vec \in [DOMAIN v.vec -> Nat] /\ (v.vec = w.vec => v = w)
  BY DEF Configured
<1>2. Equal(v.vec, w.vec) <=> Differing(v.vec, w.vec) = {}
  BY DEF Equal, Compare
<1>3. Differing(v.vec, w.vec) = {} <=> v.vec = w.vec
  BY <1>1 DEF Differing
<1> QED
  BY <1>1, <1>2, <1>3

\* v has all that w has, and more.
Newer(v, w) == v # w /\ \A i \in DOMAIN v.vec : v.vec[i] >= w.vec[i]

\* The results of Compare, for versions of one item.
LEMMA CompareIs ==
    ASSUME Configured, NEW v \in Versions, NEW w \in Versions
    PROVE  /\ Compare(v.vec, w.vec) = "Greater" <=> Newer(v, w)
           /\ Compare(v.vec, w.vec) = "Lesser" <=> Newer(w, v)
           /\ Compare(v.vec, w.vec) \in {"Equal", "Greater", "Lesser", "ConcurrentGreater", "ConcurrentLesser"}
<1> DEFINE a == v.vec
           b == w.vec
           D == Differing(a, b)
           I == DOMAIN a
<1>1. a \in [I -> Nat] /\ b \in [I -> Nat] /\ (a = b <=> v = w) /\ DOMAIN b = I
  BY DEF Configured
<1>2. /\ Compare(a, b) = "Greater" <=> D # {} /\ \A i \in D : a[i] > b[i]
      /\ Compare(a, b) = "Lesser" <=> D # {} /\ \A i \in D : a[i] < b[i]
      /\ Compare(a, b) \in {"Equal", "Greater", "Lesser", "ConcurrentGreater", "ConcurrentLesser"}
  <2>1. \A i \in D : a[i] \in Nat /\ b[i] \in Nat
    BY <1>1 DEF Differing
  <2> DEFINE up == \A i \in D : a[i] > b[i]
             down == \A i \in D : a[i] < b[i]
             first == CHOOSE i \in D : \A j \in D : i <= j
  <2>2. Compare(a, b) = CASE D = {} -> "Equal" [] D # {} /\ up -> "Greater" [] D # {} /\ down -> "Lesser"
                          [] OTHER -> IF a[first] > b[first] THEN "ConcurrentGreater" ELSE "ConcurrentLesser"
    BY DEF Compare
  <2>3. D # {} => ~(up /\ down)
    BY <2>1
  <2> HIDE DEF D, up, down, first, a, b
  <2>4. Compare(a, b) = "Greater" <=> D # {} /\ up
    BY <2>2, <2>3
  <2>5. Compare(a, b) = "Lesser" <=> D # {} /\ down
    BY <2>2, <2>3
  <2>6. Compare(a, b) \in {"Equal", "Greater", "Lesser", "ConcurrentGreater", "ConcurrentLesser"}
    BY <2>2
  <2> QED
    BY <2>4, <2>5, <2>6 DEF up, down
<1>3. D # {} <=> v # w
  BY <1>1 DEF Differing
<1>4. (\A i \in D : a[i] > b[i]) <=> \A i \in I : a[i] >= b[i]
  BY <1>1 DEF Differing
<1>5. (\A i \in D : a[i] < b[i]) <=> \A i \in I : b[i] >= a[i]
  BY <1>1 DEF Differing
<1> HIDE DEF D
<1> QED
  BY <1>1, <1>2, <1>3, <1>4, <1>5 DEF Newer

\* Being newer is transitive, and not mutual.
LEMMA NewerOrders ==
    ASSUME Configured, NEW u \in Versions, NEW v \in Versions, NEW w \in Versions
    PROVE  (Newer(u, v) /\ Newer(v, w) => Newer(u, w)) /\ ~(Newer(u, v) /\ Newer(v, u))
<1> DEFINE I == DOMAIN u.vec
<1>1. /\ u.vec \in [I -> Nat] /\ v.vec \in [I -> Nat] /\ w.vec \in [I -> Nat] /\ DOMAIN v.vec = I /\ DOMAIN w.vec = I
      /\ (u.vec = v.vec => u = v) /\ (u.vec = w.vec => u = w)
  BY DEF Configured
<1>2. ~(Newer(u, v) /\ Newer(v, u))
  <2> SUFFICES ASSUME Newer(u, v), Newer(v, u) PROVE FALSE
    OBVIOUS
  <2>1. \A i \in I : u.vec[i] = v.vec[i]
    BY <1>1 DEF Newer
  <2>2. u.vec = v.vec
    BY <1>1, <2>1
  <2> QED
    BY <1>1, <2>2 DEF Newer
<1>3. ASSUME Newer(u, v), Newer(v, w) PROVE Newer(u, w)
  <2>1. \A i \in I : u.vec[i] >= w.vec[i]
    BY <1>1, <1>3 DEF Newer
  <2>2. u # w
    BY <1>2, <1>3
  <2> QED
    BY <2>1, <2>2 DEF Newer
<1> QED
  BY <1>2, <1>3

-----------------------------------------------------------------------------
(* Version lists *)

Entry == [ver : Versions, devs : Seq(Devices), invs : Seq(Devices)]

\* What devices have of one item.
Record == [Devices -> File \cup {NoFile}]

\* Device d has version v, valid or not.
HasValid(fs, d, v) == fs[d] # NoFile /\ fs[d].ver = v /\ ~fs[d].inv
HasInvalid(fs, d, v) == fs[d] # NoFile /\ fs[d].ver = v /\ fs[d].inv

\* An entry of a version list is of devices that have its version, each once and one at least.
EntryOf(fv, fs) ==
  /\ Distinct(fv.devs) /\ Distinct(fv.invs) /\ (fv.devs # <<>> \/ fv.invs # <<>>)
  /\ \A d \in Devices : (d \in ToSet(fv.devs) => HasValid(fs, d, fv.ver)) /\ (d \in ToSet(fv.invs) => HasInvalid(fs, d, fv.ver))

\* No device is listed twice, and all that have something are listed. A version may be listed
\* twice, if it is in conflict with one in between.
DevicesOnce(vl) == \A i, j \in DOMAIN vl : \A d \in Devices : HasDevice(vl[i], d) /\ HasDevice(vl[j], d) => i = j
AllListed(vl, fs) == \A d \in Devices : fs[d] # NoFile => \E i \in DOMAIN vl : HasDevice(vl[i], d)

\* The version list of files.
ListOf(vl, fs) ==
  /\ vl \in Seq(Entry)
  /\ DevicesOnce(vl)
  /\ \A i \in DOMAIN vl : EntryOf(vl[i], fs)
  /\ AllListed(vl, fs)

\* Who is in an entry has its version.
LEMMA InEntry ==
    ASSUME NEW fs, NEW fv, EntryOf(fv, fs), NEW d \in Devices, HasDevice(fv, d)
    PROVE  fs[d] # NoFile /\ fs[d].ver = fv.ver
  BY DEF EntryOf, HasDevice, HasValid, HasInvalid

\* Where a device is found, if it has a file: at an entry of its version, and only there.
LEMMA FindDeviceIs ==
    ASSUME NEW vl, NEW fs \in Record, ListOf(vl, fs), NEW d \in Devices
    PROVE  /\ Has(vl, d) <=> fs[d] # NoFile
           /\ fs[d] = NoFile => findDevice(vl, d) = 0
           /\ fs[d] # NoFile => findDevice(vl, d) \in DOMAIN vl /\ Get(vl, d).ver = fs[d].ver
           /\ \A i \in DOMAIN vl : HasDevice(vl[i], d) <=> i = findDevice(vl, d)
<1> DEFINE N == {i \in 1..Len(vl) : HasDevice(vl[i], d)}
<1>1. vl \in Seq(Entry) /\ DOMAIN vl = 1..Len(vl)
  BY DEF ListOf
<1>2. findDevice(vl, d) = IF N # {} THEN Min(N) ELSE 0
  BY DEF findDevice, SelectInSeq
<1>3. \A i \in DOMAIN vl : HasDevice(vl[i], d) => fs[d] # NoFile /\ fs[d].ver = vl[i].ver
  BY InEntry DEF ListOf
<1>4. N # {} => Min(N) \in N
  <2>1. N \subseteq Nat
    OBVIOUS
  <2> QED
    BY <2>1, MinIs
<1>5. N # {} <=> fs[d] # NoFile
  BY <1>1, <1>3 DEF ListOf, AllListed
<1> HIDE DEF N
<1>6. findDevice(vl, d) # 0 <=> fs[d] # NoFile
  <2>1. \A i \in N : i # 0
    BY DEF N
  <2> QED
    BY <1>2, <1>4, <1>5, <2>1
<1>7. fs[d] # NoFile => findDevice(vl, d) \in N
  BY <1>2, <1>4, <1>5
<1>8. \A i \in N : i \in DOMAIN vl /\ HasDevice(vl[i], d) /\ vl[i].ver = fs[d].ver
  BY <1>1, <1>3 DEF N
<1>9. ASSUME NEW i \in DOMAIN vl PROVE HasDevice(vl[i], d) <=> i = findDevice(vl, d)
  <2>1. ASSUME HasDevice(vl[i], d) PROVE i = findDevice(vl, d)
    <3>1. fs[d] # NoFile
      BY <2>1, <1>3
    <3>2. findDevice(vl, d) \in DOMAIN vl /\ HasDevice(vl[findDevice(vl, d)], d)
      BY <3>1, <1>7, <1>8
    <3> QED
      BY <2>1, <3>2 DEF ListOf, DevicesOnce
  <2>2. ASSUME i = findDevice(vl, d) PROVE HasDevice(vl[i], d)
    BY <2>2, <1>1, <1>6, <1>7 DEF N
  <2> QED
    BY <2>1, <2>2
<1> QED
  BY <1>2, <1>5, <1>6, <1>7, <1>8, <1>9 DEF Has, Get

\* The global version: that of its first device, valid unless no version is.
LEMMA GlobalIs ==
    ASSUME NEW vl, NEW fs \in Record, ListOf(vl, fs), vl # <<>>
    PROVE  /\ findGlobal(vl) \in DOMAIN vl
           /\ GetGlobal(vl) \in Entry /\ EntryOf(GetGlobal(vl), fs)
           /\ FirstDevice(GetGlobal(vl)) \in Devices
           /\ fs[FirstDevice(GetGlobal(vl))] \in File
           /\ fs[FirstDevice(GetGlobal(vl))].ver = GetGlobal(vl).ver
           /\ fs[FirstDevice(GetGlobal(vl))].inv <=> IsInvalid(GetGlobal(vl))
           /\ \A i \in DOMAIN vl : ~IsInvalid(vl[i]) => findGlobal(vl) <= i /\ ~IsInvalid(GetGlobal(vl))
<1> DEFINE N == {i \in 1..Len(vl) : ~IsInvalid(vl[i])}
           k == SelectInSeq(vl, LAMBDA fv : ~IsInvalid(fv))
           G == GetGlobal(vl)
<1>1. vl \in Seq(Entry) /\ DOMAIN vl = 1..Len(vl)
  BY DEF ListOf
<1>2. k = IF N # {} THEN Min(N) ELSE 0
  BY DEF SelectInSeq
<1>3. N # {} => Min(N) \in N /\ \A i \in N : Min(N) <= i
  <2>1. N \subseteq Nat
    OBVIOUS
  <2> QED
    BY <2>1, MinIs
<1>4. findGlobal(vl) = IF k = 0 THEN 1 ELSE k
  BY DEF findGlobal
<1>5. 1 \in DOMAIN vl
  BY <1>1
<1> HIDE DEF N, k
<1>6. findGlobal(vl) \in DOMAIN vl
  <2>1. N # {} => Min(N) \in DOMAIN vl
    BY <1>1, <1>3 DEF N
  <2> QED
    BY <1>2, <1>4, <1>5, <2>1
<1>7. G \in Entry /\ EntryOf(G, fs)
  BY <1>1, <1>6 DEF GetGlobal, ListOf
<1>8. \A i \in DOMAIN vl : ~IsInvalid(vl[i]) => findGlobal(vl) <= i /\ ~IsInvalid(G)
  <2> SUFFICES ASSUME NEW i \in DOMAIN vl, ~IsInvalid(vl[i]) PROVE findGlobal(vl) <= i /\ ~IsInvalid(G)
    OBVIOUS
  <2>1. i \in N
    BY <1>1 DEF N
  <2>2. Min(N) \in N /\ Min(N) <= i
    BY <1>3, <2>1
  <2>3. Min(N) # 0 /\ ~IsInvalid(vl[Min(N)])
    BY <2>2 DEF N
  <2>4. findGlobal(vl) = Min(N)
    BY <1>2, <1>4, <2>1, <2>3
  <2> QED
    BY <2>2, <2>3, <2>4 DEF GetGlobal
<1> HIDE DEF G
<1>9. G.devs \in Seq(Devices) /\ G.invs \in Seq(Devices) /\ (G.devs # <<>> \/ G.invs # <<>>)
  BY <1>7 DEF Entry, EntryOf
<1>10. FirstDevice(G) = IF G.devs # <<>> THEN G.devs[1] ELSE G.invs[1]
  <2> DEFINE s == G.devs
             t == G.invs
  <2>1. s \in Seq(Devices) /\ t \in Seq(Devices) /\ (s # <<>> \/ t # <<>>)
    BY <1>9
  <2>2. FirstDevice(G) = Head(s \o t)
    BY DEF FirstDevice
  <2> HIDE DEF s, t
  <2>3. s \o t \in Seq(Devices) /\ Len(s \o t) = Len(s) + Len(t) /\ Len(s \o t) # 0
    BY <2>1, ConcatProperties
  <2>4. Head(s \o t) = (s \o t)[1]
    BY <2>3
  <2>5. (s \o t)[1] = IF s # <<>> THEN s[1] ELSE t[1]
    BY <2>1
  <2> QED
    BY <2>2, <2>4, <2>5 DEF s, t
<1>11. IF G.devs # <<>> THEN FirstDevice(G) \in ToSet(G.devs) ELSE FirstDevice(G) \in ToSet(G.invs)
  BY <1>9, <1>10 DEF ToSet
<1>12. FirstDevice(G) \in Devices
  BY <1>9, <1>10
<1>13. IF G.devs # <<>> THEN HasValid(fs, FirstDevice(G), G.ver) ELSE HasInvalid(fs, FirstDevice(G), G.ver)
  BY <1>7, <1>11, <1>12 DEF EntryOf
<1>14. fs[FirstDevice(G)] \in File
  BY <1>12, <1>13 DEF HasValid, HasInvalid, Record
<1> QED
  BY <1>6, <1>7, <1>8, <1>12, <1>13, <1>14 DEF G, HasValid, HasInvalid, IsInvalid

\* Who has f needs the global version g: it is valid, of some changes, no deletion of what is not
\* there, and newer than f or in conflict with it.
NeedOf(g, f) ==
  /\ ~IsInvalid(g) /\ ~IsEmpty(g.ver.vec)
  /\ g.ver.deleted => f # NoFile
  /\ ~(f # NoFile /\ GreaterEqual(f.ver.vec, g.ver.vec))

\* Whether a device needs an item depends on the global version and on what it has itself.
LEMMA NeedIs ==
    ASSUME NEW vl, NEW fs \in Record, ListOf(vl, fs), NEW d \in Devices
    PROVE  /\ Need(vl, d) <=> vl # <<>> /\ NeedOf(GetGlobal(vl), fs[d])
           /\ \A g : Needs(g, vl, d) <=> NeedOf(g, fs[d])
<1>1. (Has(vl, d) <=> fs[d] # NoFile) /\ (fs[d] # NoFile => Get(vl, d).ver = fs[d].ver)
  BY FindDeviceIs
<1>2. \A g : Needs(g, vl, d) <=> NeedOf(g, fs[d])
  BY <1>1, Zenon DEF Needs, NeedOf
<1> QED
  BY <1>2, Zenon DEF Need

-----------------------------------------------------------------------------
(* Taking a device off a list *)

\* What devices have, but for d.
SameButFor(fs, us, d) == \A e \in Devices : e # d => us[e] = fs[e]

\* What devices have of an item changes for one device.
LEMMA Elsewhere ==
    ASSUME NEW fs \in Record, NEW d \in Devices, NEW f \in File \cup {NoFile}
    PROVE  /\ [fs EXCEPT ![d] = f] \in Record /\ [fs EXCEPT ![d] = f][d] = f
           /\ SameButFor(fs, [fs EXCEPT ![d] = f], d)
<1>1. fs \in [Devices -> File \cup {NoFile}]
  BY DEF Record
<1>2. [fs EXCEPT ![d] = f] \in [Devices -> File \cup {NoFile}] /\ [fs EXCEPT ![d] = f][d] = f
  BY <1>1
<1>3. SameButFor(fs, [fs EXCEPT ![d] = f], d)
  BY <1>1 DEF SameButFor
<1> QED
  BY <1>2, <1>3 DEF Record

\* An entry without d stays one whatever d has.
LEMMA EntryKept ==
    ASSUME NEW fv, NEW fs, EntryOf(fv, fs), NEW d \in Devices, ~HasDevice(fv, d), NEW us, SameButFor(fs, us, d)
    PROVE  EntryOf(fv, us)
<1>1. d \notin ToSet(fv.devs) /\ d \notin ToSet(fv.invs)
  BY DEF HasDevice
<1> QED
  BY <1>1 DEF EntryOf, HasValid, HasInvalid, SameButFor

\* The entry that pop leaves of one with d.
Popped(fv, d) == FileVersion(fv.ver, RemoveFirst(fv.devs, d), RemoveFirst(fv.invs, d))

\* It is of the other devices, if there are any.
LEMMA EntryPopped ==
    ASSUME NEW fv \in Entry, NEW fs, EntryOf(fv, fs), NEW d \in Devices, NEW us, SameButFor(fs, us, d)
    PROVE  /\ Popped(fv, d) \in Entry /\ Popped(fv, d).ver = fv.ver
           /\ \A e \in Devices : HasDevice(Popped(fv, d), e) <=> (HasDevice(fv, e) /\ e # d)
           /\ IF Popped(fv, d).devs \o Popped(fv, d).invs = <<>>
              THEN \A e \in Devices : ~HasDevice(Popped(fv, d), e)
              ELSE EntryOf(Popped(fv, d), us)
<1> DEFINE new == Popped(fv, d)
           a == RemoveFirst(fv.devs, d)
           b == RemoveFirst(fv.invs, d)
<1>1. /\ fv.devs \in Seq(Devices) /\ fv.invs \in Seq(Devices) /\ fv.ver \in Versions
      /\ Distinct(fv.devs) /\ Distinct(fv.invs)
  BY DEF Entry, EntryOf
<1>2. a \in Seq(Devices) /\ Distinct(a) /\ ToSet(a) = ToSet(fv.devs) \ {d}
  BY <1>1, RemoveFirstIs
<1>3. b \in Seq(Devices) /\ Distinct(b) /\ ToSet(b) = ToSet(fv.invs) \ {d}
  BY <1>1, RemoveFirstIs
<1>4. new.ver = fv.ver /\ new.devs = a /\ new.invs = b /\ new = [ver |-> fv.ver, devs |-> a, invs |-> b]
  BY DEF Popped, FileVersion
<1> HIDE DEF a, b
<1>5. new \in Entry
  BY <1>1, <1>2, <1>3, <1>4 DEF Entry
<1> HIDE DEF new
<1>6. \A e \in Devices : HasDevice(new, e) <=> (HasDevice(fv, e) /\ e # d)
  BY <1>2, <1>3, <1>4 DEF HasDevice
<1>7. a \o b = <<>> <=> a = <<>> /\ b = <<>>
  BY <1>2, <1>3
<1>8. CASE new.devs \o new.invs = <<>>
  <2>1. a = <<>> /\ b = <<>>
    BY <1>4, <1>7, <1>8
  <2>2. ToSet(a) = {} /\ ToSet(b) = {}
    BY <2>1 DEF ToSet
  <2>3. \A e \in Devices : ~HasDevice(new, e)
    BY <1>4, <2>2 DEF HasDevice
  <2> QED
    BY <1>4, <1>5, <1>6, <1>8, <2>3 DEF new
<1>9. CASE new.devs \o new.invs # <<>>
  <2>1. \A e \in Devices : (e \in ToSet(a) => HasValid(us, e, fv.ver)) /\ (e \in ToSet(b) => HasInvalid(us, e, fv.ver))
    BY <1>2, <1>3 DEF EntryOf, HasValid, HasInvalid, SameButFor
  <2>2. a # <<>> \/ b # <<>>
    BY <1>4, <1>7, <1>9
  <2>3. EntryOf(new, us)
    BY <1>2, <1>3, <1>4, <2>1, <2>2 DEF EntryOf
  <2> QED
    BY <1>4, <1>5, <1>6, <1>9, <2>3 DEF new
<1> QED
  BY <1>8, <1>9

\* Each version is newer than those behind it.
Sorted(vl) == \A i, j \in DOMAIN vl : i < j => Newer(vl[i].ver, vl[j].ver)

\* A list in which the entry of d is another one.
LEMMA ListReplaced ==
    ASSUME NEW vl, NEW fs \in Record, ListOf(vl, fs), NEW d \in Devices, NEW us \in Record, SameButFor(fs, us, d),
           NEW i \in DOMAIN vl, NEW fv \in Entry, EntryOf(fv, us), fv.ver = vl[i].ver,
           \A e \in Devices : e # d => (HasDevice(fv, e) <=> HasDevice(vl[i], e)),
           \A j \in DOMAIN vl : j # i => ~HasDevice(vl[j], d),
           us[d] # NoFile => HasDevice(fv, d)
    PROVE  ListOf(ReplaceAt(vl, i, fv), us) /\ (Sorted(vl) => Sorted(ReplaceAt(vl, i, fv)))
<1> DEFINE r == ReplaceAt(vl, i, fv)
<1>1. vl \in Seq(Entry) /\ DOMAIN vl = 1..Len(vl)
  BY DEF ListOf
<1>2. r \in Seq(Entry) /\ DOMAIN r = DOMAIN vl /\ r[i] = fv /\ \A j \in DOMAIN vl : j # i => r[j] = vl[j]
  BY <1>1 DEF ReplaceAt
<1> HIDE DEF r
<1>3. ASSUME NEW j \in DOMAIN r PROVE EntryOf(r[j], us)
  <2>1. CASE j = i
    BY <1>2, <2>1
  <2>2. CASE j # i
    BY <1>2, <2>2, EntryKept DEF ListOf
  <2> QED
    BY <2>1, <2>2
<1>4. \A j \in DOMAIN vl : \A e \in Devices : e # d => (HasDevice(r[j], e) <=> HasDevice(vl[j], e))
  BY <1>2
<1>5. \A j \in DOMAIN vl : HasDevice(r[j], d) => j = i
  BY <1>2
<1>6. DevicesOnce(r)
  BY <1>2, <1>4, <1>5 DEF DevicesOnce, ListOf
<1>7. AllListed(r, us)
  <2> SUFFICES ASSUME NEW e \in Devices, us[e] # NoFile PROVE \E j \in DOMAIN r : HasDevice(r[j], e)
    BY DEF AllListed
  <2>1. CASE e = d
    BY <1>2, <2>1
  <2>2. CASE e # d
    <3>1. \E j \in DOMAIN vl : HasDevice(vl[j], e)
      BY <2>2 DEF ListOf, AllListed, SameButFor
    <3> QED
      BY <1>2, <1>4, <2>2, <3>1
  <2> QED
    BY <2>1, <2>2
<1>8. Sorted(vl) => Sorted(r)
  <2>1. \A j \in DOMAIN vl : r[j].ver = vl[j].ver
    BY <1>2
  <2> QED
    BY <1>2, <2>1 DEF Sorted
<1> QED
  BY <1>2, <1>3, <1>6, <1>7, <1>8 DEF ListOf, r

\* A list without the entry that d alone was in.
LEMMA ListShortened ==
    ASSUME NEW vl, NEW fs \in Record, ListOf(vl, fs), NEW d \in Devices, NEW us \in Record, SameButFor(fs, us, d),
           us[d] = NoFile, NEW i \in DOMAIN vl, \A e \in Devices : HasDevice(vl[i], e) <=> e = d
    PROVE  ListOf(RemoveAt(vl, i), us) /\ (Sorted(vl) => Sorted(RemoveAt(vl, i)))
<1> DEFINE r == RemoveAt(vl, i)
           at(j) == IF j < i THEN j ELSE j + 1
<1>1. vl \in Seq(Entry) /\ DOMAIN vl = 1..Len(vl)
  BY DEF ListOf
<1>2. r \in Seq(Entry) /\ Len(r) = Len(vl) - 1 /\ \A j \in 1..Len(vl) - 1 : r[j] = IF j < i THEN vl[j] ELSE vl[j + 1]
  BY <1>1, RemoveAtIs
<1> HIDE DEF r
<1>3. DOMAIN r = 1..Len(vl) - 1
  BY <1>2
<1>4. \A j \in DOMAIN r : at(j) \in DOMAIN vl /\ at(j) # i /\ r[j] = vl[at(j)]
  BY <1>1, <1>2, <1>3
<1>5. \A j, k \in DOMAIN r : (at(j) = at(k) => j = k) /\ (j < k => at(j) < at(k))
  BY <1>1, <1>3
<1>6. \A k \in DOMAIN vl : k # i => \E j \in DOMAIN r : at(j) = k
  <2> SUFFICES ASSUME NEW k \in DOMAIN vl, k # i PROVE \E j \in DOMAIN r : at(j) = k
    OBVIOUS
  <2>1. CASE k < i
    BY <1>1, <1>3, <2>1
  <2>2. CASE k > i
    <3>1. k - 1 \in DOMAIN r /\ ~(k - 1 < i)
      BY <1>1, <1>3, <2>2
    <3> QED
      BY <1>1, <3>1
  <2> QED
    BY <1>1, <2>1, <2>2
<1> HIDE DEF at
<1>7. \A k \in DOMAIN vl : k # i => ~HasDevice(vl[k], d)
  BY DEF ListOf, DevicesOnce
<1>8. \A j \in DOMAIN r : EntryOf(r[j], us)
  <2> SUFFICES ASSUME NEW j \in DOMAIN r PROVE EntryOf(vl[at(j)], us)
    BY <1>4
  <2>1. ~HasDevice(vl[at(j)], d) /\ EntryOf(vl[at(j)], fs)
    BY <1>4, <1>7 DEF ListOf
  <2> QED
    BY <2>1, EntryKept
<1>9. DevicesOnce(r)
  BY <1>4, <1>5 DEF DevicesOnce, ListOf
<1>10. AllListed(r, us)
  <2> SUFFICES ASSUME NEW e \in Devices, us[e] # NoFile PROVE \E j \in DOMAIN r : HasDevice(r[j], e)
    BY DEF AllListed
  <2>1. e # d /\ fs[e] # NoFile
    BY DEF SameButFor
  <2>2. PICK k \in DOMAIN vl : HasDevice(vl[k], e)
    BY <2>1 DEF ListOf, AllListed
  <2>3. k # i
    BY <2>1, <2>2
  <2> QED
    BY <1>4, <1>6, <2>2, <2>3
<1>11. Sorted(vl) => Sorted(r)
  BY <1>4, <1>5 DEF Sorted
<1> QED
  BY <1>2, <1>8, <1>9, <1>10, <1>11 DEF ListOf, r

\* pop makes the list that of the files without d's.
LEMMA PopIs ==
    ASSUME NEW vl, NEW fs \in Record, ListOf(vl, fs), NEW d \in Devices
    PROVE  ListOf(pop(vl, d), [fs EXCEPT ![d] = NoFile]) /\ (Sorted(vl) => Sorted(pop(vl, d)))
<1> DEFINE us == [fs EXCEPT ![d] = NoFile]
           i == findDevice(vl, d)
           fv == vl[i]
           new == Popped(fv, d)
           r == ReplaceAt(vl, i, new)
           q == RemoveAt(vl, i)
<1>1. us \in Record /\ us[d] = NoFile /\ SameButFor(fs, us, d)
  BY Elsewhere
<1>2. /\ fs[d] = NoFile => i = 0
      /\ fs[d] # NoFile => i \in DOMAIN vl
      /\ \A j \in DOMAIN vl : HasDevice(vl[j], d) <=> j = i
  BY FindDeviceIs
<1>3. pop(vl, d) = CASE i = 0 -> vl [] i # 0 /\ new.devs \o new.invs = <<>> -> q [] OTHER -> r
  BY DEF pop, Popped
<1>4. CASE fs[d] = NoFile
  <2>1. us = fs
    BY <1>4 DEF Record
  <2> QED
    BY <1>2, <1>3, <1>4, <2>1
<1>5. CASE fs[d] # NoFile
  <2>1. vl \in Seq(Entry) /\ DOMAIN vl = 1..Len(vl)
    BY DEF ListOf
  <2>2. i \in DOMAIN vl /\ i # 0 /\ fv \in Entry /\ EntryOf(fv, fs)
    BY <1>2, <1>5, <2>1 DEF ListOf
  <2> HIDE DEF us, i, fv, new, r, q
  <2>3. /\ new \in Entry /\ new.ver = fv.ver
        /\ \A e \in Devices : HasDevice(new, e) <=> (HasDevice(fv, e) /\ e # d)
        /\ IF new.devs \o new.invs = <<>> THEN \A e \in Devices : ~HasDevice(new, e) ELSE EntryOf(new, us)
    BY <1>1, <2>2, EntryPopped DEF new
  <2>4. \A j \in DOMAIN vl : j # i => ~HasDevice(vl[j], d)
    BY <1>2
  <2>5. HasDevice(fv, d)
    BY <1>2, <2>2 DEF fv
  <2>6. CASE new.devs \o new.invs = <<>>
    <3>1. \A e \in Devices : HasDevice(fv, e) <=> e = d
      BY <2>3, <2>5, <2>6
    <3>2. ListOf(q, us) /\ (Sorted(vl) => Sorted(q))
      BY <1>1, <2>2, <3>1, ListShortened DEF q, fv
    <3> QED
      BY <1>3, <2>2, <2>6, <3>2 DEF us
  <2>7. CASE new.devs \o new.invs # <<>>
    <3>1. EntryOf(new, us)
      BY <2>3, <2>7
    <3>2. ListOf(r, us) /\ (Sorted(vl) => Sorted(r))
      BY <1>1, <2>2, <2>3, <2>4, <3>1, ListReplaced DEF r, fv
    <3> QED
      BY <1>3, <2>2, <2>7, <3>2 DEF us
  <2> QED
    BY <2>6, <2>7
<1> QED
  BY <1>4, <1>5

-----------------------------------------------------------------------------
(* Putting a device on a list *)

\* The entry of d alone.
LEMMA EntryNew ==
    ASSUME NEW d \in Devices, NEW f \in File, NEW us, us[d] = f, f # NoFile
    PROVE  /\ newFileVersion(d, f) \in Entry /\ newFileVersion(d, f).ver = f.ver
           /\ EntryOf(newFileVersion(d, f), us) /\ \A e \in Devices : HasDevice(newFileVersion(d, f), e) <=> e = d
<1> DEFINE fv == newFileVersion(d, f)
           one == <<d>>
           none == <<>>
<1>1. f.ver \in Versions /\ f.inv \in BOOLEAN
  BY DEF File
<1>2. /\ one \in Seq(Devices) /\ Distinct(one) /\ ToSet(one) = {d} /\ one # <<>>
      /\ none \in Seq(Devices) /\ Distinct(none) /\ ToSet(none) = {}
  BY DEF Distinct, ToSet
<1>3. fv = IF f.inv THEN [ver |-> f.ver, devs |-> none, invs |-> one] ELSE [ver |-> f.ver, devs |-> one, invs |-> none]
  BY DEF newFileVersion, FileVersion
<1>4. fv.ver = f.ver /\ fv.devs = (IF f.inv THEN none ELSE one) /\ fv.invs = (IF f.inv THEN one ELSE none)
  BY <1>3
<1> HIDE DEF one, none
<1>5. fv \in Entry
  BY <1>1, <1>2, <1>3 DEF Entry
<1> HIDE DEF fv
<1>6. EntryOf(fv, us)
  BY <1>1, <1>2, <1>4 DEF EntryOf, HasValid, HasInvalid, none
<1>7. \A e \in Devices : HasDevice(fv, e) <=> e = d
  BY <1>2, <1>4 DEF HasDevice
<1> QED
  BY <1>4, <1>5, <1>6, <1>7 DEF fv

\* A list with one more element at its end that it did not have.
LEMMA AppendedIs ==
    ASSUME NEW S, NEW s \in Seq(S), Distinct(s), NEW e \in S, e \notin ToSet(s)
    PROVE  /\ Append(s, e) \in Seq(S) /\ Distinct(Append(s, e)) /\ Append(s, e) # <<>>
           /\ ToSet(Append(s, e)) = ToSet(s) \cup {e}
<1> DEFINE r == Append(s, e)
<1>1. r \in Seq(S) /\ Len(r) = Len(s) + 1 /\ r[Len(s) + 1] = e /\ \A i \in 1..Len(s) : r[i] = s[i]
  OBVIOUS
<1> HIDE DEF r
<1>2. \A i \in 1..Len(s) : s[i] # e
  BY DEF ToSet
<1>3. Distinct(r)
  BY <1>1, <1>2 DEF Distinct
<1>4. ToSet(r) = ToSet(s) \cup {e}
  <2>1. ToSet(r) = {r[i] : i \in 1..Len(s) + 1} /\ ToSet(s) = {s[i] : i \in 1..Len(s)}
    BY <1>1 DEF ToSet
  <2>2. \A i \in 1..Len(s) + 1 : i \in 1..Len(s) \/ i = Len(s) + 1
    OBVIOUS
  <2> QED
    BY <1>1, <2>1, <2>2
<1> QED
  BY <1>1, <1>3, <1>4 DEF r

\* The entry that d joins.
Joined(fv, d, f) == IF f.inv THEN [fv EXCEPT !.invs = Append(@, d)] ELSE [fv EXCEPT !.devs = Append(@, d)]

\* It is of d, too.
LEMMA EntryJoined ==
    ASSUME NEW fv \in Entry, NEW fs, EntryOf(fv, fs), NEW d \in Devices, fs[d] = NoFile, NEW f \in File, f # NoFile,
           NEW us, us[d] = f, SameButFor(fs, us, d), fv.ver = f.ver
    PROVE  /\ Joined(fv, d, f) \in Entry /\ Joined(fv, d, f).ver = fv.ver /\ EntryOf(Joined(fv, d, f), us)
           /\ \A e \in Devices : HasDevice(Joined(fv, d, f), e) <=> (HasDevice(fv, e) \/ e = d)
<1> DEFINE new == Joined(fv, d, f)
           a == IF f.inv THEN fv.devs ELSE Append(fv.devs, d)
           b == IF f.inv THEN Append(fv.invs, d) ELSE fv.invs
<1>1. /\ fv = [ver |-> fv.ver, devs |-> fv.devs, invs |-> fv.invs]
      /\ fv.devs \in Seq(Devices) /\ fv.invs \in Seq(Devices) /\ fv.ver \in Versions
      /\ Distinct(fv.devs) /\ Distinct(fv.invs) /\ (fv.devs # <<>> \/ fv.invs # <<>>)
      /\ f.inv \in BOOLEAN
  BY DEF Entry, EntryOf, File
<1>2. d \notin ToSet(fv.devs) /\ d \notin ToSet(fv.invs)
  BY DEF EntryOf, HasValid, HasInvalid
<1>3. /\ Append(fv.devs, d) \in Seq(Devices) /\ Distinct(Append(fv.devs, d)) /\ Append(fv.devs, d) # <<>>
      /\ ToSet(Append(fv.devs, d)) = ToSet(fv.devs) \cup {d}
  BY <1>1, <1>2, AppendedIs
<1>4. /\ Append(fv.invs, d) \in Seq(Devices) /\ Distinct(Append(fv.invs, d)) /\ Append(fv.invs, d) # <<>>
      /\ ToSet(Append(fv.invs, d)) = ToSet(fv.invs) \cup {d}
  BY <1>1, <1>2, AppendedIs
<1>5. new = [ver |-> fv.ver, devs |-> a, invs |-> b]
  BY <1>1 DEF Joined
<1>6. /\ a \in Seq(Devices) /\ b \in Seq(Devices) /\ Distinct(a) /\ Distinct(b) /\ (a # <<>> \/ b # <<>>)
      /\ ToSet(a) = (IF f.inv THEN ToSet(fv.devs) ELSE ToSet(fv.devs) \cup {d})
      /\ ToSet(b) = (IF f.inv THEN ToSet(fv.invs) \cup {d} ELSE ToSet(fv.invs))
  BY <1>1, <1>3, <1>4
<1> HIDE DEF a, b, new
<1>7. new \in Entry /\ new.ver = fv.ver /\ new.devs = a /\ new.invs = b
  BY <1>1, <1>5, <1>6 DEF Entry
<1>8. ASSUME NEW e \in Devices
      PROVE (e \in ToSet(a) => HasValid(us, e, fv.ver)) /\ (e \in ToSet(b) => HasInvalid(us, e, fv.ver))
  <2>1. CASE e = d
    BY <1>1, <1>2, <1>6, <2>1 DEF HasValid, HasInvalid
  <2>2. CASE e # d
    BY <1>1, <1>6, <2>2 DEF EntryOf, HasValid, HasInvalid, SameButFor
  <2> QED
    BY <2>1, <2>2
<1>9. EntryOf(new, us)
  BY <1>6, <1>7, <1>8 DEF EntryOf
<1>10. \A e \in Devices : HasDevice(new, e) <=> (HasDevice(fv, e) \/ e = d)
  BY <1>1, <1>6, <1>7 DEF HasDevice
<1> QED
  BY <1>7, <1>9, <1>10 DEF new

\* The i-th place is that of version v.
Placed(vl, i, v) == \A j \in DOMAIN vl : (j < i => Newer(vl[j].ver, v)) /\ (j >= i => Newer(v, vl[j].ver))

\* A list with an entry of d alone at the i-th place.
LEMMA ListLengthened ==
    ASSUME NEW vl, NEW fs \in Record, ListOf(vl, fs), NEW d \in Devices, fs[d] = NoFile,
           NEW us \in Record, SameButFor(fs, us, d),
           NEW fv \in Entry, EntryOf(fv, us), \A e \in Devices : HasDevice(fv, e) <=> e = d,
           NEW i \in 1..Len(vl) + 1, NEW r \in Seq(Entry), With(r, vl, i, fv)
    PROVE  ListOf(r, us) /\ (Sorted(vl) /\ Placed(vl, i, fv.ver) => Sorted(r))
<1> DEFINE of(j) == IF j < i THEN j ELSE j - 1
           at(j) == IF j < i THEN j ELSE j + 1
<1>1. /\ vl \in Seq(Entry) /\ DOMAIN vl = 1..Len(vl) /\ DOMAIN r = 1..Len(vl) + 1
      /\ i \in DOMAIN r /\ r[i] = fv /\ i \in Nat
  BY DEF ListOf, With
<1>2. \A j \in DOMAIN r : j # i => of(j) \in DOMAIN vl /\ r[j] = vl[of(j)]
  BY <1>1 DEF With
<1>3. \A k \in DOMAIN vl : at(k) \in DOMAIN r /\ at(k) # i /\ of(at(k)) = k
  BY <1>1
<1>4. \A j, k \in DOMAIN r : j # i /\ k # i => (of(j) = of(k) => j = k) /\ (j < k => of(j) < of(k))
  BY <1>1
<1>5. \A j \in DOMAIN r : (j < i => of(j) < i) /\ (j > i => of(j) >= i)
  BY <1>1
<1> HIDE DEF of, at
<1>6. \A k \in DOMAIN vl : ~HasDevice(vl[k], d)
  BY InEntry DEF ListOf
<1>7. \A j \in DOMAIN r : EntryOf(r[j], us)
  <2> SUFFICES ASSUME NEW j \in DOMAIN r, j # i PROVE EntryOf(vl[of(j)], us)
    BY <1>1, <1>2
  <2>1. ~HasDevice(vl[of(j)], d) /\ EntryOf(vl[of(j)], fs)
    BY <1>2, <1>6 DEF ListOf
  <2> QED
    BY <2>1, EntryKept
<1>8. DevicesOnce(r)
  <2> SUFFICES ASSUME NEW j \in DOMAIN r, NEW k \in DOMAIN r, NEW e \in Devices, HasDevice(r[j], e), HasDevice(r[k], e)
               PROVE  j = k
    BY DEF DevicesOnce
  <2>1. CASE e = d
    BY <1>2, <1>6, <2>1
  <2>2. CASE e # d
    <3>1. j # i /\ k # i
      BY <1>1, <2>2
    <3>2. of(j) = of(k)
      BY <1>2, <3>1 DEF ListOf, DevicesOnce
    <3> QED
      BY <1>4, <3>1, <3>2
  <2> QED
    BY <2>1, <2>2
<1>9. AllListed(r, us)
  <2> SUFFICES ASSUME NEW e \in Devices, us[e] # NoFile PROVE \E j \in DOMAIN r : HasDevice(r[j], e)
    BY DEF AllListed
  <2>1. CASE e = d
    BY <1>1, <2>1
  <2>2. CASE e # d
    <3>1. PICK k \in DOMAIN vl : HasDevice(vl[k], e)
      BY <2>2 DEF ListOf, AllListed, SameButFor
    <3>2. at(k) \in DOMAIN r /\ r[at(k)] = vl[k]
      BY <1>2, <1>3
    <3> QED
      BY <3>1, <3>2
  <2> QED
    BY <2>1, <2>2
<1>10. ASSUME Sorted(vl), Placed(vl, i, fv.ver) PROVE Sorted(r)
  <2> SUFFICES ASSUME NEW j \in DOMAIN r, NEW k \in DOMAIN r, j < k PROVE Newer(r[j].ver, r[k].ver)
    BY DEF Sorted
  <2>1. CASE j = i
    <3>1. k # i /\ k > i
      BY <2>1, <1>1
    <3> QED
      BY <1>1, <1>2, <1>5, <1>10, <2>1, <3>1 DEF Placed
  <2>2. CASE k = i
    <3>1. j # i /\ j < i
      BY <2>2, <1>1
    <3> QED
      BY <1>1, <1>2, <1>5, <1>10, <2>2, <3>1 DEF Placed
  <2>3. CASE j # i /\ k # i
    <3>1. of(j) \in DOMAIN vl /\ of(k) \in DOMAIN vl /\ of(j) < of(k) /\ r[j] = vl[of(j)] /\ r[k] = vl[of(k)]
      BY <1>2, <1>4, <2>3
    <3> QED
      BY <1>10, <3>1 DEF Sorted
  <2> QED
    BY <2>1, <2>2, <2>3
<1> QED
  BY <1>7, <1>8, <1>9, <1>10 DEF ListOf

\* insert makes the list that of the files with d's; where versions are not in conflict, the
\* newest stays in front.
LEMMA InsertIs ==
    ASSUME Configured, NEW vl, NEW fs \in Record, ListOf(vl, fs), NEW d \in Devices, fs[d] = NoFile,
           NEW f \in File, NEW any
    PROVE  /\ ListOf(insert(vl, d, f, any), [fs EXCEPT ![d] = f])
           /\ InSuccession /\ Sorted(vl) => Sorted(insert(vl, d, f, any))
<1> DEFINE us == [fs EXCEPT ![d] = f]
           N == {j \in 1..Len(vl) : Equal(vl[j].ver.vec, f.ver.vec) \/ shouldInsertBefore(vl[j], f, any)}
           k == IF N # {} THEN Min(N) ELSE 0
           fv == vl[k]
           own == newFileVersion(d, f)
           new == Joined(fv, d, f)
<1>1. /\ us \in Record /\ us[d] = f /\ SameButFor(fs, us, d)
      /\ f # NoFile /\ f.ver \in Versions
  BY Elsewhere DEF Configured, File
<1>2. vl \in Seq(Entry) /\ DOMAIN vl = 1..Len(vl) /\ \A j \in DOMAIN vl : vl[j].ver \in Versions
  <2>1. vl \in Seq(Entry) /\ DOMAIN vl = 1..Len(vl)
    BY DEF ListOf
  <2>2. \A j \in DOMAIN vl : vl[j] \in Entry
    BY <2>1
  <2> QED
    BY <2>1, <2>2 DEF Entry
<1>3. insert(vl, d, f, any) =
        CASE k = 0 -> Append(vl, own)
          [] k # 0 /\ Equal(fv.ver.vec, f.ver.vec) -> ReplaceAt(vl, k, new)
          [] OTHER -> InsertAt(vl, k, own)
  BY DEF insert, SelectInSeq, Joined
<1>4. /\ own \in Entry /\ own.ver = f.ver
      /\ EntryOf(own, us) /\ \A e \in Devices : HasDevice(own, e) <=> e = d
  BY <1>1, EntryNew
<1>5. N # {} => Min(N) \in N /\ \A j \in N : Min(N) <= j
  <2>1. N \subseteq Nat
    OBVIOUS
  <2> QED
    BY <2>1, MinIs
<1>6. \A j \in DOMAIN vl : j \in N <=> Equal(vl[j].ver.vec, f.ver.vec) \/ shouldInsertBefore(vl[j], f, any)
  BY <1>2
<1>7. N \subseteq DOMAIN vl
  BY <1>2
<1> HIDE DEF us, N, own, new
<1>8. \A j \in DOMAIN vl : ~HasDevice(vl[j], d)
  BY InEntry DEF ListOf
\* Where versions are not in conflict, f is at its place.
<1>9. ASSUME InSuccession, NEW j \in DOMAIN vl
      PROVE  j \in N <=> vl[j].ver = f.ver \/ Newer(f.ver, vl[j].ver)
  <2>1. Compare(vl[j].ver.vec, f.ver.vec) = "Lesser" <=> Newer(f.ver, vl[j].ver)
    BY <1>1, <1>2, CompareIs
  <2>2. Equal(vl[j].ver.vec, f.ver.vec) <=> vl[j].ver = f.ver
    BY <1>1, <1>2, EqualIs
  <2>3. ~Concurrent(vl[j].ver.vec, f.ver.vec)
    BY <1>1, <1>2, <1>9 DEF InSuccession
  <2> QED
    BY <1>6, <2>1, <2>2, <2>3 DEF shouldInsertBefore
<1>10. ASSUME InSuccession, NEW j \in DOMAIN vl, j \notin N PROVE Newer(vl[j].ver, f.ver)
  <2>1. /\ Compare(vl[j].ver.vec, f.ver.vec) = "Greater" <=> Newer(vl[j].ver, f.ver)
        /\ Compare(vl[j].ver.vec, f.ver.vec) = "Lesser" <=> Newer(f.ver, vl[j].ver)
        /\ Compare(vl[j].ver.vec, f.ver.vec) \in {"Equal", "Greater", "Lesser", "ConcurrentGreater", "ConcurrentLesser"}
    BY <1>1, <1>2, CompareIs
  <2>2. Compare(vl[j].ver.vec, f.ver.vec) = "Equal" <=> vl[j].ver = f.ver
    BY <1>1, <1>2, EqualIs DEF Equal
  <2>3. ~Concurrent(vl[j].ver.vec, f.ver.vec)
    BY <1>1, <1>2, <1>10 DEF InSuccession
  <2> QED
    BY <1>9, <1>10, <2>1, <2>2, <2>3 DEF Concurrent
<1>11. CASE N = {}
  <2> DEFINE r == Append(vl, own)
             i == Len(vl) + 1
  <2>1. insert(vl, d, f, any) = r
    BY <1>3, <1>11
  <2>2. r \in Seq(Entry) /\ i \in 1..Len(vl) + 1 /\ With(r, vl, i, own)
    BY <1>2, <1>4 DEF With
  <2> HIDE DEF r
  <2>3. InSuccession => Placed(vl, i, own.ver)
    BY <1>2, <1>4, <1>10, <1>11 DEF Placed
  <2> HIDE DEF i
  <2>4. ListOf(r, us) /\ (InSuccession /\ Sorted(vl) => Sorted(r))
    BY <1>1, <1>4, <2>2, <2>3, ListLengthened
  <2> QED
    BY <2>1, <2>4 DEF us
<1>12. CASE N # {} /\ vl[Min(N)].ver = f.ver
  <2> DEFINE i == Min(N)
             r == ReplaceAt(vl, i, new)
  <2>1. i \in N /\ i \in DOMAIN vl /\ i # 0 /\ fv = vl[i]
    BY <1>2, <1>5, <1>7, <1>12
  <2>2. Equal(fv.ver.vec, f.ver.vec)
    BY <1>1, <1>2, <1>12, <2>1, EqualIs
  <2>3. insert(vl, d, f, any) = r
    BY <1>3, <1>12, <2>1, <2>2
  <2>4. vl[i] \in Entry /\ EntryOf(vl[i], fs)
    BY <1>2, <2>1 DEF ListOf
  <2> HIDE DEF i, k
  <2>5. /\ new \in Entry /\ new.ver = vl[i].ver /\ EntryOf(new, us)
        /\ \A e \in Devices : HasDevice(new, e) <=> (HasDevice(vl[i], e) \/ e = d)
    BY <1>1, <1>12, <2>1, <2>4, EntryJoined DEF new, i
  <2> HIDE DEF fv
  <2>6. ListOf(r, us) /\ (Sorted(vl) => Sorted(r))
    BY <1>1, <1>8, <2>1, <2>5, ListReplaced
  <2> QED
    BY <2>3, <2>6 DEF us
<1>13. CASE N # {} /\ vl[Min(N)].ver # f.ver
  <2> DEFINE i == Min(N)
             r == InsertAt(vl, i, own)
  <2>1. i \in N /\ i \in DOMAIN vl /\ i # 0 /\ fv = vl[i] /\ i \in 1..Len(vl) /\ i \in 1..Len(vl) + 1
    BY <1>2, <1>5, <1>7, <1>13
  <2>2. ~Equal(fv.ver.vec, f.ver.vec)
    BY <1>1, <1>2, <1>13, <2>1, EqualIs
  <2>3. insert(vl, d, f, any) = r
    BY <1>3, <1>13, <2>1, <2>2
  <2>4. \A j \in N : i <= j
    BY <1>5, <1>13
  <2>5. vl[i].ver # f.ver
    BY <1>13
  <2> HIDE DEF i, k, fv
  <2>6. r \in Seq(Entry) /\ With(r, vl, i, own)
    BY <1>2, <1>4, <2>1, InsertAtIs
  <2> HIDE DEF r
  <2>7. ASSUME InSuccession, Sorted(vl) PROVE Placed(vl, i, own.ver)
    <3> SUFFICES ASSUME NEW j \in DOMAIN vl
                 PROVE  (j < i => Newer(vl[j].ver, own.ver)) /\ (j >= i => Newer(own.ver, vl[j].ver))
      BY DEF Placed
    <3>1. ASSUME j < i PROVE Newer(vl[j].ver, own.ver)
      <4>1. j \notin N
        BY <1>2, <2>1, <2>4, <3>1
      <4> QED
        BY <1>4, <1>10, <2>7, <4>1
    <3>2. Newer(f.ver, vl[i].ver)
      BY <1>9, <2>1, <2>5, <2>7
    <3>3. ASSUME j > i PROVE Newer(own.ver, vl[j].ver)
      <4>1. Newer(vl[i].ver, vl[j].ver)
        BY <2>1, <2>7, <3>3 DEF Sorted
      <4> QED
        BY <1>1, <1>2, <1>4, <2>1, <3>2, <4>1, NewerOrders
    <3> QED
      BY <1>2, <1>4, <2>1, <3>1, <3>2, <3>3
  <2>8. ListOf(r, us) /\ (InSuccession /\ Sorted(vl) => Sorted(r))
    BY <1>1, <1>4, <2>1, <2>6, <2>7, ListLengthened
  <2> QED
    BY <2>3, <2>8 DEF us
<1> QED
  BY <1>11, <1>12, <1>13

-----------------------------------------------------------------------------
(* Counts *)

\* The counts of items N of which those in D are deleted.
Tally(N, D) == [files |-> Cardinality(N \ D), deleted |-> Cardinality(N \cap D)]

\* Counts are numbers.
LEMMA TallyIs == ASSUME NEW N, NEW D, IsFiniteSet(N) PROVE Tally(N, D) \in Counts
<1>1. IsFiniteSet(N \ D) /\ IsFiniteSet(N \cap D)
  BY FS_Subset
<1>2. Cardinality(N \ D) \in Nat /\ Cardinality(N \cap D) \in Nat
  BY <1>1, FS_CardinalityType
<1> QED
  BY <1>2 DEF Tally, Counts

\* One item counts once.
LEMMA TallyWith ==
    ASSUME NEW N, NEW D, IsFiniteSet(N), NEW n \in N
    PROVE  Tally(N, D) = IF n \in D THEN [Tally(N \ {n}, D) EXCEPT !.deleted = @ + 1]
                                    ELSE [Tally(N \ {n}, D) EXCEPT !.files = @ + 1]
<1> DEFINE M == N \ {n}
<1>1. IsFiniteSet(M \ D) /\ IsFiniteSet(M \cap D)
  BY FS_Subset
<1>2. n \notin M \ D /\ n \notin M \cap D
  OBVIOUS
<1>3. /\ Cardinality((M \ D) \cup {n}) = Cardinality(M \ D) + 1
      /\ Cardinality((M \cap D) \cup {n}) = Cardinality(M \cap D) + 1
  BY <1>1, <1>2, FS_AddElement
<1>4. Tally(M, D) = [files |-> Cardinality(M \ D), deleted |-> Cardinality(M \cap D)]
  BY DEF Tally
<1>5. CASE n \in D
  <2>1. N \ D = M \ D /\ N \cap D = (M \cap D) \cup {n}
    BY <1>5
  <2>2. Tally(N, D) = [files |-> Cardinality(M \ D), deleted |-> Cardinality(M \cap D) + 1]
    BY <1>3, <2>1 DEF Tally
  <2> HIDE DEF M
  <2> QED
    BY <1>4, <1>5, <2>2 DEF M
<1>6. CASE n \notin D
  <2>1. N \ D = (M \ D) \cup {n} /\ N \cap D = M \cap D
    BY <1>6
  <2>2. Tally(N, D) = [files |-> Cardinality(M \ D) + 1, deleted |-> Cardinality(M \cap D)]
    BY <1>3, <2>1 DEF Tally
  <2> HIDE DEF M
  <2> QED
    BY <1>4, <1>6, <2>2 DEF M
<1> QED
  BY <1>5, <1>6

\* Adding a file and taking it away again changes nothing.
LEMMA AddFileIs ==
    ASSUME NEW c \in Counts, NEW f
    PROVE  AddFile(c, f) \in Counts /\ RemoveFile(c, f) \in Counts
  BY DEF AddFile, RemoveFile, Counts

\* The same items, but for n.
SameItems(N, M, n) == M \ {n} = N \ {n}

\* File f is of item n, if that is counted.
CountsAs(N, D, n, f) == n \in N => (f.ver.deleted <=> n \in D)

\* The counts c with file old no longer counted, if it was, and file new counted, if it is.
Recount(c, was, old, is, new) ==
    LET b == IF was THEN RemoveFile(c, old) ELSE c
    IN  IF is THEN AddFile(b, new) ELSE b

\* The counts after one item has changed: without what it was, with what it is.
LEMMA Retallied ==
    ASSUME NEW N, NEW D, NEW M, NEW E, NEW n, NEW old, NEW new,
           IsFiniteSet(N), IsFiniteSet(M), SameItems(N, M, n), SameItems(D, E, n),
           CountsAs(N, D, n, old), CountsAs(M, E, n, new)
    PROVE  Tally(M, E) = Recount(Tally(N, D), n \in N, old, n \in M, new)
<1> DEFINE T == Tally(N \ {n}, D)
           c == IF n \in N THEN RemoveFile(Tally(N, D), old) ELSE Tally(N, D)
<1>1. T \in Counts
  BY FS_RemoveElement, TallyIs
<1>2. Tally(M \ {n}, E) = T
  <2>1. (M \ {n}) \ E = (N \ {n}) \ D /\ (M \ {n}) \cap E = (N \ {n}) \cap D
    BY DEF SameItems
  <2> QED
    BY <2>1 DEF Tally
<1>3. n \in N => Tally(N, D) = IF n \in D THEN [T EXCEPT !.deleted = @ + 1] ELSE [T EXCEPT !.files = @ + 1]
  BY TallyWith
<1>4. n \notin N => Tally(N, D) = T
  <2>1. n \notin N => N \ {n} = N
    OBVIOUS
  <2> QED
    BY <2>1
<1>5. n \in M => Tally(M, E) = IF n \in E THEN [T EXCEPT !.deleted = @ + 1] ELSE [T EXCEPT !.files = @ + 1]
  <2> DEFINE S == Tally(M \ {n}, E)
  <2>1. n \in M => Tally(M, E) = IF n \in E THEN [S EXCEPT !.deleted = @ + 1] ELSE [S EXCEPT !.files = @ + 1]
    BY TallyWith
  <2> HIDE DEF S, T
  <2>2. S = T
    BY <1>2 DEF S
  <2> QED
    BY <2>1, <2>2
<1>6. n \notin M => Tally(M, E) = T
  <2>1. n \notin M => M \ {n} = M
    OBVIOUS
  <2> QED
    BY <1>2, <2>1
<1> HIDE DEF T
<1>7. c = T
  <2>1. CASE n \in N /\ n \in D
    BY <1>1, <1>3, <2>1 DEF RemoveFile, Counts, CountsAs
  <2>2. CASE n \in N /\ n \notin D
    BY <1>1, <1>3, <2>2 DEF RemoveFile, Counts, CountsAs
  <2> QED
    BY <1>4, <2>1, <2>2
<1> HIDE DEF c
<1>8. Tally(M, E) = IF n \in M THEN AddFile(c, new) ELSE c
  BY <1>5, <1>6, <1>7 DEF AddFile, CountsAs
<1> QED
  BY <1>8 DEF c, Recount

-----------------------------------------------------------------------------
(* Global versions *)

\* The list that update gives is that of the files with the new one.
LEMMA UpdateIs ==
    ASSUME Configured, NEW vl, NEW fs \in Record, ListOf(vl, fs), NEW d \in Devices, NEW f \in File, NEW any
    PROVE  /\ ListOf(update(vl, d, f, any), [fs EXCEPT ![d] = f]) /\ update(vl, d, f, any) # <<>>
           /\ InSuccession /\ Sorted(vl) => Sorted(update(vl, d, f, any))
<1> DEFINE us == [fs EXCEPT ![d] = NoFile]
           p == pop(vl, d)
           r == insert(p, d, f, any)
<1>1. us \in Record /\ us[d] = NoFile /\ ListOf(p, us) /\ (Sorted(vl) => Sorted(p))
  BY PopIs, Elsewhere
<1>2. [us EXCEPT ![d] = f] = [fs EXCEPT ![d] = f]
  BY DEF Record
<1> HIDE DEF us, p
<1>3. ListOf(r, [us EXCEPT ![d] = f]) /\ (InSuccession /\ Sorted(p) => Sorted(r))
  BY <1>1, InsertIs
<1> HIDE DEF r
<1>4. [fs EXCEPT ![d] = f][d] # NoFile
  <2>1. [fs EXCEPT ![d] = f][d] = f
    BY Elsewhere
  <2>2. f # NoFile
    BY DEF Configured
  <2> QED
    BY <2>1, <2>2
<1>5. r # <<>>
  <2> DEFINE w == [fs EXCEPT ![d] = f]
  <2>1. ListOf(r, w) /\ w[d] # NoFile
    BY <1>2, <1>3, <1>4
  <2> HIDE DEF w
  <2>2. \E i \in DOMAIN r : HasDevice(r[i], d)
    BY <2>1 DEF ListOf, AllListed
  <2> QED
    BY <2>2
<1> QED
  BY <1>1, <1>2, <1>3, <1>5 DEF update, r, p

\* No file is invalid.
AllValid(fs) == \A e \in Devices : fs[e] # NoFile => ~fs[e].inv

\* updateGlobal gets a file of the new global version; the one on record, if none is invalid.
LEMMA GlobalAfterIs ==
    ASSUME Configured, NEW fs, NEW d \in Devices, NEW f \in File,
           NEW us \in Record, us[d] = f, SameButFor(fs, us, d), NEW new, ListOf(new, us), new # <<>>
    PROVE  /\ GlobalAfter(new, f, fs).ver = GetGlobal(new).ver
           /\ ~IsInvalid(GetGlobal(new)) /\ AllValid(us) => GlobalAfter(new, f, fs) = us[FirstDevice(GetGlobal(new))]
<1> DEFINE g == GetGlobal(new)
           e == FirstDevice(g)
<1>1. /\ g \in Entry /\ e \in Devices /\ us[e] \in File /\ us[e].ver = g.ver
      /\ us[e].inv <=> IsInvalid(g)
  BY GlobalIs
<1>2. GlobalAfter(new, f, fs) = IF Equal(g.ver.vec, f.ver.vec) THEN f ELSE fs[e]
  BY DEF GlobalAfter
<1> HIDE DEF g, e
<1>3. Equal(g.ver.vec, f.ver.vec) <=> g.ver = f.ver
  BY <1>1, EqualIs DEF Entry, File
<1>4. CASE g.ver = f.ver
  <2>1. GlobalAfter(new, f, fs) = f
    BY <1>2, <1>3, <1>4
  <2>2. ASSUME ~IsInvalid(g), AllValid(us) PROVE f = us[e]
    <3>1. ~us[e].inv /\ f # NoFile
      BY <1>1, <2>2 DEF Configured
    <3>2. ~f.inv
      BY <2>2, <3>1 DEF AllValid
    <3> QED
      BY <1>1, <1>4, <3>1, <3>2 DEF File
  <2> QED
    BY <1>4, <2>1, <2>2 DEF g, e
<1>5. CASE g.ver # f.ver
  <2>1. e # d
    BY <1>1, <1>5
  <2>2. GlobalAfter(new, f, fs) = us[e]
    BY <1>1, <1>2, <1>3, <1>5, <2>1 DEF SameButFor
  <2> QED
    BY <1>1, <2>2 DEF g, e
<1> QED
  BY <1>4, <1>5

\* If the global version does not change, neither does what others need.
LEMMA SameGlobal ==
    ASSUME Configured, NEW vl, NEW fs \in Record, ListOf(vl, fs), NEW new, NEW us \in Record, ListOf(new, us),
           new # <<>>, ~UpdateChangesGlobal(vl, new)
    PROVE  /\ vl # <<>> /\ GetGlobal(vl).ver = GetGlobal(new).ver
           /\ IsInvalid(GetGlobal(vl)) <=> IsInvalid(GetGlobal(new))
           /\ \A e \in Devices : fs[e] = us[e] => (Need(vl, e) <=> Need(new, e))
<1> DEFINE g == GetGlobal(vl)
           h == GetGlobal(new)
<1>1. vl # <<>> /\ (IsInvalid(g) <=> IsInvalid(h)) /\ Equal(g.ver.vec, h.ver.vec)
  BY DEF UpdateChangesGlobal
<1>2. g \in Entry /\ h \in Entry
  BY <1>1, GlobalIs
<1>3. \A e \in Devices : (Need(vl, e) <=> NeedOf(g, fs[e])) /\ (Need(new, e) <=> NeedOf(h, us[e]))
  BY <1>1, NeedIs
<1> HIDE DEF g, h
<1>4. g.ver = h.ver
  BY <1>1, <1>2, EqualIs DEF Entry
<1>5. \A x : NeedOf(g, x) <=> NeedOf(h, x)
  BY <1>1, <1>4, Zenon DEF NeedOf
<1> QED
  BY <1>1, <1>3, <1>4, <1>5 DEF g, h

\* Where no file is invalid, the first version is the global one.
LEMMA FirstIsGlobal ==
    ASSUME NEW vl, NEW fs \in Record, ListOf(vl, fs), AllValid(fs), vl # <<>>
    PROVE  /\ 1 \in DOMAIN vl /\ GetGlobal(vl) = vl[1] /\ findGlobal(vl) = 1
           /\ ~IsInvalid(GetGlobal(vl)) /\ vl[1].devs # <<>> /\ vl[1].invs = <<>>
<1>1. vl \in Seq(Entry) /\ DOMAIN vl = 1..Len(vl) /\ 1 \in DOMAIN vl
  BY DEF ListOf
<1>2. vl[1] \in Entry /\ EntryOf(vl[1], fs)
  BY <1>1 DEF ListOf
<1>3. vl[1].invs = <<>>
  <2> DEFINE s == vl[1].invs
  <2>1. s \in Seq(Devices)
    BY <1>2 DEF Entry
  <2>2. \A e \in Devices : e \notin ToSet(s)
    BY <1>2 DEF EntryOf, AllValid, HasInvalid
  <2> HIDE DEF s
  <2>3. s # <<>> => s[1] \in Devices /\ s[1] \in ToSet(s)
    BY <2>1 DEF ToSet
  <2> QED
    BY <2>2, <2>3 DEF s
<1>4. vl[1].devs # <<>>
  BY <1>2, <1>3 DEF EntryOf
<1>5. findGlobal(vl) \in DOMAIN vl /\ findGlobal(vl) <= 1 /\ ~IsInvalid(GetGlobal(vl))
  BY <1>1, <1>4, GlobalIs DEF IsInvalid
<1>6. findGlobal(vl) = 1
  BY <1>1, <1>5
<1> QED
  BY <1>1, <1>3, <1>4, <1>5, <1>6 DEF GetGlobal

\* Where no file is invalid, pop takes the global version away when it says so.
LEMMA PopKeepsGlobal ==
    ASSUME NEW vl, NEW fs \in Record, ListOf(vl, fs), AllValid(fs), NEW d \in Devices
    PROVE  /\ PopChangesGlobal(vl, d) => vl # <<>>
           /\ ~PopChangesGlobal(vl, d) =>
                  /\ pop(vl, d) = <<>> <=> vl = <<>>
                  /\ vl # <<>> => GetGlobal(pop(vl, d)).ver = GetGlobal(vl).ver
<1> DEFINE us == [fs EXCEPT ![d] = NoFile]
           i == findDevice(vl, d)
           fv == Popped(vl[i], d)
           p == pop(vl, d)
<1>1. us \in Record /\ ListOf(p, us) /\ AllValid(us)
  BY PopIs, Elsewhere DEF AllValid, SameButFor
<1>2. vl \in Seq(Entry) /\ DOMAIN vl = 1..Len(vl)
  BY DEF ListOf
<1>3. i = 0 \/ i \in DOMAIN vl
  BY FindDeviceIs
<1>4. p = CASE i = 0 -> vl [] i # 0 /\ fv.devs \o fv.invs = <<>> -> RemoveAt(vl, i) [] OTHER -> ReplaceAt(vl, i, fv)
  BY DEF pop, Popped
<1>5. PopChangesGlobal(vl, d) <=> i # 0 /\ i = findGlobal(vl) /\ (vl[i].devs \o vl[i].invs = <<d>> \/ vl[i].devs = <<d>>)
  BY DEF PopChangesGlobal
<1> HIDE DEF us, i, fv, p
<1>6. PopChangesGlobal(vl, d) => vl # <<>>
  BY <1>2, <1>3, <1>5
<1>7. p # <<>> => GetGlobal(p) = p[1]
  BY <1>1, FirstIsGlobal
<1>8. CASE i = 0
  BY <1>4, <1>6, <1>8 DEF p
<1>9. CASE i \in DOMAIN vl
  <2>1. vl # <<>> /\ i # 0
    BY <1>2, <1>9
  <2>2. /\ 1 \in DOMAIN vl /\ GetGlobal(vl) = vl[1] /\ findGlobal(vl) = 1
        /\ ~IsInvalid(GetGlobal(vl)) /\ vl[1].devs # <<>> /\ vl[1].invs = <<>>
    BY <2>1, FirstIsGlobal
  <2>3. vl[i] \in Entry /\ EntryOf(vl[i], fs)
    BY <1>2, <1>9 DEF ListOf
  <2>4. CASE i # 1
    <3>1. Len(vl) >= 2 /\ i > 1 /\ 1 \in 1..Len(vl) - 1
      BY <1>2, <1>9, <2>4
    <3>2. Len(RemoveAt(vl, i)) = Len(vl) - 1 /\ RemoveAt(vl, i)[1] = vl[1]
      BY <1>2, <1>9, <3>1, RemoveAtIs
    <3>3. ReplaceAt(vl, i, fv)[1] = vl[1] /\ Len(ReplaceAt(vl, i, fv)) = Len(vl)
      BY <1>2, <1>9, <2>2, <2>4 DEF ReplaceAt
    <3>4. p[1] = vl[1] /\ Len(p) # 0
      BY <1>4, <2>1, <3>1, <3>2, <3>3
    <3>5. p # <<>>
      BY <3>4
    <3> QED
      BY <1>6, <1>7, <2>1, <2>2, <3>4, <3>5 DEF p
  <2>5. CASE i = 1 /\ ~PopChangesGlobal(vl, d)
    <3>1. vl[1].devs # <<d>>
      BY <1>5, <2>1, <2>2, <2>5
    <3>2. RemoveFirst(vl[1].devs, d) # <<>> /\ RemoveFirst(vl[1].devs, d) \in Seq(Devices)
      <4> DEFINE s == vl[1].devs
      <4>1. s \in Seq(Devices) /\ Distinct(s) /\ s # <<>> /\ s # <<d>>
        BY <2>2, <2>3, <2>5, <3>1 DEF Entry, EntryOf
      <4> HIDE DEF s
      <4>2. RemoveFirst(s, d) # <<>> /\ RemoveFirst(s, d) \in Seq(Devices)
        BY <4>1, RemoveFirstIs
      <4> QED
        BY <4>2 DEF s
    <3>3. fv.devs = RemoveFirst(vl[1].devs, d) /\ fv.ver = vl[1].ver /\ fv.invs = RemoveFirst(vl[1].invs, d)
      BY <2>5 DEF fv, Popped, FileVersion
    <3>4. RemoveFirst(vl[1].invs, d) \in Seq(Devices)
      <4> DEFINE s == vl[1].invs
      <4>1. s \in Seq(Devices) /\ Distinct(s)
        BY <2>3, <2>5 DEF Entry, EntryOf
      <4> HIDE DEF s
      <4>2. RemoveFirst(s, d) \in Seq(Devices)
        BY <4>1, RemoveFirstIs
      <4> QED
        BY <4>2 DEF s
    <3>5. fv.devs \o fv.invs # <<>>
      <4> DEFINE s == fv.devs
                 t == fv.invs
      <4>1. s \in Seq(Devices) /\ t \in Seq(Devices) /\ s # <<>>
        BY <3>2, <3>3, <3>4
      <4> HIDE DEF s, t
      <4>2. s \o t # <<>>
        BY <4>1
      <4> QED
        BY <4>2 DEF s, t
    <3>6. p = ReplaceAt(vl, i, fv)
      BY <1>4, <2>1, <3>5
    <3>7. p[1] = fv /\ Len(p) = Len(vl)
      BY <1>2, <1>9, <2>5, <3>6 DEF ReplaceAt
    <3>8. p # <<>>
      BY <1>2, <2>1, <3>7
    <3> QED
      BY <1>6, <1>7, <2>1, <2>2, <3>3, <3>7, <3>8 DEF p
  <2>6. CASE PopChangesGlobal(vl, d)
    BY <1>6, <2>6
  <2> QED
    BY <2>4, <2>5, <2>6
<1> QED
  BY <1>3, <1>8, <1>9

-----------------------------------------------------------------------------
(* The lists are those of the files *)

\* The variables have their types, and the version list of every item is that of its files.
Base ==
  /\ TypeOK
  /\ versions = [n \in Names |-> versions[n]]
  /\ \A n \in Names : ListOf(versions[n], files(n))

\* The files of an item and its list.
LEMMA ItemIs ==
    ASSUME Base, NEW n \in Names
    PROVE  files(n) \in Record /\ ListOf(versions[n], files(n)) /\ \A d \in Devices : files(n)[d] = have[d][n]
<1>1. have \in [Devices -> [Names -> File \cup {NoFile}]]
  BY DEF Base, TypeOK
<1> QED
  BY <1>1 DEF Base, Record, files

\* Typing follows from the lists and the other variables.
Typed ==
  /\ have \in [Devices -> [Names -> File \cup {NoFile}]]
  /\ localNeed \subseteq Names
  /\ globalCount \in Counts
  /\ needCount \in [Devices -> Counts \cup {NoCounts}]
  /\ tracked \subseteq Remotes
  /\ dropping \in Remotes \cup {NoDevice}
  /\ removing \subseteq Names

\* Every list is that of the files.
ListsRight ==
  /\ versions = [n \in Names |-> versions[n]]
  /\ \A n \in Names : ListOf(versions[n], files(n))

\* Base is typing and the lists.
LEMMA BaseIs == Base <=> Typed /\ ListsRight
<1>1. TypeOK <=> Typed /\ \A n \in Names : versions[n] \in Seq(Entry)
  BY Zenon DEF TypeOK, Typed, Entry
<1>2. \A n \in Names : ListOf(versions[n], files(n)) => versions[n] \in Seq(Entry)
  BY DEF ListOf
<1> QED
  BY <1>1, <1>2 DEF Base, ListsRight

\* So it is of the next state.
LEMMA BaseNext == Base' <=> Typed' /\ ListsRight'
  BY BaseIs, PTL

\* One item's list, and what one device has of it, change.
LEMMA OneItem ==
    ASSUME Base, NEW d \in Devices, NEW n \in Names, NEW f \in File \cup {NoFile}, NEW new,
           have' = [have EXCEPT ![d][n] = f], versions' = [versions EXCEPT ![n] = new]
    PROVE  /\ have' \in [Devices -> [Names -> File \cup {NoFile}]]
           /\ versions' = [m \in Names |-> versions[m]']
           /\ files(n)' = [files(n) EXCEPT ![d] = f] /\ versions[n]' = new
           /\ \A m \in Names \ {n} : files(m)' = files(m) /\ versions[m]' = versions[m]
<1>1. have \in [Devices -> [Names -> File \cup {NoFile}]]
  BY DEF Base, TypeOK
<1>2. versions = [m \in Names |-> versions[m]]
  BY DEF Base
<1>3. have' \in [Devices -> [Names -> File \cup {NoFile}]]
  BY <1>1
<1>4. versions' = [m \in Names |-> versions[m]']
  BY <1>2
<1>5. versions[n]' = new /\ \A m \in Names \ {n} : versions[m]' = versions[m]
  BY <1>2
<1>6. ASSUME NEW m \in Names PROVE files(m)' = IF m = n THEN [files(m) EXCEPT ![d] = f] ELSE files(m)
  <2>1. \A e \in Devices : have'[e][m] = IF e = d /\ m = n THEN f ELSE have[e][m]
    BY <1>1
  <2>2. files(m)' = [e \in Devices |-> have'[e][m]] /\ files(m) = [e \in Devices |-> have[e][m]]
    BY DEF files
  <2> QED
    BY <2>1, <2>2
<1> QED
  BY <1>3, <1>4, <1>5, <1>6

\* Counts stay counts.
LEMMA CountsStay ==
    ASSUME Typed, NEW c \in Counts, NEW f, NEW b, NEW a, NEW g, NEW e \in Devices
    PROVE  /\ AddGlobal(c, f) \in Counts /\ RemoveGlobal(c, f) \in Counts /\ allNeededCounts \in Counts
           /\ NeedSize(e) \in Counts /\ Adjusted(e, b, f, a, g) \in Counts
<1>1. allNeededCounts \in Counts
  BY DEF allNeededCounts, Typed, Counts
<1>2. NeedSize(e) \in Counts
  BY <1>1 DEF NeedSize, Typed
<1>3. \A x : RemoveFile(NeedSize(e), x) \in Counts
  BY <1>2, AddFileIs
<1>4. Adjusted(e, b, f, a, g) \in Counts
  <2> DEFINE x == IF b THEN RemoveFile(NeedSize(e), f) ELSE NeedSize(e)
  <2>1. x \in Counts
    BY <1>2, <1>3
  <2> HIDE DEF x
  <2>2. AddFile(x, g) \in Counts
    BY <2>1, AddFileIs
  <2> QED
    BY <2>1, <2>2 DEF Adjusted, x
<1>5. AddGlobal(c, f) \in Counts /\ RemoveGlobal(c, f) \in Counts
  BY AddFileIs DEF AddGlobal, RemoveGlobal
<1> QED
  BY <1>1, <1>2, <1>4, <1>5

\* Init's lists are empty, and so are the records.
LEMMA BaseInit == Configured /\ Init => Base
<1> SUFFICES ASSUME Configured, Init PROVE Base
  OBVIOUS
<1>1. Zero \in Counts
  BY DEF Zero, Counts
<1>2. Typed
  BY <1>1 DEF Init, Typed
<1>3. ASSUME NEW n \in Names PROVE ListOf(versions[n], files(n))
  <2>1. versions[n] = <<>> /\ \A d \in Devices : files(n)[d] = NoFile
    BY DEF Init, files
  <2>2. DOMAIN versions[n] = {} /\ versions[n] \in Seq(Entry)
    BY <2>1
  <2> QED
    BY <2>1, <2>2 DEF ListOf, DevicesOnce, AllListed
<1>4. versions = [n \in Names |-> versions[n]]
  BY DEF Init
<1> QED
  BY <1>2, <1>3, <1>4, BaseIs DEF ListsRight

\* The list of item n is new, and the others are as they were.
Becomes(n, new) == versions'[n] = new /\ \A m \in Names \ {n} : versions'[m] = versions[m]

\* Update puts the file on the list.
LEMMA UpdateLists ==
    ASSUME Configured, Base, NEW d \in Devices, NEW n \in Names, NEW f \in File, Update(d, n, f)
    PROVE  /\ Becomes(n, update(versions[n], d, f, files(n)))
           /\ files(n)' = [files(n) EXCEPT ![d] = f] /\ \A m \in Names \ {n} : files(m)' = files(m)
           /\ [files(n) EXCEPT ![d] = f] \in Record /\ update(versions[n], d, f, files(n)) # <<>>
           /\ ListOf(update(versions[n], d, f, files(n)), [files(n) EXCEPT ![d] = f])
           /\ ListsRight' /\ have' \in [Devices -> [Names -> File \cup {NoFile}]]
<1> DEFINE new == update(versions[n], d, f, files(n))
           us == [files(n) EXCEPT ![d] = f]
<1>1. have' = [have EXCEPT ![d][n] = f] /\ versions' = [versions EXCEPT ![n] = new]
  BY Zenon DEF Update
<1>2. /\ have' \in [Devices -> [Names -> File \cup {NoFile}]] /\ versions' = [m \in Names |-> versions[m]']
      /\ files(n)' = us /\ versions[n]' = new
      /\ \A m \in Names \ {n} : files(m)' = files(m) /\ versions[m]' = versions[m]
  BY <1>1, OneItem
<1>3. files(n) \in Record /\ \A m \in Names : ListOf(versions[m], files(m))
  BY ItemIs
<1>4. ListOf(new, us) /\ new # <<>> /\ us \in Record
  BY <1>3, UpdateIs, Elsewhere
<1> HIDE DEF new, us
<1>5. ASSUME NEW m \in Names PROVE ListOf(versions[m], files(m))'
  BY <1>2, <1>3, <1>4
<1>6. ListsRight'
  BY <1>2, <1>5 DEF ListsRight
<1> QED
  BY <1>2, <1>4, <1>6 DEF new, us, Becomes

\* Forget takes the device off the list.
LEMMA ForgetLists ==
    ASSUME Base, NEW d \in Devices, NEW n \in Names, Forget(d, n)
    PROVE  /\ Becomes(n, pop(versions[n], d))
           /\ files(n)' = [files(n) EXCEPT ![d] = NoFile] /\ \A m \in Names \ {n} : files(m)' = files(m)
           /\ [files(n) EXCEPT ![d] = NoFile] \in Record
           /\ ListOf(pop(versions[n], d), [files(n) EXCEPT ![d] = NoFile])
           /\ ListsRight' /\ have' \in [Devices -> [Names -> File \cup {NoFile}]]
<1> DEFINE new == pop(versions[n], d)
           us == [files(n) EXCEPT ![d] = NoFile]
<1>1. have' = [have EXCEPT ![d][n] = NoFile] /\ versions' = [versions EXCEPT ![n] = new]
  BY Zenon DEF Forget
<1>2. /\ have' \in [Devices -> [Names -> File \cup {NoFile}]] /\ versions' = [m \in Names |-> versions[m]']
      /\ files(n)' = us /\ versions[n]' = new
      /\ \A m \in Names \ {n} : files(m)' = files(m) /\ versions[m]' = versions[m]
  BY <1>1, OneItem
<1>3. files(n) \in Record /\ \A m \in Names : ListOf(versions[m], files(m))
  BY ItemIs
<1>4. ListOf(new, us) /\ us \in Record
  BY <1>3, PopIs, Elsewhere
<1> HIDE DEF new, us
<1>5. ASSUME NEW m \in Names PROVE ListOf(versions[m], files(m))'
  BY <1>2, <1>3, <1>4
<1>6. ListsRight'
  BY <1>2, <1>5 DEF ListsRight
<1> QED
  BY <1>2, <1>4, <1>6 DEF new, us, Becomes

\* Other actions leave the records and the lists alone.
LEMMA OthersKeepLists ==
    ASSUME Base, UNCHANGED <<have, versions>>
    PROVE  ListsRight' /\ have' \in [Devices -> [Names -> File \cup {NoFile}]] /\ \A n \in Names : files(n)' = files(n)
<1>1. \A n \in Names : files(n)' = files(n)
  BY DEF files
<1> QED
  BY <1>1, BaseIs DEF ListsRight, Typed

\* Which items need a count, and how many of each kind.
LEMMA CountTyped == ASSUME Configured, NEW N, N \subseteq Names PROVE CountOf(N) \in Counts
<1>1. /\ IsFiniteSet({n \in N : ~GlobalFile(n).ver.deleted})
      /\ IsFiniteSet({n \in N : GlobalFile(n).ver.deleted})
  BY FS_Subset DEF Configured
<1>2. /\ Cardinality({n \in N : ~GlobalFile(n).ver.deleted}) \in Nat
      /\ Cardinality({n \in N : GlobalFile(n).ver.deleted}) \in Nat
  BY <1>1, FS_CardinalityType
<1> QED
  BY <1>2 DEF CountOf, Counts

\* The new list of Update, the old and the new global file, and the devices whose need can change.
NewList(d, n, f) == update(versions[n], d, f, files(n))
Was(n) == IF versions[n] = <<>> THEN NoFile ELSE files(n)[FirstDevice(GetGlobal(versions[n]))]
IsNow(d, n, f) == GlobalAfter(NewList(d, n, f), f, files(n))
Changed(d, n, f) == UpdateChangesGlobal(versions[n], NewList(d, n, f))
Affected(d, n, f) == (IF Changed(d, n, f) THEN {Local} \cup tracked ELSE {}) \cup {d}

\* What Update does to the counts.
LEMMA UpdateCounts ==
    ASSUME NEW d, NEW n, NEW f, Update(d, n, f)
    PROVE  /\ globalCount' =
                IF ~Changed(d, n, f) THEN globalCount
                ELSE AddGlobal(IF versions[n] = <<>> THEN globalCount ELSE RemoveGlobal(globalCount, Was(n)), IsNow(d, n, f))
           /\ needCount' =
                [e \in Devices |->
                    IF e \in Affected(d, n, f)
                    THEN Adjusted(e, Need(versions[n], e), Was(n), Need(NewList(d, n, f), e), IsNow(d, n, f))
                    ELSE needCount[e]]
           /\ localNeed' = IF Local \notin Affected(d, n, f) THEN localNeed
                           ELSE IF Need(NewList(d, n, f), Local) THEN localNeed \cup {n}
                           ELSE IF Need(versions[n], Local) THEN localNeed \ {n}
                           ELSE localNeed
           /\ tracked' = tracked \cup ({d} \ {Local})
           /\ dropping' = dropping /\ removing' = removing /\ dropping = NoDevice
           /\ ~(d = Local /\ n \in removing) /\ (f.inv => d \in Ignoring)
  BY Zenon DEF Update, NewList, Was, IsNow, Changed, Affected

\* The global file once d is off the list, and the devices that need the item then, or do not.
NowIs(d, n) == files(n)[FirstDevice(GetGlobal(pop(versions[n], d)))]
WasIs(n) == files(n)[FirstDevice(GetGlobal(versions[n]))]
Gained(d, n) == Need(pop(versions[n], d), d) /\ ~Need(versions[n], d)
Lost(d, n) == {e \in {Local} \cup tracked :
                  /\ PopChangesGlobal(versions[n], d) /\ (e # d \/ e = Local)
                  /\ Needs(GetGlobal(versions[n]), pop(versions[n], d), e) /\ ~Need(pop(versions[n], d), e)}

\* What Forget does to the counts.
LEMMA ForgetCounts ==
    ASSUME NEW d, NEW n, Forget(d, n)
    PROVE  /\ globalCount' =
                IF ~PopChangesGlobal(versions[n], d) THEN globalCount
                ELSE IF pop(versions[n], d) = <<>> THEN RemoveGlobal(globalCount, WasIs(n))
                ELSE AddGlobal(RemoveGlobal(globalCount, WasIs(n)), NowIs(d, n))
           /\ needCount' =
                [e \in Devices |->
                    IF e = d /\ Gained(d, n) THEN AddFile(NeedSize(e), NowIs(d, n))
                    ELSE IF e \in Lost(d, n) THEN RemoveFile(NeedSize(e), WasIs(n))
                    ELSE needCount[e]]
           /\ localNeed' = IF d = Local /\ Gained(d, n) THEN localNeed \cup {n}
                           ELSE IF Local \in Lost(d, n) THEN localNeed \ {n}
                           ELSE localNeed
  BY Zenon DEF Forget, NowIs, WasIs, Gained, Lost

\* Update keeps the lists.
LEMMA UpdateBase ==
    ASSUME Configured, Base, NEW d \in Devices, NEW n \in Names, NEW f \in File, Update(d, n, f)
    PROVE  Base'
<1> DEFINE W == Was(n)
           I == IsNow(d, n, f)
<1>1. Typed
  BY BaseIs
<1>2. ListsRight' /\ have' \in [Devices -> [Names -> File \cup {NoFile}]]
  BY UpdateLists
<1>3. tracked' \subseteq Remotes /\ dropping' \in Remotes \cup {NoDevice} /\ removing' \subseteq Names
  BY <1>1, UpdateCounts DEF Typed, Devices
<1>4. localNeed' \subseteq Names
  BY <1>1, UpdateCounts DEF Typed
<1> HIDE DEF W, I
<1>5. globalCount' \in Counts
  <2> DEFINE c == IF versions[n] = <<>> THEN globalCount ELSE RemoveGlobal(globalCount, W)
  <2>1. globalCount' = IF ~Changed(d, n, f) THEN globalCount ELSE AddGlobal(c, I)
    BY UpdateCounts DEF W, I
  <2>2. c \in Counts
    BY <1>1, CountsStay DEF Typed
  <2> HIDE DEF c
  <2>3. AddGlobal(c, I) \in Counts
    BY <1>1, <2>2, CountsStay
  <2> QED
    BY <1>1, <2>1, <2>3 DEF Typed
<1>6. needCount' \in [Devices -> Counts \cup {NoCounts}]
  <2> DEFINE a(e) == Adjusted(e, Need(versions[n], e), W, Need(NewList(d, n, f), e), I)
  <2>1. needCount' = [e \in Devices |-> IF e \in Affected(d, n, f) THEN a(e) ELSE needCount[e]]
    BY UpdateCounts DEF W, I
  <2>2. \A e \in Devices : a(e) \in Counts
    BY <1>1, CountsStay DEF Typed
  <2> HIDE DEF a
  <2> QED
    BY <1>1, <2>1, <2>2 DEF Typed
<1> QED
  BY <1>2, <1>3, <1>4, <1>5, <1>6, BaseNext DEF Typed

\* Forget keeps them.
LEMMA ForgetBase ==
    ASSUME Configured, Base, NEW d \in Devices, NEW n \in Names, Forget(d, n), tracked' = tracked,
           dropping' = dropping, removing' \subseteq Names
    PROVE  Base'
<1> DEFINE W == WasIs(n)
           I == NowIs(d, n)
<1>1. Typed
  BY BaseIs
<1>2. ListsRight' /\ have' \in [Devices -> [Names -> File \cup {NoFile}]]
  BY ForgetLists
<1>3. localNeed' \subseteq Names
  BY <1>1, ForgetCounts DEF Typed
<1> HIDE DEF W, I
<1>4. globalCount' \in Counts
  <2> DEFINE c == RemoveGlobal(globalCount, W)
  <2>1. globalCount' \in {globalCount, c, AddGlobal(c, I)}
    BY ForgetCounts DEF W, I
  <2>2. c \in Counts
    BY <1>1, CountsStay DEF Typed
  <2> HIDE DEF c
  <2>3. AddGlobal(c, I) \in Counts
    BY <1>1, <2>2, CountsStay
  <2> QED
    BY <1>1, <2>1, <2>2, <2>3 DEF Typed
<1>5. needCount' \in [Devices -> Counts \cup {NoCounts}]
  <2>1. needCount' = [e \in Devices |-> IF e = d /\ Gained(d, n) THEN AddFile(NeedSize(e), I)
                                        ELSE IF e \in Lost(d, n) THEN RemoveFile(NeedSize(e), W) ELSE needCount[e]]
    BY ForgetCounts, Zenon DEF W, I
  <2>2. \A e \in Devices : NeedSize(e) \in Counts
    BY <1>1, CountsStay DEF Typed
  <2>3. \A e \in Devices : AddFile(NeedSize(e), I) \in Counts /\ RemoveFile(NeedSize(e), W) \in Counts
    BY <2>2, AddFileIs
  <2> QED
    BY <1>1, <2>1, <2>3 DEF Typed
<1> QED
  BY <1>1, <1>2, <1>3, <1>4, <1>5, BaseNext DEF Typed

\* Every step keeps the lists.
LEMMA BaseStep == ASSUME Configured, Base, [Next]_vars PROVE Base'
<1>1. Typed
  BY BaseIs
<1>2. ASSUME UNCHANGED <<have, versions>>
      PROVE  ListsRight' /\ have' \in [Devices -> [Names -> File \cup {NoFile}]]
  BY <1>2, OthersKeepLists
<1>3. ASSUME NEW d \in Devices, NEW n \in Names, NEW f \in File, Update(d, n, f) PROVE Base'
  BY <1>3, UpdateBase
<1>4. ASSUME NEW n \in Names, DecideRemoval(n) PROVE Base'
  BY <1>1, <1>2, <1>4, BaseNext DEF DecideRemoval, Typed
<1>5. ASSUME NEW n \in Names, RemoveLocal(n) PROVE Base'
  <2>1. Forget(Local, n) /\ tracked' = tracked /\ dropping' = dropping /\ removing' \subseteq Names /\ Local \in Devices
    BY <1>1, <1>5 DEF RemoveLocal, Typed, Devices
  <2> QED
    BY <2>1, ForgetBase
<1>6. ASSUME NEW n \in Names, DropFile(n) PROVE Base'
  <2>1. Forget(dropping, n) /\ tracked' = tracked /\ dropping' = dropping /\ removing' \subseteq Names /\ dropping \in Devices
    BY <1>1, <1>6 DEF DropFile, Typed, Devices
  <2> QED
    BY <2>1, ForgetBase
<1>7. ASSUME NEW d \in Dropped, BeginDrop(d) PROVE Base'
  BY <1>1, <1>2, <1>7, BaseNext DEF BeginDrop, Typed, Configured
<1>8. ASSUME NEW d \in Asked, Sequence(d) PROVE Base'
  <2>1. allNeededCounts \in Counts
    BY <1>1 DEF allNeededCounts, Typed, Counts
  <2> QED
    BY <1>1, <1>2, <1>8, <2>1, BaseNext DEF Sequence, Typed
<1>9. CASE ResetAll
  <2>1. allNeededCounts \in Counts
    BY <1>1 DEF allNeededCounts, Typed, Counts
  <2> QED
    BY <1>1, <1>2, <1>9, <2>1, BaseNext DEF ResetAll, Typed
<1>10. CASE Recalculate
  <2>1. \A d \in Devices : CountOf(Needed(d)) \in Counts
    BY CountTyped DEF Needed
  <2>2. CountOf(ValidGlobals) \in Counts
    BY CountTyped DEF ValidGlobals
  <2>3. Needed(Local) \subseteq Names
    BY DEF Needed
  <2>4. needCount' \in [Devices -> Counts \cup {NoCounts}]
    BY <1>10, <2>1 DEF Recalculate
  <2> QED
    BY <1>1, <1>2, <1>10, <2>2, <2>3, <2>4, BaseNext DEF Recalculate, Typed
<1>11. CASE UNCHANGED vars
  BY <1>1, <1>2, <1>11, BaseNext DEF vars, Typed
<1> QED
  BY <1>3, <1>4, <1>5, <1>6, <1>7, <1>8, <1>9, <1>10, <1>11 DEF Next

\* The lists say of every device what is on record for it, once.
LEMMA ListsMatch == Base => ListsMatchFiles
<1> SUFFICES ASSUME Base, NEW n \in Names, NEW d \in Devices
             PROVE  LET at == {i \in DOMAIN versions[n] : HasDevice(versions[n][i], d)}
                    IN  IF have[d][n] = NoFile THEN at = {}
                        ELSE \E i \in DOMAIN versions[n] :
                                /\ at = {i}
                                /\ versions[n][i].ver = have[d][n].ver
                                /\ (d \in ToSet(versions[n][i].invs)) = have[d][n].inv
                                /\ (d \in ToSet(versions[n][i].devs)) = ~have[d][n].inv
  BY DEF ListsMatchFiles
<1> DEFINE vl == versions[n]
           fs == files(n)
           at == {i \in DOMAIN vl : HasDevice(vl[i], d)}
           k == findDevice(vl, d)
<1>1. fs \in Record /\ ListOf(vl, fs) /\ fs[d] = have[d][n]
  BY ItemIs
<1> HIDE DEF vl, fs
<1>2. /\ fs[d] = NoFile => k = 0
      /\ fs[d] # NoFile => k \in DOMAIN vl /\ vl[k].ver = fs[d].ver
      /\ \A i \in DOMAIN vl : HasDevice(vl[i], d) <=> i = k
  BY <1>1, FindDeviceIs DEF Get
<1>3. CASE fs[d] = NoFile
  <2>1. at = {}
    BY <1>1, <1>3, InEntry DEF ListOf
  <2> QED
    BY <1>1, <1>3, <2>1 DEF vl
<1>4. CASE fs[d] # NoFile
  <2>1. k \in DOMAIN vl /\ at = {k} /\ vl[k].ver = fs[d].ver /\ HasDevice(vl[k], d) /\ EntryOf(vl[k], fs)
    BY <1>1, <1>2, <1>4 DEF ListOf
  <2>2. fs[d].inv \in BOOLEAN
    BY <1>1, <1>4 DEF Record, File
  <2>3. (d \in ToSet(vl[k].invs) => fs[d].inv) /\ (d \in ToSet(vl[k].devs) => ~fs[d].inv)
    BY <2>1 DEF EntryOf, HasValid, HasInvalid
  <2>4. d \in ToSet(vl[k].invs) \/ d \in ToSet(vl[k].devs)
    BY <2>1 DEF HasDevice
  <2>5. (d \in ToSet(vl[k].invs)) = fs[d].inv /\ (d \in ToSet(vl[k].devs)) = ~fs[d].inv
    BY <2>2, <2>3, <2>4
  <2> HIDE DEF k, at
  <2>6. \E i \in DOMAIN vl : at = {i} /\ vl[i].ver = fs[d].ver /\ (d \in ToSet(vl[i].invs)) = fs[d].inv
                             /\ (d \in ToSet(vl[i].devs)) = ~fs[d].inv
    BY <2>1, <2>5
  <2> QED
    BY <1>1, <1>4, <2>6 DEF vl, at
<1> QED
  BY <1>3, <1>4

-----------------------------------------------------------------------------
(* The newest version is in front *)

\* Where versions are not in conflict, each list is in their order.
AllSorted == InSuccession => \A n \in Names : Sorted(versions[n])

\* Init's lists are empty, and so in order.
LEMMA SortedInit == Init => AllSorted
  BY DEF Init, AllSorted, Sorted

\* Every step keeps the lists in order.
LEMMA SortedStep == ASSUME Configured, Base, AllSorted, [Next]_vars PROVE AllSorted'
<1> SUFFICES ASSUME InSuccession, NEW m \in Names PROVE Sorted(versions[m]')
  BY DEF AllSorted, InSuccession
<1>1. Sorted(versions[m]) /\ Typed
  BY BaseIs DEF AllSorted
<1>2. \A n \in Names : files(n) \in Record /\ ListOf(versions[n], files(n))
  BY ItemIs
<1>3. ASSUME NEW d \in Devices, NEW n \in Names, NEW f \in File, Update(d, n, f) PROVE Sorted(versions[m]')
  <2>1. Becomes(n, update(versions[n], d, f, files(n)))
    BY <1>3, UpdateLists
  <2>2. CASE m = n
    <3>1. Sorted(update(versions[n], d, f, files(n)))
      BY <1>1, <1>2, <2>2, UpdateIs
    <3> QED
      BY <2>1, <2>2, <3>1 DEF Becomes
  <2>3. CASE m # n
    BY <1>1, <2>1, <2>3 DEF Becomes
  <2> QED
    BY <2>2, <2>3
<1>4. ASSUME NEW d \in Devices, NEW n \in Names, Forget(d, n) PROVE Sorted(versions[m]')
  <2>1. Becomes(n, pop(versions[n], d))
    BY <1>4, ForgetLists
  <2>2. CASE m = n
    <3>1. Sorted(pop(versions[n], d))
      BY <1>1, <1>2, <2>2, PopIs
    <3> QED
      BY <2>1, <2>2, <3>1 DEF Becomes
  <2>3. CASE m # n
    BY <1>1, <2>1, <2>3 DEF Becomes
  <2> QED
    BY <2>2, <2>3
<1>5. CASE UNCHANGED versions
  BY <1>1, <1>5
<1>6. ASSUME NEW n \in Names, RemoveLocal(n) PROVE Sorted(versions[m]')
  BY <1>4, <1>6 DEF RemoveLocal, Devices
<1>7. ASSUME NEW n \in Names, DropFile(n) PROVE Sorted(versions[m]')
  BY <1>1, <1>4, <1>7 DEF DropFile, Devices, Typed
<1> QED
  BY <1>3, <1>5, <1>6, <1>7 DEF Next, DecideRemoval, BeginDrop, Sequence, ResetAll, Recalculate, vars

\* In a list in order, nothing valid is newer than the global version.
LEMMA NewestGlobal == ASSUME Configured, Base, AllSorted, InSuccession PROVE GlobalIsNewest
<1> SUFFICES ASSUME NEW n \in Names, NEW d \in Devices, have[d][n] # NoFile, ~have[d][n].inv
             PROVE  Compare(GetGlobal(versions[n]).ver.vec, have[d][n].ver.vec) # "Lesser"
  BY DEF GlobalIsNewest
<1> DEFINE vl == versions[n]
           fs == files(n)
           g == GetGlobal(vl)
           G == findGlobal(vl)
<1>1. fs \in Record /\ ListOf(vl, fs) /\ fs[d] = have[d][n] /\ Sorted(vl)
  BY ItemIs DEF AllSorted
<1> HIDE DEF vl, fs
<1>2. PICK i \in DOMAIN vl : HasDevice(vl[i], d)
  BY <1>1 DEF ListOf, AllListed
<1>3. EntryOf(vl[i], fs) /\ vl[i].ver = fs[d].ver /\ vl[i] \in Entry /\ vl # <<>>
  BY <1>1, <1>2, InEntry DEF ListOf
<1>4. ~IsInvalid(vl[i])
  <2>1. d \notin ToSet(vl[i].invs)
    BY <1>1, <1>3 DEF EntryOf, HasInvalid
  <2>2. d \in ToSet(vl[i].devs)
    BY <1>2, <2>1 DEF HasDevice
  <2> QED
    BY <2>2 DEF IsInvalid, ToSet
<1>5. G \in DOMAIN vl /\ G <= i /\ g \in Entry /\ g = vl[G]
  BY <1>1, <1>3, <1>4, GlobalIs DEF GetGlobal
<1> HIDE DEF g, G
<1>6. g.ver = vl[i].ver \/ Newer(g.ver, vl[i].ver)
  <2>1. G \in Nat /\ i \in Nat
    BY <1>1, <1>5 DEF ListOf
  <2>2. G = i \/ G < i
    BY <1>5, <2>1
  <2> QED
    BY <1>1, <1>5, <2>2 DEF Sorted
<1>7. g.ver \in Versions /\ vl[i].ver \in Versions
  BY <1>3, <1>5 DEF Entry
<1>8. ~Newer(vl[i].ver, g.ver)
  <2>1. g.ver = vl[i].ver => ~Newer(vl[i].ver, g.ver)
    BY DEF Newer
  <2> QED
    BY <1>6, <1>7, <2>1, NewerOrders
<1>9. Compare(g.ver.vec, vl[i].ver.vec) # "Lesser"
  BY <1>7, <1>8, CompareIs
<1> QED
  BY <1>1, <1>3, <1>9 DEF g, vl

-----------------------------------------------------------------------------
(* The counts are those of the items *)

\* The items with a version list, and those deleted globally.
Listed == {n \in Names : versions[n] # <<>>}
Gone == {n \in Names : versions[n] # <<>> /\ GetGlobal(versions[n]).ver.deleted}

\* What is counted are items with a list, by their global version.
Tallied ==
  /\ \A e \in Devices : Needed(e) \subseteq Listed /\ CountOf(Needed(e)) = Tally(Needed(e), Gone)
  /\ ValidGlobals \subseteq Listed /\ CountOf(ValidGlobals) = Tally(ValidGlobals, Gone)

\* The lists say which items are counted, and as what.
LEMMA TalliesAre == Base => Tallied
<1> SUFFICES ASSUME Base PROVE Tallied
  OBVIOUS
<1>1. ASSUME NEW n \in Listed
      PROVE  GlobalFile(n) \in File /\ GlobalFile(n).ver = GetGlobal(versions[n]).ver
  <2>1. n \in Names /\ versions[n] # <<>> /\ files(n) \in Record /\ ListOf(versions[n], files(n))
    BY ItemIs DEF Listed
  <2> QED
    BY <2>1, GlobalIs DEF GlobalFile
<1>2. ASSUME NEW N, N \subseteq Listed PROVE CountOf(N) = Tally(N, Gone)
  <2>1. \A n \in N : n \in Gone <=> GlobalFile(n).ver.deleted
    BY <1>1, <1>2 DEF Gone, Listed
  <2>2. {n \in N : ~GlobalFile(n).ver.deleted} = N \ Gone /\ {n \in N : GlobalFile(n).ver.deleted} = N \cap Gone
    BY <2>1
  <2> QED
    BY <2>2 DEF CountOf, Tally
<1>3. \A e \in Devices : Needed(e) \subseteq Listed
  BY DEF Needed, Need, Listed
<1>4. ValidGlobals \subseteq Listed
  BY DEF ValidGlobals, Listed
<1> QED
  BY <1>2, <1>3, <1>4 DEF Tallied

\* So it is in the next state.
LEMMA TalliesNext == Base' => Tallied'
  BY TalliesAre, PTL

\* The count of what e needs, after one item has changed.
LEMMA NeedRecounted ==
    ASSUME Configured, Base, Base', NEW n \in Names, NEW new, Becomes(n, new), NEW e \in Devices,
           NEW old, NEW now, Need(versions[n], e) => old.ver = GetGlobal(versions[n]).ver,
           Need(new, e) => now.ver = GetGlobal(new).ver
    PROVE  CountOf(Needed(e))' = Recount(CountOf(Needed(e)), Need(versions[n], e), old, Need(new, e), now)
<1> DEFINE N == Needed(e)
           M == Needed(e)'
           D == Gone
           E == Gone'
<1>1. CountOf(Needed(e)) = Tally(N, D)
  BY TalliesAre DEF Tallied
<1>2. CountOf(Needed(e))' = Tally(M, E)
  BY TalliesNext DEF Tallied
<1>3. versions[n]' = new /\ \A m \in Names \ {n} : versions[m]' = versions[m]
  BY DEF Becomes
<1>4. \A m \in Names : (m \in N <=> Need(versions[m], e)) /\ (m \in M <=> Need(versions[m]', e))
  BY DEF Needed
<1>5. \A m \in Names : /\ m \in D <=> versions[m] # <<>> /\ GetGlobal(versions[m]).ver.deleted
                       /\ m \in E <=> versions[m]' # <<>> /\ GetGlobal(versions[m]').ver.deleted
  BY DEF Gone
<1>6. N \subseteq Names /\ M \subseteq Names /\ D \subseteq Names /\ E \subseteq Names
  BY DEF Needed, Gone
<1>7. IsFiniteSet(N) /\ IsFiniteSet(M)
  BY <1>6, FS_Subset DEF Configured
<1> HIDE DEF N, M, D, E
<1>8. SameItems(N, M, n) /\ SameItems(D, E, n)
  BY <1>3, <1>4, <1>5, <1>6 DEF SameItems
<1>9. (n \in N <=> Need(versions[n], e)) /\ (n \in M <=> Need(new, e))
  BY <1>3, <1>4
<1>10. (n \in N => versions[n] # <<>>) /\ (n \in M => new # <<>>)
  BY <1>9 DEF Need
<1>11. CountsAs(N, D, n, old) /\ CountsAs(M, E, n, now)
  BY <1>3, <1>5, <1>9, <1>10 DEF CountsAs
<1>12. Tally(M, E) = Recount(Tally(N, D), n \in N, old, n \in M, now)
  BY <1>7, <1>8, <1>11, Retallied
<1> QED
  BY <1>1, <1>2, <1>9, <1>12 DEF Recount

\* It stays where neither the global version nor the need changes.
LEMMA NeedStays ==
    ASSUME Configured, Base, Base', NEW n \in Names, NEW new, Becomes(n, new), NEW e \in Devices,
           Need(versions[n], e) <=> Need(new, e), versions[n] = <<>> <=> new = <<>>,
           new # <<>> => GetGlobal(versions[n]).ver = GetGlobal(new).ver
    PROVE  Needed(e)' = Needed(e) /\ CountOf(Needed(e))' = CountOf(Needed(e))
<1>1. versions[n]' = new /\ \A m \in Names \ {n} : versions[m]' = versions[m]
  BY DEF Becomes
<1>2. \A m \in Names : Need(versions[m]', e) <=> Need(versions[m], e)
  BY <1>1
<1>3. Needed(e)' = Needed(e)
  BY <1>2 DEF Needed
<1>4. \A m \in Names : versions[m]' # <<>> /\ GetGlobal(versions[m]').ver.deleted <=>
                       versions[m] # <<>> /\ GetGlobal(versions[m]).ver.deleted
  BY <1>1
<1>5. Gone' = Gone
  BY <1>4 DEF Gone
<1>6. CountOf(Needed(e)) = Tally(Needed(e), Gone)
  BY TalliesAre DEF Tallied
<1>7. CountOf(Needed(e))' = Tally(Needed(e)', Gone')
  BY TalliesNext DEF Tallied
<1> QED
  BY <1>3, <1>5, <1>6, <1>7

\* Of an item that is needed or that has a version, the file that is counted is of the global version.
LEMMA WasGlobal ==
    ASSUME Base, NEW n \in Names, versions[n] # <<>>
    PROVE  /\ Was(n) = GlobalFile(n) /\ WasIs(n) = GlobalFile(n) /\ GlobalFile(n) \in File
           /\ GlobalFile(n).ver = GetGlobal(versions[n]).ver /\ (GlobalFile(n).inv <=> IsInvalid(GetGlobal(versions[n])))
<1>1. files(n) \in Record /\ ListOf(versions[n], files(n))
  BY ItemIs
<1> QED
  BY <1>1, GlobalIs DEF Was, WasIs, GlobalFile

\* Counts depend on the records and the lists alone.
LEMMA CountsFollow ==
    ASSUME Base, Base', UNCHANGED <<have, versions>>
    PROVE  /\ \A e \in Devices : Needed(e)' = Needed(e) /\ CountOf(Needed(e))' = CountOf(Needed(e))
           /\ CountOf(ValidGlobals)' = CountOf(ValidGlobals)
<1>1. \A n \in Names : files(n)' = files(n)
  BY OthersKeepLists
<1>2. Gone' = Gone /\ \A e \in Devices : Needed(e)' = Needed(e)
  BY DEF Gone, Needed
<1>3. ValidGlobals' = ValidGlobals
  BY <1>1 DEF ValidGlobals, GlobalFile
<1>4. Tallied /\ Tallied'
  BY TalliesAre, TalliesNext
<1> QED
  BY <1>2, <1>3, <1>4 DEF Tallied

\* Update counts right for whom the need can change ...
LEMMA AffectedCount ==
    ASSUME Configured, Base, NEW d \in Devices, NEW n \in Names, NEW f \in File, Update(d, n, f),
           NEW e \in Devices, e \in Affected(d, n, f), NeedSize(e) = CountOf(Needed(e))
    PROVE  needCount'[e] = CountOf(Needed(e))'
<1> DEFINE new == NewList(d, n, f)
           us == [files(n) EXCEPT ![d] = f]
<1>1. Base'
  BY UpdateBase
<1>2. Becomes(n, new) /\ us \in Record /\ new # <<>> /\ ListOf(new, us)
  BY UpdateLists DEF NewList
<1>3. us[d] = f /\ SameButFor(files(n), us, d)
  BY Elsewhere, ItemIs
<1> HIDE DEF us
<1>4. IsNow(d, n, f).ver = GetGlobal(new).ver
  BY <1>2, <1>3, GlobalAfterIs DEF IsNow
<1>5. Need(versions[n], e) => Was(n).ver = GetGlobal(versions[n]).ver
  BY WasGlobal DEF Need
<1>6. CountOf(Needed(e))' = Recount(CountOf(Needed(e)), Need(versions[n], e), Was(n), Need(new, e), IsNow(d, n, f))
  BY <1>1, <1>2, <1>4, <1>5, NeedRecounted
<1>7. needCount'[e] = Adjusted(e, Need(versions[n], e), Was(n), Need(new, e), IsNow(d, n, f))
  BY UpdateCounts
<1> QED
  BY <1>6, <1>7 DEF Adjusted, Recount

\* ... and the need of the others does not.
LEMMA UnaffectedCount ==
    ASSUME Configured, Base, NEW d \in Devices, NEW n \in Names, NEW f \in File, Update(d, n, f),
           NEW e \in Devices, e \in {Local} \cup tracked, e \notin Affected(d, n, f)
    PROVE  needCount'[e] = needCount[e] /\ Needed(e)' = Needed(e) /\ CountOf(Needed(e))' = CountOf(Needed(e))
<1> DEFINE new == NewList(d, n, f)
           us == [files(n) EXCEPT ![d] = f]
<1>1. Base'
  BY UpdateBase
<1>2. Becomes(n, new) /\ us \in Record /\ new # <<>> /\ ListOf(new, us)
  BY UpdateLists DEF NewList
<1>3. SameButFor(files(n), us, d)
  BY Elsewhere, ItemIs
<1>4. ~UpdateChangesGlobal(versions[n], new) /\ e # d
  BY DEF Affected, Changed
<1>5. files(n)[e] = us[e]
  BY <1>3, <1>4 DEF SameButFor
<1>6. files(n) \in Record /\ ListOf(versions[n], files(n))
  BY ItemIs
<1> HIDE DEF us, new
<1>7. versions[n] # <<>> /\ GetGlobal(versions[n]).ver = GetGlobal(new).ver /\ (Need(versions[n], e) <=> Need(new, e))
  BY <1>2, <1>4, <1>5, <1>6, SameGlobal
<1>8. Needed(e)' = Needed(e) /\ CountOf(Needed(e))' = CountOf(Needed(e))
  BY <1>1, <1>2, <1>7, NeedStays
<1>9. needCount'[e] = needCount[e]
  BY UpdateCounts
<1> QED
  BY <1>8, <1>9

-----------------------------------------------------------------------------
(* What the local device needs *)

\* Where nothing is taken away, the need bucket and the local count are those of a recount.
LocalPart ==
  Dropped = {} /\ LocalOnly = {} =>
      /\ dropping = NoDevice /\ removing = {}
      /\ localNeed = Needed(Local) /\ needCount[Local] = CountOf(Needed(Local))

\* Nothing is needed without a list.
LEMMA NothingListed == Init => Listed = {} /\ \A e \in Devices : Needed(e) = {}
  BY DEF Init, Listed, Needed, Need

\* Nothing counts as nothing.
LEMMA CountOfNone == CountOf({}) = Zero
<1>1. {n \in {} : ~GlobalFile(n).ver.deleted} = {} /\ {n \in {} : GlobalFile(n).ver.deleted} = {}
  OBVIOUS
<1>2. Cardinality({}) = 0
  BY FS_EmptySet
<1> QED
  BY <1>1, <1>2 DEF CountOf, Zero

\* At first the local device needs nothing.
LEMMA LocalInit == Init => LocalPart
<1> SUFFICES ASSUME Init PROVE LocalPart
  OBVIOUS
<1>1. Needed(Local) = {}
  BY NothingListed DEF Devices
<1>2. CountOf(Needed(Local)) = Zero
  BY <1>1, CountOfNone
<1> QED
  BY <1>1, <1>2 DEF Init, LocalPart, Devices

\* Where nothing is taken away, every step keeps the local needs.
LEMMA LocalStep == ASSUME Configured, Base, Base', LocalPart, [Next]_vars PROVE LocalPart'
<1> SUFFICES ASSUME Dropped = {}, LocalOnly = {}
             PROVE  /\ dropping' = NoDevice /\ removing' = {}
                    /\ localNeed' = Needed(Local)' /\ needCount'[Local] = CountOf(Needed(Local))'
  BY DEF LocalPart
<1>1. /\ dropping = NoDevice /\ removing = {} /\ Local \in Devices
      /\ localNeed = Needed(Local) /\ needCount[Local] = CountOf(Needed(Local))
  BY DEF LocalPart, Devices
<1>2. needCount[Local] # NoCounts
  BY <1>1, CountTyped DEF Needed, Configured
<1>3. UNCHANGED <<have, versions>> => Needed(Local)' = Needed(Local) /\ CountOf(Needed(Local))' = CountOf(Needed(Local))
  BY <1>1, CountsFollow
<1>4. ASSUME NEW d \in Devices, NEW n \in Names, NEW f \in File, Update(d, n, f)
      PROVE  /\ dropping' = NoDevice /\ removing' = {}
             /\ localNeed' = Needed(Local)' /\ needCount'[Local] = CountOf(Needed(Local))'
  <2>1. dropping' = NoDevice /\ removing' = {}
    BY <1>1, <1>4, UpdateCounts
  <2>2. CASE Local \in Affected(d, n, f)
    <3>1. NeedSize(Local) = CountOf(Needed(Local))
      BY <1>1, <1>2 DEF NeedSize
    <3>2. needCount'[Local] = CountOf(Needed(Local))'
      BY <1>1, <1>4, <2>2, <3>1, AffectedCount
    <3>3. localNeed' = IF Need(NewList(d, n, f), Local) THEN localNeed \cup {n}
                       ELSE IF Need(versions[n], Local) THEN localNeed \ {n} ELSE localNeed
      BY <1>4, <2>2, UpdateCounts
    <3>4. versions[n]' = NewList(d, n, f) /\ \A m \in Names \ {n} : versions[m]' = versions[m]
      BY <1>4, UpdateLists DEF Becomes, NewList
    <3>5. Needed(Local)' = {m \in Names : Need(versions[m]', Local)} /\ Needed(Local) = {m \in Names : Need(versions[m], Local)}
      BY DEF Needed
    <3>6. localNeed' = Needed(Local)'
      BY <1>1, <3>3, <3>4, <3>5
    <3> QED
      BY <2>1, <3>2, <3>6
  <2>3. CASE Local \notin Affected(d, n, f)
    <3>1. needCount'[Local] = needCount[Local] /\ Needed(Local)' = Needed(Local)
          /\ CountOf(Needed(Local))' = CountOf(Needed(Local))
      BY <1>1, <1>4, <2>3, UnaffectedCount
    <3>2. localNeed' = localNeed
      BY <1>4, <2>3, UpdateCounts
    <3> QED
      BY <1>1, <2>1, <3>1, <3>2
  <2> QED
    BY <2>2, <2>3
<1>5. ASSUME NEW n \in Names, DecideRemoval(n) \/ RemoveLocal(n) \/ DropFile(n) PROVE FALSE
  BY <1>1, <1>5 DEF DecideRemoval, RemoveLocal, DropFile
<1>6. ASSUME NEW d \in Asked, Sequence(d)
      PROVE  /\ dropping' = NoDevice /\ removing' = {}
             /\ localNeed' = Needed(Local)' /\ needCount'[Local] = CountOf(Needed(Local))'
  <2>1. d # Local
    BY <1>2, <1>6 DEF Sequence
  <2>2. needCount'[Local] = needCount[Local]
    BY <1>1, <1>6, <2>1, BaseIs DEF Sequence, Typed
  <2> QED
    BY <1>1, <1>3, <1>6, <2>2 DEF Sequence
<1>7. CASE ResetAll
  BY <1>1, <1>7 DEF ResetAll
<1>8. CASE Recalculate
  BY <1>1, <1>3, <1>8 DEF Recalculate
<1>9. CASE UNCHANGED vars
  BY <1>1, <1>3, <1>9 DEF vars
<1> QED
  BY <1>4, <1>5, <1>6, <1>7, <1>8, <1>9 DEF Next

-----------------------------------------------------------------------------
(* The global counts *)

\* No device has anything invalid.
AllAreValid == \A n \in Names : AllValid(files(n))

\* Then every item that is listed has a valid global version.
ValidMeans == AllAreValid => ValidGlobals = Listed /\ \A n \in Listed : ~GlobalFile(n).inv

\* The first entry of a list has a valid file then.
LEMMA ValidAre == Base => ValidMeans
<1> SUFFICES ASSUME Base, AllAreValid PROVE ValidGlobals = Listed /\ \A n \in Listed : ~GlobalFile(n).inv
  BY DEF ValidMeans
<1>1. ASSUME NEW n \in Listed PROVE ~GlobalFile(n).inv
  <2>1. n \in Names /\ versions[n] # <<>>
    BY DEF Listed
  <2>2. files(n) \in Record /\ ListOf(versions[n], files(n)) /\ AllValid(files(n))
    BY <2>1, ItemIs DEF AllAreValid
  <2>3. ~IsInvalid(GetGlobal(versions[n]))
    BY <2>1, <2>2, FirstIsGlobal
  <2> QED
    BY <2>1, <2>3, WasGlobal
<1> QED
  BY <1>1 DEF ValidGlobals, Listed

\* So it is in the next state.
LEMMA ValidNext == Base' => ValidMeans'
  BY ValidAre, PTL

\* The global count, after one item has changed.
LEMMA GlobalRecounted ==
    ASSUME Configured, Base, Base', AllAreValid, AllAreValid', NEW n \in Names, NEW new, Becomes(n, new),
           NEW old, NEW now, versions[n] # <<>> => old.ver = GetGlobal(versions[n]).ver,
           new # <<>> => now.ver = GetGlobal(new).ver
    PROVE  CountOf(ValidGlobals)' = Recount(CountOf(ValidGlobals), versions[n] # <<>>, old, new # <<>>, now)
<1> DEFINE N == Listed
           M == Listed'
           D == Gone
           E == Gone'
<1>1. CountOf(ValidGlobals) = Tally(N, D)
  BY TalliesAre, ValidAre DEF Tallied, ValidMeans
<1>2. CountOf(ValidGlobals)' = Tally(M, E)
  BY TalliesNext, ValidNext DEF Tallied, ValidMeans
<1>3. versions[n]' = new /\ \A m \in Names \ {n} : versions[m]' = versions[m]
  BY DEF Becomes
<1>4. \A m \in Names : (m \in N <=> versions[m] # <<>>) /\ (m \in M <=> versions[m]' # <<>>)
  BY DEF Listed
<1>5. \A m \in Names : /\ m \in D <=> versions[m] # <<>> /\ GetGlobal(versions[m]).ver.deleted
                       /\ m \in E <=> versions[m]' # <<>> /\ GetGlobal(versions[m]').ver.deleted
  BY DEF Gone
<1>6. N \subseteq Names /\ M \subseteq Names /\ D \subseteq Names /\ E \subseteq Names
  BY DEF Listed, Gone
<1>7. IsFiniteSet(N) /\ IsFiniteSet(M)
  BY <1>6, FS_Subset DEF Configured
<1> HIDE DEF N, M, D, E
<1>8. SameItems(N, M, n) /\ SameItems(D, E, n)
  BY <1>3, <1>4, <1>5, <1>6 DEF SameItems
<1>9. (n \in N <=> versions[n] # <<>>) /\ (n \in M <=> new # <<>>)
  BY <1>3, <1>4
<1>10. CountsAs(N, D, n, old) /\ CountsAs(M, E, n, now)
  BY <1>3, <1>5, <1>9 DEF CountsAs
<1>11. Tally(M, E) = Recount(Tally(N, D), n \in N, old, n \in M, now)
  BY <1>7, <1>8, <1>10, Retallied
<1> QED
  BY <1>1, <1>2, <1>9, <1>11 DEF Recount

\* It stays where the global version does.
LEMMA GlobalStays ==
    ASSUME Base, Base', AllAreValid, AllAreValid', NEW n \in Names, NEW new, Becomes(n, new),
           versions[n] = <<>> <=> new = <<>>, new # <<>> => GetGlobal(versions[n]).ver = GetGlobal(new).ver
    PROVE  CountOf(ValidGlobals)' = CountOf(ValidGlobals)
<1>1. versions[n]' = new /\ \A m \in Names \ {n} : versions[m]' = versions[m]
  BY DEF Becomes
<1>2. Listed' = Listed
  BY <1>1 DEF Listed
<1>3. \A m \in Names : versions[m]' # <<>> /\ GetGlobal(versions[m]').ver.deleted <=>
                       versions[m] # <<>> /\ GetGlobal(versions[m]).ver.deleted
  BY <1>1
<1>4. Gone' = Gone
  BY <1>3 DEF Gone
<1>5. CountOf(ValidGlobals) = Tally(Listed, Gone)
  BY TalliesAre, ValidAre DEF Tallied, ValidMeans
<1>6. CountOf(ValidGlobals)' = Tally(Listed', Gone')
  BY TalliesNext, ValidNext DEF Tallied, ValidMeans
<1> QED
  BY <1>2, <1>4, <1>5, <1>6

\* Where nothing is invalid, the global counts are those of a recount.
GlobalPart ==
  Ignoring = {} => removing = {} /\ AllAreValid /\ globalCount = CountOf(ValidGlobals)

\* At first there is nothing to count.
LEMMA GlobalInit == Init => GlobalPart
<1> SUFFICES ASSUME Init PROVE GlobalPart
  OBVIOUS
<1>1. ValidGlobals = {}
  BY DEF Init, ValidGlobals
<1>2. CountOf(ValidGlobals) = Zero
  BY <1>1, CountOfNone
<1>3. AllAreValid
  BY DEF Init, AllAreValid, AllValid, files
<1> QED
  BY <1>2, <1>3 DEF Init, GlobalPart

\* Where no file is invalid, Update counts right globally ...
LEMMA UpdateGlobal ==
    ASSUME Configured, Base, AllAreValid, NEW d \in Devices, NEW n \in Names, NEW f \in File, Update(d, n, f), ~f.inv,
           globalCount = CountOf(ValidGlobals)
    PROVE  AllAreValid' /\ globalCount' = CountOf(ValidGlobals)'
<1> DEFINE new == NewList(d, n, f)
           us == [files(n) EXCEPT ![d] = f]
           W == Was(n)
           I == IsNow(d, n, f)
<1>1. Base'
  BY UpdateBase
<1>2. /\ Becomes(n, new) /\ us \in Record /\ new # <<>> /\ ListOf(new, us)
      /\ files(n)' = us /\ \A m \in Names \ {n} : files(m)' = files(m)
  BY UpdateLists DEF NewList
<1>3. us[d] = f /\ SameButFor(files(n), us, d)
  BY Elsewhere, ItemIs
<1>4. files(n) \in Record /\ ListOf(versions[n], files(n)) /\ AllValid(files(n))
  BY ItemIs DEF AllAreValid
<1>5. globalCount' = IF ~UpdateChangesGlobal(versions[n], new) THEN globalCount
                     ELSE AddGlobal(IF versions[n] = <<>> THEN globalCount ELSE RemoveGlobal(globalCount, W), I)
  BY UpdateCounts DEF Changed
<1>6. I = GlobalAfter(new, f, files(n))
  BY DEF IsNow
<1>7. versions[n] # <<>> => W \in File /\ W.ver = GetGlobal(versions[n]).ver /\ W = GlobalFile(n) /\ n \in Listed
  BY WasGlobal DEF Listed
<1> HIDE DEF us, new, W, I
<1>8. AllValid(us)
  BY <1>3, <1>4 DEF AllValid, SameButFor
<1>9. AllAreValid'
  <2>1. \A m \in Names : AllValid(files(m)')
    BY <1>2, <1>8 DEF AllAreValid
  <2> QED
    BY <2>1 DEF AllAreValid, AllValid
<1>10. I.ver = GetGlobal(new).ver /\ ~I.inv
  <2>1. ~IsInvalid(GetGlobal(new))
    BY <1>2, <1>8, FirstIsGlobal
  <2>2. I.ver = GetGlobal(new).ver /\ I = us[FirstDevice(GetGlobal(new))]
    BY <1>2, <1>3, <1>6, <1>8, <2>1, GlobalAfterIs
  <2> QED
    BY <1>2, <2>1, <2>2, GlobalIs
<1>11. versions[n] # <<>> => ~W.inv
  BY <1>7, ValidAre DEF ValidMeans
<1>12. CASE UpdateChangesGlobal(versions[n], new)
  <2>1. CountOf(ValidGlobals)' = Recount(CountOf(ValidGlobals), versions[n] # <<>>, W, new # <<>>, I)
    BY <1>1, <1>2, <1>7, <1>9, <1>10, GlobalRecounted
  <2> QED
    BY <1>2, <1>5, <1>9, <1>10, <1>11, <1>12, <2>1 DEF Recount, AddGlobal, RemoveGlobal
<1>13. CASE ~UpdateChangesGlobal(versions[n], new)
  <2>1. versions[n] # <<>> /\ GetGlobal(versions[n]).ver = GetGlobal(new).ver
    BY <1>2, <1>4, <1>13, SameGlobal
  <2>2. CountOf(ValidGlobals)' = CountOf(ValidGlobals)
    BY <1>1, <1>2, <1>9, <2>1, GlobalStays
  <2> QED
    BY <1>5, <1>9, <1>13, <2>2
<1> QED
  BY <1>12, <1>13

\* ... and so does Forget.
LEMMA ForgetGlobal ==
    ASSUME Configured, Base, Base', AllAreValid, NEW d \in Devices, NEW n \in Names, Forget(d, n),
           globalCount = CountOf(ValidGlobals)
    PROVE  AllAreValid' /\ globalCount' = CountOf(ValidGlobals)'
<1> DEFINE new == pop(versions[n], d)
           us == [files(n) EXCEPT ![d] = NoFile]
           W == WasIs(n)
           I == NowIs(d, n)
<1>1. /\ Becomes(n, new) /\ us \in Record /\ ListOf(new, us)
      /\ files(n)' = us /\ \A m \in Names \ {n} : files(m)' = files(m)
  BY ForgetLists
<1>2. us[d] = NoFile /\ SameButFor(files(n), us, d)
  BY Elsewhere, ItemIs
<1>3. files(n) \in Record /\ ListOf(versions[n], files(n)) /\ AllValid(files(n))
  BY ItemIs DEF AllAreValid
<1>4. globalCount' = IF ~PopChangesGlobal(versions[n], d) THEN globalCount
                     ELSE IF new = <<>> THEN RemoveGlobal(globalCount, W)
                     ELSE AddGlobal(RemoveGlobal(globalCount, W), I)
  BY ForgetCounts
<1>5. I = files(n)[FirstDevice(GetGlobal(new))]
  BY DEF NowIs
<1>6. versions[n] # <<>> => W \in File /\ W.ver = GetGlobal(versions[n]).ver /\ W = GlobalFile(n) /\ n \in Listed
  BY WasGlobal DEF Listed
<1>7. /\ PopChangesGlobal(versions[n], d) => versions[n] # <<>>
      /\ ~PopChangesGlobal(versions[n], d) =>
             /\ new = <<>> <=> versions[n] = <<>>
             /\ versions[n] # <<>> => GetGlobal(new).ver = GetGlobal(versions[n]).ver
  BY <1>3, PopKeepsGlobal
<1> HIDE DEF us, new, W, I
<1>8. AllValid(us)
  BY <1>2, <1>3 DEF AllValid, SameButFor
<1>9. AllAreValid'
  <2>1. \A m \in Names : AllValid(files(m)')
    BY <1>1, <1>8 DEF AllAreValid
  <2> QED
    BY <2>1 DEF AllAreValid, AllValid
<1>10. new # <<>> => I.ver = GetGlobal(new).ver /\ ~I.inv
  <2> SUFFICES ASSUME new # <<>> PROVE I.ver = GetGlobal(new).ver /\ ~I.inv
    OBVIOUS
  <2> DEFINE e == FirstDevice(GetGlobal(new))
  <2>1. ~IsInvalid(GetGlobal(new))
    BY <1>1, <1>8, FirstIsGlobal
  <2>2. e \in Devices /\ us[e] \in File /\ us[e].ver = GetGlobal(new).ver /\ (us[e].inv <=> IsInvalid(GetGlobal(new)))
    BY <1>1, GlobalIs
  <2> HIDE DEF e
  <2>3. e # d
    BY <1>2, <2>2 DEF Configured
  <2>4. I = us[e]
    BY <1>2, <1>5, <2>2, <2>3 DEF SameButFor, e
  <2> QED
    BY <2>1, <2>2, <2>4
<1>11. versions[n] # <<>> => ~W.inv
  BY <1>6, ValidAre DEF ValidMeans
<1>12. CASE PopChangesGlobal(versions[n], d)
  <2>1. CountOf(ValidGlobals)' = Recount(CountOf(ValidGlobals), versions[n] # <<>>, W, new # <<>>, I)
    BY <1>1, <1>6, <1>9, <1>10, GlobalRecounted
  <2> QED
    BY <1>4, <1>7, <1>9, <1>10, <1>11, <1>12, <2>1 DEF Recount, AddGlobal, RemoveGlobal
<1>13. CASE ~PopChangesGlobal(versions[n], d)
  <2>1. CountOf(ValidGlobals)' = CountOf(ValidGlobals)
    BY <1>1, <1>7, <1>9, <1>13, GlobalStays
  <2> QED
    BY <1>4, <1>9, <1>13, <2>1
<1> QED
  BY <1>12, <1>13

\* Where no file is invalid, every step keeps the global counts.
LEMMA GlobalStep == ASSUME Configured, Base, Base', GlobalPart, [Next]_vars PROVE GlobalPart'
<1> SUFFICES ASSUME Ignoring = {} PROVE removing' = {} /\ AllAreValid' /\ globalCount' = CountOf(ValidGlobals)'
  BY DEF GlobalPart
<1>1. removing = {} /\ AllAreValid /\ globalCount = CountOf(ValidGlobals) /\ Typed
  BY BaseIs DEF GlobalPart
<1>2. UNCHANGED <<have, versions>> => AllAreValid' /\ CountOf(ValidGlobals)' = CountOf(ValidGlobals)
  <2> SUFFICES ASSUME UNCHANGED <<have, versions>> PROVE AllAreValid' /\ CountOf(ValidGlobals)' = CountOf(ValidGlobals)
    OBVIOUS
  <2>1. AllAreValid'
    BY <1>1, OthersKeepLists DEF AllAreValid, AllValid
  <2> QED
    BY <2>1, CountsFollow
<1>3. ASSUME NEW d \in Devices, NEW n \in Names, NEW f \in File, Update(d, n, f)
      PROVE  removing' = {} /\ AllAreValid' /\ globalCount' = CountOf(ValidGlobals)'
  BY <1>1, <1>3, UpdateCounts, UpdateGlobal
<1>4. ASSUME NEW n \in Names, DecideRemoval(n) PROVE FALSE
  <2>1. Local \in Devices /\ files(n)[Local] = have[Local][n]
    BY ItemIs DEF Devices
  <2> QED
    BY <1>1, <1>4, <2>1 DEF DecideRemoval, AllAreValid, AllValid
<1>5. ASSUME NEW n \in Names, RemoveLocal(n) PROVE FALSE
  BY <1>1, <1>5 DEF RemoveLocal
<1>6. ASSUME NEW n \in Names, DropFile(n) PROVE removing' = {} /\ AllAreValid' /\ globalCount' = CountOf(ValidGlobals)'
  <2>1. dropping \in Devices /\ Forget(dropping, n) /\ removing' = {}
    BY <1>1, <1>6 DEF DropFile, Typed, Devices
  <2> QED
    BY <1>1, <2>1, ForgetGlobal
<1> QED
  BY <1>1, <1>2, <1>3, <1>4, <1>5, <1>6 DEF Next, BeginDrop, Sequence, ResetAll, Recalculate, vars

-----------------------------------------------------------------------------
(* What the remote devices need *)

\* Those that sent files have a right count, and the others none.
RemotesRight ==
  \A e \in Remotes : IF e \in tracked THEN needCount[e] = CountOf(Needed(e))
                     ELSE needCount[e] = NoCounts /\ \A n \in Names : have[e][n] = NoFile

\* Where nothing is invalid or dropped, and nobody known early, the needs of remotes are, too.
RemotePart ==
  Ignoring = {} /\ Dropped = {} /\ Asked = {} /\ OnlyDeletionsEmpty => dropping = NoDevice /\ RemotesRight

\* At first no remote has a count.
LEMMA RemoteInit == Configured /\ Init => RemotePart
  BY DEF Init, RemotePart, RemotesRight, Devices, Configured

\* What a device without files needs is all that is not deleted.
LEMMA NewcomerNeeds ==
    ASSUME Configured, Base, AllAreValid, OnlyDeletionsEmpty, globalCount = CountOf(ValidGlobals),
           NEW e \in Devices, \A n \in Names : have[e][n] = NoFile
    PROVE  allNeededCounts = CountOf(Needed(e))
<1> DEFINE N == Needed(e)
<1>1. \A n \in Names : n \in N <=> Need(versions[n], e)
  BY DEF Needed
<1>2. ASSUME NEW n \in Names PROVE n \in N <=> n \in Listed \ Gone
  <2> DEFINE g == GetGlobal(versions[n])
  <2>1. files(n) \in Record /\ ListOf(versions[n], files(n)) /\ files(n)[e] = NoFile /\ AllValid(files(n))
    BY ItemIs DEF AllAreValid
  <2>2. Need(versions[n], e) <=> versions[n] # <<>> /\ NeedOf(g, NoFile)
    BY <2>1, NeedIs
  <2>3. versions[n] # <<>> => ~IsInvalid(g) /\ g \in Entry
    BY <2>1, FirstIsGlobal, GlobalIs
  <2> HIDE DEF g
  <2>4. versions[n] # <<>> => (NeedOf(g, NoFile) <=> ~g.ver.deleted)
    BY <2>3 DEF NeedOf, OnlyDeletionsEmpty, Entry
  <2> QED
    BY <1>1, <2>2, <2>4 DEF Listed, Gone, g
<1>3. N = Listed \ Gone
  BY <1>2 DEF Needed, Listed
<1> HIDE DEF N
<1>4. N \ Gone = Listed \ Gone /\ N \cap Gone = {}
  BY <1>3
<1>5. Tally(N, Gone) = [files |-> Cardinality(Listed \ Gone), deleted |-> 0]
  BY <1>4, FS_EmptySet DEF Tally
<1>6. globalCount = [files |-> Cardinality(Listed \ Gone), deleted |-> Cardinality(Listed \cap Gone)]
  BY TalliesAre, ValidAre DEF Tallied, ValidMeans, Tally
<1>7. allNeededCounts = [files |-> Cardinality(Listed \ Gone), deleted |-> 0]
  BY <1>6 DEF allNeededCounts
<1> QED
  BY <1>5, <1>7, TalliesAre DEF Tallied, N

\* Where nothing is invalid, nothing is dropped and nobody is known before it sent files, every
\* step keeps the needs of the remotes.
LEMMA RemoteStep == ASSUME Configured, Base, Base', GlobalPart, RemotePart, [Next]_vars PROVE RemotePart'
<1> SUFFICES ASSUME Ignoring = {}, Dropped = {}, Asked = {}, OnlyDeletionsEmpty
             PROVE  dropping' = NoDevice /\ RemotesRight'
  BY DEF RemotePart, OnlyDeletionsEmpty
<1>1. /\ dropping = NoDevice /\ RemotesRight /\ removing = {} /\ AllAreValid
      /\ globalCount = CountOf(ValidGlobals) /\ Typed
  BY BaseIs DEF RemotePart, GlobalPart
<1>2. \A e \in Remotes : e \in Devices /\ e # Local
  BY DEF Devices, Configured
<1>3. \A e \in Devices : CountOf(Needed(e)) # NoCounts
  BY CountTyped DEF Needed, Configured
<1>4. UNCHANGED <<have, versions>> => \A e \in Devices : CountOf(Needed(e))' = CountOf(Needed(e))
  BY CountsFollow
<1>5. ASSUME NEW d \in Devices, NEW n \in Names, NEW f \in File, Update(d, n, f)
      PROVE  dropping' = NoDevice /\ RemotesRight'
  <2>1. /\ tracked' = tracked \cup ({d} \ {Local}) /\ dropping' = NoDevice
        /\ \A e \in Devices : e \notin Affected(d, n, f) => needCount'[e] = needCount[e]
    BY <1>1, <1>5, UpdateCounts
  <2>2. \A e \in Devices : e # d => have'[e] = have[e]
    BY <1>1, <1>5 DEF Update, Typed
  <2>3. ASSUME NEW e \in Remotes, e \in tracked PROVE needCount'[e] = CountOf(Needed(e))'
    <3>1. needCount[e] = CountOf(Needed(e)) /\ e \in Devices
      BY <1>1, <1>2, <2>3 DEF RemotesRight
    <3>2. NeedSize(e) = CountOf(Needed(e))
      BY <1>3, <3>1 DEF NeedSize
    <3>3. CASE e \in Affected(d, n, f)
      BY <1>5, <3>1, <3>2, <3>3, AffectedCount
    <3>4. CASE e \notin Affected(d, n, f)
      BY <1>5, <2>3, <3>1, <3>4, UnaffectedCount
    <3> QED
      BY <3>3, <3>4
  <2>4. ASSUME NEW e \in Remotes, e \notin tracked, e = d PROVE needCount'[e] = CountOf(Needed(e))'
    <3>1. needCount[e] = NoCounts /\ (\A m \in Names : have[e][m] = NoFile) /\ e \in Devices
      BY <1>1, <1>2, <2>4 DEF RemotesRight
    <3>2. NeedSize(e) = CountOf(Needed(e))
      BY <1>1, <3>1, NewcomerNeeds DEF NeedSize
    <3>3. e \in Affected(d, n, f)
      BY <2>4 DEF Affected
    <3> QED
      BY <1>5, <3>1, <3>2, <3>3, AffectedCount
  <2>5. ASSUME NEW e \in Remotes, e \notin tracked, e # d
        PROVE  needCount'[e] = NoCounts /\ (\A m \in Names : have'[e][m] = NoFile) /\ e \notin tracked'
    <3>1. needCount[e] = NoCounts /\ (\A m \in Names : have[e][m] = NoFile) /\ e \in Devices /\ e # Local
      BY <1>1, <1>2, <2>5 DEF RemotesRight
    <3>2. e \notin Affected(d, n, f) /\ e \notin tracked'
      BY <2>1, <2>5, <3>1 DEF Affected
    <3> QED
      BY <2>1, <2>2, <2>5, <3>1, <3>2
  <2>6. \A e \in Remotes : e \in tracked' <=> e \in tracked \/ e = d
    BY <1>2, <2>1
  <2>7. \A e \in Remotes : IF e \in tracked' THEN needCount'[e] = CountOf(Needed(e))'
                           ELSE needCount'[e] = NoCounts /\ \A m \in Names : have'[e][m] = NoFile
    BY <2>3, <2>4, <2>5, <2>6
  <2> QED
    BY <2>1, <2>7 DEF RemotesRight
<1>6. ASSUME NEW n \in Names, DecideRemoval(n) PROVE FALSE
  <2>1. Local \in Devices /\ files(n)[Local] = have[Local][n]
    BY ItemIs DEF Devices
  <2> QED
    BY <1>1, <1>6, <2>1 DEF DecideRemoval, AllAreValid, AllValid
<1>7. ASSUME NEW n \in Names, RemoveLocal(n) \/ DropFile(n) PROVE FALSE
  BY <1>1, <1>7 DEF RemoveLocal, DropFile
<1>8. CASE ResetAll
  BY <1>1, <1>8 DEF ResetAll
<1>9. CASE Recalculate
  <2>1. /\ tracked' = {e \in Remotes : \E n \in Names : have[e][n] # NoFile}
        /\ needCount' = [e \in Devices |-> IF e \in tracked' \cup {Local} THEN CountOf(Needed(e)) ELSE NoCounts]
        /\ dropping' = NoDevice /\ UNCHANGED <<have, versions>>
    BY <1>1, <1>9 DEF Recalculate
  <2>2. \A e \in Remotes : IF e \in tracked' THEN needCount'[e] = CountOf(Needed(e))'
                           ELSE needCount'[e] = NoCounts /\ \A m \in Names : have'[e][m] = NoFile
    BY <1>2, <1>4, <2>1
  <2> QED
    BY <2>1, <2>2 DEF RemotesRight
<1>10. CASE UNCHANGED vars
  <2>1. \A e \in Remotes : IF e \in tracked' THEN needCount'[e] = CountOf(Needed(e))'
                           ELSE needCount'[e] = NoCounts /\ \A m \in Names : have'[e][m] = NoFile
    BY <1>1, <1>2, <1>4, <1>10 DEF RemotesRight, vars
  <2> QED
    BY <1>1, <1>10, <2>1 DEF RemotesRight, vars
<1> QED
  BY <1>5, <1>6, <1>7, <1>8, <1>9, <1>10 DEF Next

-----------------------------------------------------------------------------
(* The theorem *)

\* The inductive invariant.
IInv == Base /\ AllSorted /\ LocalPart /\ GlobalPart /\ RemotePart

\* The version lists are always those of the files, and what is kept along the way is what a
\* recount gives, under the conditions that FileSetRight states.
THEOREM IndexIsThatOfTheFiles == Configured => (Spec => []FileSetRight)
<1> SUFFICES ASSUME Configured PROVE Spec => []FileSetRight
  OBVIOUS
<1>1. Init => IInv
  BY BaseInit, SortedInit, LocalInit, GlobalInit, RemoteInit DEF IInv
<1>2. IInv /\ [Next]_vars => IInv'
  <2> SUFFICES ASSUME IInv, [Next]_vars PROVE IInv'
    OBVIOUS
  <2>1. Base' /\ AllSorted'
    BY BaseStep, SortedStep DEF IInv
  <2>2. LocalPart' /\ GlobalPart' /\ RemotePart'
    BY <2>1, LocalStep, GlobalStep, RemoteStep DEF IInv
  <2> QED
    BY <2>1, <2>2 DEF IInv
<1>3. IInv => FileSetRight
  <2> SUFFICES ASSUME IInv PROVE FileSetRight
    OBVIOUS
  <2>1. ListsMatchFiles
    BY ListsMatch DEF IInv
  <2>2. InSuccession => GlobalIsNewest
    BY NewestGlobal DEF IInv
  <2>3. Dropped = {} /\ LocalOnly = {} => LocalNeedRight
    BY DEF IInv, LocalPart, LocalNeedRight
  <2>4. Ignoring = {} => GlobalCountRight
    BY DEF IInv, GlobalPart, GlobalCountRight
  <2>5. Ignoring = {} /\ Dropped = {} /\ Asked = {} /\ OnlyDeletionsEmpty => NeedCountsRight
    <3> SUFFICES ASSUME RemotesRight, NEW e \in tracked PROVE NeedSize(e) = CountOf(Needed(e))
      BY DEF IInv, RemotePart, NeedCountsRight
    <3>1. e \in Remotes /\ e \in Devices /\ needCount[e] = CountOf(Needed(e))
      BY BaseIs DEF IInv, Typed, RemotesRight, Devices
    <3>2. CountOf(Needed(e)) # NoCounts
      BY CountTyped DEF Needed, Configured
    <3> QED
      BY <3>1, <3>2 DEF NeedSize
  <2> QED
    BY <2>1, <2>2, <2>3, <2>4, <2>5 DEF FileSetRight
<1> QED
  BY <1>1, <1>2, <1>3, PTL DEF Spec

=============================================================================
