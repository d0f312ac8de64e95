----------------------------- MODULE ScanProofs -----------------------------
(***************************************************************************)
(* Proofs about Scan, for any tree of paths, with any number of changes and  *)
(* scans: what a scan has covered is on record as it is on disk, and what    *)
(* the records say of blocks and versions is so.                            *)
(*                                                                          *)
(* The records by themselves (Basic): each file, in the database, in a       *)
(* snapshot, with the walk or in a batch, fits what is on disk and what is   *)
(* known, and it goes on to do so because what changes on disk is fresh.     *)
(*                                                                          *)
(* What a scan has seen (Seen), from its beginning to its end: the walk has  *)
(* yet to come to an item that is there (Awaited, or Owed to what is below   *)
(* an ignored directory), or it has reported it, or the record is right;     *)
(* after the walk the second snapshot has all of them, so that the pass over *)
(* the database marks or deletes only what it should; behind the pass every  *)
(* item is put off, in the batch, or right; and what is put off has nothing  *)
(* in it that the pass has come by.  What forced rescans have read (Read)    *)
(* goes along with it.                                                      *)
(***************************************************************************)
EXTENDS Scan, NaturalsInduction, WellFoundedInduction, TLAPS

Kinds == {"absent", "dir", "file"}
Flags == {"none", "ignored", "receiveonly", "mustrescan"}
Items == [kind : Kinds, stat : Nat, data : Int]
AllFiles == [item : Items, deleted : BOOLEAN, flag : Flags, version : Nat \X Nat]

\* What can be on disk: of what is no file there is only the kind.
Plain(i) == (i.kind = "dir" => i = Directory) /\ (i.kind = "absent" => i = Absent)

\* The paths are those of a tree whose names are in an order, with each directory before what is
\* in it; and what is there at first is in directories that are there.
Configured ==
  /\ Order \in Seq(Paths)
  /\ \A i, j \in DOMAIN Order : Order[i] = Order[j] => i = j
  /\ Above \in [Paths -> SUBSET Paths]
  /\ \A p \in Paths : \A q \in Above[p] :
       /\ Before(q, p) /\ Above[q] \subseteq Above[p]
       /\ \A r \in Above[p] : r = q \/ r \in Above[q] \/ q \in Above[r]
  /\ \A p \in Paths : Above[p] # {} => \E q \in Above[p] : p \in Children(q)
  /\ Root \notin Paths
  /\ Present \in [Paths -> Items]
  /\ \A p \in Paths : Plain(Present[p]) /\ Present[p].stat <= 1
  /\ \A p \in Paths : Present[p] # Absent => \A q \in Above[p] : Present[q] = Directory

-----------------------------------------------------------------------------
(* Names and directories *)

Chain(p) == {p} \cup Above[p]

\* The order of the names is one.
LEMMA NamesInOrder ==
    ASSUME Configured
    PROVE  /\ Len(Order) \in Nat /\ DOMAIN Order = 1..Len(Order)
           /\ \A i \in 1..Len(Order) : Order[i] \in Paths
           /\ \A p \in Paths : \E i \in 1..Len(Order) : Order[i] = p
           /\ \A p, q \in Paths : p = q \/ Before(p, q) \/ Before(q, p)
           /\ \A p, q \in Paths : Before(p, q) => p # q /\ ~Before(q, p)
           /\ \A p, q, r \in Paths : Before(p, q) /\ Before(q, r) => Before(p, r)
<1>1. Len(Order) \in Nat /\ DOMAIN Order = 1..Len(Order)
  BY DEF Configured
<1>2. \A i \in 1..Len(Order) : Order[i] \in Paths
  BY <1>1 DEF Paths
<1>3. \A p \in Paths : \E i \in 1..Len(Order) : Order[i] = p
  BY <1>1 DEF Paths
<1>4. \A i, j \in 1..Len(Order) : Order[i] = Order[j] => i = j
  BY <1>1 DEF Configured
<1>5. ASSUME NEW p \in Paths, NEW q \in Paths PROVE p = q \/ Before(p, q) \/ Before(q, p)
  <2>1. PICK i \in 1..Len(Order) : Order[i] = p
    BY <1>3
  <2>2. PICK j \in 1..Len(Order) : Order[j] = q
    BY <1>3
  <2> QED
    BY <1>1, <2>1, <2>2 DEF Before
<1>6. \A p, q \in Paths : Before(p, q) => p # q /\ ~Before(q, p)
  BY <1>1, <1>4 DEF Before
<1>7. \A p, q, r \in Paths : Before(p, q) /\ Before(q, r) => Before(p, r)
  BY <1>1, <1>4 DEF Before
<1> QED
  BY <1>1, <1>2, <1>3, <1>5, <1>6, <1>7

\* Among some paths there are a first one and a last one.
LEMMA FirstIsThere ==
    ASSUME Configured, NEW S, S \subseteq Paths, S # {}
    PROVE  /\ \E p \in S : \A q \in S : ~Before(q, p)
           /\ \E p \in S : \A q \in S : ~Before(p, q)
<1> DEFINE n == Len(Order)
           I == {i \in 1..n : Order[i] \in S}
           J == {n - i : i \in I}
<1>1. n \in Nat /\ DOMAIN Order = 1..n /\ (\A p \in Paths : \E i \in 1..n : Order[i] = p)
  BY NamesInOrder
<1>2. I # {} /\ I \subseteq Nat /\ J # {} /\ J \subseteq Nat
  BY <1>1
<1>3. ASSUME NEW N, N \subseteq Nat, N # {} PROVE \E m \in N : \A l \in N : ~(l < m)
  <2>1. IsWellFoundedOn(OpToRel(<, Nat), Nat)
    BY NatLessThanWellFounded
  <2>2. PICK m \in N : \A l \in N : <<l, m>> \notin OpToRel(<, Nat)
    BY <1>3, <2>1, WFMin
  <2> QED
    BY <1>3, <2>2 DEF OpToRel
<1>4. PICK i \in I : \A j \in I : ~(j < i)
  BY <1>2, <1>3
<1>5. PICK k \in J : \A l \in J : ~(l < k)
  BY <1>2, <1>3
<1>6. PICK j \in I : k = n - j
  BY <1>5
<1>7. \A l \in I : ~(j < l)
  <2> TAKE l \in I
  <2>1. ~(n - l < n - j)
    BY <1>5, <1>6
  <2> QED
    BY <1>1, <2>1
<1>8. \A x, y \in 1..n : Order[x] = Order[y] => x = y
  BY <1>1 DEF Configured
<1>9. \A q \in S : ~Before(q, Order[i])
  BY <1>1, <1>4, <1>8 DEF Before
<1>10. \A q \in S : ~Before(Order[j], q)
  BY <1>1, <1>7, <1>8 DEF Before
<1> QED
  BY <1>4, <1>9, <1>10

\* Directories that something is in.
LEMMA Nested ==
    ASSUME Configured
    PROVE  /\ \A p \in Paths : Above[p] \subseteq Paths /\ p \notin Above[p]
           /\ \A p \in Paths : \A q \in Above[p] : Above[q] \subseteq Above[p] /\ p \notin Above[q] /\ Before(q, p)
           /\ \A p \in Paths : \A q, r \in Chain(p) : r = q \/ r \in Above[q] \/ q \in Above[r]
           /\ \A p \in Paths : \A q \in Chain(p) : Chain(q) \subseteq Chain(p)
<1>1. \A p \in Paths : Above[p] \subseteq Paths
  BY DEF Configured
<1>2. \A p \in Paths : \A q \in Above[p] : Before(q, p) /\ Above[q] \subseteq Above[p]
  BY DEF Configured
<1>3. \A p \in Paths : p \notin Above[p]
  BY <1>2, NamesInOrder
<1>4. \A p \in Paths : \A q \in Above[p] : p \notin Above[q]
  BY <1>2, <1>3
<1>5. ASSUME NEW p \in Paths, NEW q \in Chain(p), NEW r \in Chain(p) PROVE r = q \/ r \in Above[q] \/ q \in Above[r]
  BY DEF Configured, Chain
<1>6. \A p \in Paths : \A q \in Chain(p) : Chain(q) \subseteq Chain(p)
  BY <1>2 DEF Chain
<1> QED
  BY <1>1, <1>2, <1>3, <1>4, <1>5, <1>6

\* The outermost of the directories.
LEMMA TopIsThere == ASSUME Configured, NEW p \in Paths PROVE \E q \in Chain(p) : q \in Top
<1>1. Chain(p) \subseteq Paths /\ Chain(p) # {}
  BY Nested DEF Chain
<1>2. PICK q \in Chain(p) : \A r \in Chain(p) : ~Before(r, q)
  BY <1>1, FirstIsThere
<1>3. \A r \in Above[q] : r \in Chain(p) /\ Before(r, q)
  BY <1>1, Nested DEF Chain
<1>4. Above[q] = {}
  BY <1>2, <1>3
<1> QED
  BY <1>1, <1>4 DEF Top

\* What is below p is below one of the children of p, or is that.
LEMMA ChildIsThere ==
    ASSUME Configured, NEW p \in Paths, NEW q \in Below(p)
    PROVE  \E c \in Children(p) : c \in Chain(q)
<1> DEFINE S == {x \in Chain(q) : p \in Above[x]}
<1>1. q \in Paths /\ p \in Above[q]
  BY DEF Below
<1>2. S # {} /\ S \subseteq Paths
  BY <1>1, Nested DEF Chain
<1>3. PICK c \in S : \A r \in S : ~Before(r, c)
  BY <1>2, FirstIsThere
<1>4. c \in Paths /\ c \in Chain(q) /\ p \in Above[c]
  BY <1>2, <1>3
<1>5. \A x \in Above[c] : x \in Chain(q) /\ Before(x, c) /\ x \notin S
  BY <1>1, <1>3, <1>4, Nested DEF Chain
<1>6. Above[c] \subseteq Above[p] \cup {p}
  <2> SUFFICES ASSUME NEW x \in Above[c], x # p, x \notin Above[p] PROVE FALSE
    OBVIOUS
  <2>1. p \in Above[x]
    BY <1>4, Nested DEF Chain
  <2> QED
    BY <2>1, <1>5
<1>7. Above[p] \subseteq Above[c]
  BY <1>4, Nested
<1>8. Above[c] = Above[p] \cup {p}
  BY <1>4, <1>6, <1>7
<1> QED
  BY <1>4, <1>8 DEF Children

\* Of two paths that are not in each other the walk comes to one earlier.
LEMMA WalkIsOrdered ==
    ASSUME Configured, NEW p \in Paths, NEW q \in Paths, p \notin Chain(q), q \notin Chain(p)
    PROVE  Earlier(p, q) \/ Earlier(q, p)
<1>1. Chain(p) \subseteq Paths /\ Chain(q) \subseteq Paths
  BY Nested DEF Chain
<1>2. PICK a \in Chain(p) \ Chain(q) : \A r \in Chain(p) \ Chain(q) : ~Before(r, a)
  <2>1. p \in Chain(p) \ Chain(q) /\ Chain(p) \ Chain(q) \subseteq Paths
    BY <1>1 DEF Chain
  <2> QED
    BY <2>1, FirstIsThere
<1>3. PICK b \in Chain(q) \ Chain(p) : \A r \in Chain(q) \ Chain(p) : ~Before(r, b)
  <2>1. q \in Chain(q) \ Chain(p) /\ Chain(q) \ Chain(p) \subseteq Paths
    BY <1>1 DEF Chain
  <2> QED
    BY <2>1, FirstIsThere
<1>4. a \in Paths /\ b \in Paths /\ a # b
  BY <1>1, <1>2, <1>3
<1>5. Above[a] = Chain(p) \cap Chain(q)
  <2>1. ASSUME NEW x \in Above[a] PROVE x \in Chain(p) \cap Chain(q)
    <3>1. x \in Chain(p) /\ Before(x, a)
      BY <1>2, <1>4, Nested DEF Chain
    <3> QED
      BY <3>1, <1>2
  <2>2. ASSUME NEW x \in Chain(p) \cap Chain(q) PROVE x \in Above[a]
    <3>1. x = a \/ x \in Above[a] \/ a \in Above[x]
      BY <1>2, Nested
    <3>2. Chain(x) \subseteq Chain(q)
      BY Nested
    <3> QED
      BY <3>1, <3>2, <1>2 DEF Chain
  <2> QED
    BY <2>1, <2>2
<1>6. Above[b] = Chain(p) \cap Chain(q)
  <2>1. ASSUME NEW x \in Above[b] PROVE x \in Chain(p) \cap Chain(q)
    <3>1. x \in Chain(q) /\ Before(x, b)
      BY <1>3, <1>4, Nested DEF Chain
    <3> QED
      BY <3>1, <1>3
  <2>2. ASSUME NEW x \in Chain(p) \cap Chain(q) PROVE x \in Above[b]
    <3>1. x = b \/ x \in Above[b] \/ b \in Above[x]
      BY <1>3, Nested
    <3>2. Chain(x) \subseteq Chain(p)
      BY Nested
    <3> QED
      BY <3>1, <3>2, <1>3 DEF Chain
  <2> QED
    BY <2>1, <2>2
<1>7. Before(a, b) \/ Before(b, a)
  BY <1>4, NamesInOrder
<1>8. a \in Above[p] \cup {p} /\ b \in Above[q] \cup {q}
  BY <1>2, <1>3 DEF Chain
<1> QED
  BY <1>5, <1>6, <1>7, <1>8 DEF Earlier

\* And so it does with what is in the one.
LEMMA WalkIsDeep ==
    ASSUME Configured, NEW p \in Paths, NEW q \in Paths, p \notin Chain(q), Earlier(p, q), NEW c \in Below(p)
    PROVE  Earlier(c, q)
<1>1. PICK a \in Above[p] \cup {p}, b \in Above[q] \cup {q} : Above[a] = Above[b] /\ Before(a, b)
  BY DEF Earlier, Chain
<1>2. a \in Above[c] \cup {c}
  BY <1>1, Nested DEF Below
<1> QED
  BY <1>1, <1>2 DEF Earlier

-----------------------------------------------------------------------------
(* Files *)

Shaped(f) == f = NoFile \/ (f.item.kind \in {"dir", "file"} /\ (f.item.kind = "dir" /\ ~f.deleted => f.item = Directory))
Sized(f, c) == f.item.stat <= c /\ f.version[2] <= c

\* With the size and time that is on disk go the blocks that are.
Fits(f, i) ==
  ~Renaming /\ f.flag \in {"none", "receiveonly"} /\ f.item.kind = "file" /\ ~f.deleted /\ i.kind = "file" /\ i.stat = f.item.stat
    => f.item.data \in {i.data, -i.data}

\* It claims no more of the other device's changes than is known.
Knows(f, k) == ~RecheckApart /\ f.flag # "ignored" => f.version[2] <= k

\* In a receive-only folder it is the other device's, or older than everything.
Own(f) == Type = "receiveonly" /\ f.flag = "none" /\ ~f.deleted => f.version = <<0, 0>> \/ f.item.stat = f.version[2]

\* A file of this device where i is on disk, c the time and k what is known; and one of the other.
LocalFile(f, i, c, k) == f \in AllFiles /\ Shaped(f) /\ Sized(f, c) /\ Fits(f, i) /\ Knows(f, k) /\ Own(f)
OtherFile(f, i, c) == f \in AllFiles /\ f.flag = "none" /\ Shaped(f) /\ Sized(f, c) /\ Fits(f, i) /\ Own(f)

\* What takes the place of i on disk is no file with a size and time that i or another has had.
Fresh(i, j, c) == Renaming \/ j = i \/ j.kind # "file" \/ j.stat > c \/ j = [i EXCEPT !.data = -i.data]

\* Records of nothing, and what there can be on disk.
LEMMA TheseAre == NoFile \in AllFiles /\ Absent \in Items /\ Directory \in Items
  BY DEF NoFile, Absent, Directory, Item, AllFiles, Items, Kinds, Flags

\* No record says nothing that could be wrong.
LEMMA NoFileIs ==
    ASSUME NEW i \in Items, NEW c \in Nat, NEW k \in Nat
    PROVE  LocalFile(NoFile, i, c, k) /\ OtherFile(NoFile, i, c)
  BY TheseAre DEF NoFile, Absent, Item, LocalFile, OtherFile, Shaped, Sized, Fits, Knows, Own

\* Files stay right as time goes by and more is known.
LEMMA FilesLast ==
    ASSUME NEW f, NEW i \in Items, NEW j \in Items, NEW c \in Nat, NEW d \in Nat, NEW k \in Nat, NEW l \in Nat,
           c <= d, Fresh(i, j, c)
    PROVE  /\ LocalFile(f, i, c, k) /\ k <= l => LocalFile(f, j, d, l)
           /\ OtherFile(f, i, c) => OtherFile(f, j, d)
<1>1. ASSUME f \in AllFiles, Sized(f, c) PROVE Sized(f, d)
  BY <1>1 DEF Sized, AllFiles, Items
<1>2. ASSUME f \in AllFiles, Sized(f, c), Fits(f, i) PROVE Fits(f, j)
  BY <1>2 DEF Sized, AllFiles, Items, Fits, Fresh
<1>3. ASSUME f \in AllFiles, Knows(f, k), k <= l PROVE Knows(f, l)
  BY <1>3 DEF AllFiles, Knows
<1> QED
  BY <1>1, <1>2, <1>3 DEF LocalFile, OtherFile

\* This device's changes leave the counter of the other one as it is, or drop it.
LEMMA UpdatedIs ==
    ASSUME NEW v \in Nat \X Nat, clock \in Nat
    PROVE  /\ Updated(v) \in Nat \X Nat /\ Updated(v)[2] = v[2]
           /\ DropOthers(v) \in Nat \X Nat /\ DropOthers(v)[2] = 0
  BY DEF Updated, DropOthers, Maximum

\* What is scanned in a receive-only folder is marked as such.
LEMMA LocalFlagsIs == localFlags \in {"none", "receiveonly"} /\ (Type = "receiveonly" <=> localFlags = "receiveonly")
  BY DEF localFlags

\* A deletion is right where the file was.
LEMMA DeletedIs ==
    ASSUME NEW i \in Items, clock \in Nat, NEW k \in Nat, NEW f \in AllFiles, f # NoFile, Shaped(f), Sized(f, clock), Knows(f, k)
    PROVE  /\ LocalFile(Deleted(f), i, clock, k)
           /\ Deleted(f).deleted /\ Deleted(f).flag = f.flag /\ Deleted(f) # NoFile
<1> DEFINE g == Deleted(f)
<1>1. f.item \in Items /\ f.version \in Nat \X Nat /\ f.item.kind \in Kinds
  BY DEF AllFiles, Items
<1>2. Updated(f.version) \in Nat \X Nat /\ Updated(f.version)[2] = f.version[2]
  BY <1>1, UpdatedIs
<1> DEFINE j == Item(f.item.kind, clock, 0)
           v == Updated(f.version)
<1>3. j \in Items /\ j.kind = f.item.kind /\ j.stat = clock
  BY <1>1 DEF Item, Items
<1>4. g = [f EXCEPT !.item = j, !.deleted = TRUE, !.version = v]
  BY DEF Deleted, AllFiles
<1> HIDE DEF g, j, v
<1>5. g \in AllFiles /\ g.item = j /\ g.deleted /\ g.flag = f.flag /\ g.version = v
  BY <1>2, <1>3, <1>4 DEF AllFiles, v
<1>6. g # NoFile
  BY <1>5 DEF NoFile
<1>7. Sized(g, clock)
  BY <1>2, <1>3, <1>5 DEF Sized, v
<1>8. Shaped(g)
  BY <1>3, <1>5 DEF Shaped
<1>9. Knows(g, k)
  BY <1>2, <1>5 DEF Knows, v
<1>10. Fits(g, i) /\ Own(g)
  BY <1>5 DEF Fits, Own
<1> QED
  BY <1>5, <1>6, <1>7, <1>8, <1>9, <1>10 DEF LocalFile, g

\* A file that is marked as ignored, or to be hashed again, is right.
LEMMA FlaggedIs ==
    ASSUME NEW i \in Items, NEW c \in Nat, NEW k \in Nat, NEW f \in AllFiles, f # NoFile, Shaped(f), Sized(f, c),
           NEW flag \in {"ignored", "mustrescan"}, flag = "mustrescan" /\ ~RecheckApart => f.flag # "ignored" /\ Knows(f, k)
    PROVE  /\ LocalFile(Flagged(f, flag), i, c, k) /\ Flagged(f, flag).flag = flag
           /\ Flagged(f, flag).item.kind = f.item.kind /\ Flagged(f, flag) # NoFile
<1> DEFINE g == Flagged(f, flag)
<1>1. f.item \in Items /\ f.version \in Nat \X Nat /\ f.item.kind \in Kinds
  BY DEF AllFiles, Items
<1> DEFINE j == NoContent(f.item)
<1>2. j \in Items /\ j.kind = f.item.kind /\ j.stat = 0 /\ (j.kind = "dir" => j = Directory)
  BY <1>1 DEF NoContent, Item, Items, Directory
<1>3. g = [f EXCEPT !.item = j, !.flag = flag]
  BY DEF Flagged, AllFiles
<1> HIDE DEF g, j
<1>4. g \in AllFiles /\ g.item = j /\ g.flag = flag /\ g.version = f.version /\ g.deleted = f.deleted
  BY <1>1, <1>2, <1>3 DEF AllFiles, Flags
<1>5. g # NoFile
  BY <1>4 DEF NoFile
<1>6. Sized(g, c)
  BY <1>2, <1>4 DEF Sized
<1>7. Shaped(g)
  BY <1>2, <1>4 DEF Shaped
<1>8. Knows(g, k)
  BY <1>4 DEF Knows
<1>9. Fits(g, i) /\ Own(g)
  BY <1>4 DEF Fits, Own
<1> QED
  BY <1>2, <1>4, <1>5, <1>6, <1>7, <1>8, <1>9 DEF LocalFile, g

\* A file that the pass finds gone is right.
LEMMA GoneIs ==
    ASSUME NEW i \in Items, clock \in Nat, NEW k \in Nat, NEW f, f # NoFile, LocalFile(f, i, clock, k)
    PROVE  LocalFile(Gone(f), i, clock, k) /\ Gone(f).deleted /\ Gone(f) # NoFile
<1> DEFINE d == Deleted(f)
           g == Gone(f)
<1>1. LocalFile(d, i, clock, k) /\ d.deleted /\ d.flag = f.flag /\ d # NoFile
  BY DeletedIs DEF LocalFile
<1> HIDE DEF d
<1>2. /\ g.item = d.item /\ g.deleted /\ g.flag = localFlags
      /\ g.version = IF ShouldConflict(f) THEN <<0, 0>> ELSE d.version
      /\ g \in AllFiles
  <2> DEFINE e == [d EXCEPT !.flag = localFlags]
  <2>1. d \in AllFiles /\ <<0, 0>> \in Nat \X Nat
    BY <1>1 DEF LocalFile
  <2>2. e \in AllFiles /\ e.item = d.item /\ e.deleted /\ e.flag = localFlags /\ e.version = d.version
    BY <1>1, <2>1, LocalFlagsIs DEF AllFiles, Flags
  <2>3. g = IF ShouldConflict(f) THEN [e EXCEPT !.version = <<0, 0>>] ELSE e
    BY DEF Gone, d
  <2> HIDE DEF e, g
  <2> QED
    BY <2>1, <2>2, <2>3 DEF AllFiles
<1>3. g # NoFile
  BY <1>2 DEF NoFile
<1>4. Knows(g, k)
  BY <1>1, <1>2 DEF Knows, LocalFile, ShouldConflict
<1> HIDE DEF g
<1>5. Sized(g, clock)
  BY <1>1, <1>2 DEF Sized, LocalFile
<1>6. Shaped(g)
  BY <1>1, <1>2 DEF Shaped, LocalFile
<1>7. Fits(g, i) /\ Own(g)
  BY <1>2 DEF Fits, Own
<1> QED
  BY <1>2, <1>3, <1>4, <1>5, <1>6, <1>7 DEF LocalFile, g

\* What the walk makes of what is on disk.
Scanned(old, i) == File(i, Rescanned(old), localFlags)

\* What the walk makes of an item is right, and is what is on disk.
LEMMA ScannedIs ==
    ASSUME NEW i \in Items, clock \in Nat, NEW k \in Nat, NEW old, LocalFile(old, i, clock, k),
           i # Absent, Plain(i), i.stat <= clock
    PROVE  /\ LocalFile(Scanned(old, i), i, clock, k) /\ Scanned(old, i) # NoFile
           /\ Scanned(old, i).item = i /\ ~Scanned(old, i).deleted /\ Scanned(old, i).flag = localFlags
<1> DEFINE g == Scanned(old, i)
           v == Rescanned(old)
<1>1. old \in AllFiles /\ old.version \in Nat \X Nat
  BY DEF LocalFile, AllFiles
<1>2. v \in Nat \X Nat /\ v[2] = IF ShouldConflict(old) THEN 0 ELSE old.version[2]
  BY <1>1, UpdatedIs DEF Rescanned
<1>3. /\ g \in AllFiles /\ g.item = i /\ ~g.deleted /\ g.flag = localFlags /\ g.version = v
  BY <1>2, LocalFlagsIs DEF Scanned, File, AllFiles, Flags
<1>4. i.kind \in {"dir", "file"} /\ (i.kind = "dir" => i = Directory)
  BY DEF Plain, Items, Kinds
<1>5. g # NoFile
  BY <1>3 DEF NoFile
<1>6. old.flag # "ignored" => v[2] <= k \/ RecheckApart
  BY <1>1, <1>2 DEF LocalFile, Knows
<1>7. old.flag = "ignored" => v[2] = 0
  BY <1>2 DEF ShouldConflict
<1>8. v[2] <= clock
  BY <1>1, <1>2 DEF LocalFile, Sized
<1> HIDE DEF g, v
<1>9. Fits(g, i)
  BY <1>3 DEF Fits
<1>10. Own(g)
  BY <1>3, LocalFlagsIs DEF Own
<1>11. Shaped(g)
  BY <1>3, <1>4 DEF Shaped
<1>12. Sized(g, clock)
  BY <1>3, <1>8 DEF Sized
<1>13. Knows(g, k)
  BY <1>2, <1>3, <1>6, <1>7 DEF Knows
<1> QED
  BY <1>3, <1>5, <1>9, <1>10, <1>11, <1>12, <1>13 DEF LocalFile, g

-----------------------------------------------------------------------------
(* What is true of all records *)

Nothing == [p \in Paths |-> NoFile]

Types ==
  /\ disk \in [Paths -> Items] /\ ignored \subseteq Paths /\ clock \in Nat
  /\ db \in [Paths -> AllFiles] /\ remote \in [Paths -> AllFiles] /\ known \in [Paths -> Nat]
  /\ pc \in {"idle", "begin", "walk", "delete"} /\ subs \subseteq Paths
  /\ snap \in [local : [Paths -> AllFiles], remote : [Paths -> AllFiles]]
  /\ listed \subseteq Paths /\ hashing \subseteq Paths \X AllFiles /\ found \subseteq Paths \X AllFiles
  /\ DOMAIN batch \subseteq Paths /\ removals \subseteq Paths
  /\ row \in Nat \ {0} /\ toIgnore \subseteq Paths
  /\ forced \subseteq Paths /\ forcing \subseteq Paths /\ clean \in BOOLEAN

\* While nothing is scanned nothing is under way.
Resting ==
  /\ pc \in {"idle", "begin"} =>
       /\ listed = {} /\ hashing = {} /\ found = {} /\ batch = NoChanges /\ removals = {} /\ toIgnore = {}
       /\ snap = [local |-> Nothing, remote |-> Nothing] /\ ~clean
  /\ pc = "idle" => forcing = {}
  /\ pc # "delete" => toIgnore = {}
  /\ \A p \in toIgnore : snap.local[p] # NoFile

\* What is on disk is in directories that are there.
DiskRight ==
  \A p \in Paths : Plain(disk[p]) /\ disk[p].stat <= clock /\ (disk[p] # Absent => DirectoryThere(p))

DatabaseRight == \A p \in Paths : LocalFile(db[p], disk[p], clock, known[p])
RemoteRight == \A p \in Paths : OtherFile(remote[p], disk[p], clock)
SnapshotRight ==
  \A p \in Paths : LocalFile(snap.local[p], disk[p], clock, known[p]) /\ OtherFile(snap.remote[p], disk[p], clock)
WalkRight ==
  /\ \A r \in hashing \cup found : LocalFile(r[2], disk[r[1]], clock, known[r[1]])
  /\ \A r \in hashing : r[2].item.kind = "file"
BatchRight == \A p \in DOMAIN batch : LocalFile(batch[p], disk[p], clock, known[p])

\* Items that are to be hashed again are not ignored.
ForcedRight == ~RecheckApart => suspect = {} /\ \A p \in forced : db[p].flag # "ignored"

Basic ==
  /\ Types /\ Resting /\ DiskRight /\ ForcedRight
  /\ DatabaseRight /\ RemoteRight /\ SnapshotRight /\ WalkRight /\ BatchRight

\* What changes on disk is fresh, and time and what is known only grow.
Grows ==
  /\ disk' \in [Paths -> Items] /\ clock' \in Nat /\ clock <= clock' /\ known' \in [Paths -> Nat]
  /\ \A p \in Paths : Fresh(disk[p], disk'[p], clock) /\ known[p] <= known'[p]

\* Then records that stay are right.
LEMMA RecordsLast ==
    ASSUME Basic, Grows
    PROVE  /\ db' = db => DatabaseRight'
           /\ remote' = remote => RemoteRight'
           /\ snap' = snap => SnapshotRight'
           /\ hashing' \subseteq hashing /\ found' \subseteq found => WalkRight'
           /\ batch' = batch => BatchRight'
<1>1. /\ disk \in [Paths -> Items] /\ clock \in Nat /\ known \in [Paths -> Nat]
      /\ disk' \in [Paths -> Items] /\ clock' \in Nat /\ clock <= clock' /\ known' \in [Paths -> Nat]
  BY DEF Basic, Types, Grows
<1>2. ASSUME NEW p \in Paths, NEW f
      PROVE  /\ LocalFile(f, disk[p], clock, known[p]) => LocalFile(f, disk'[p], clock', known'[p])
             /\ OtherFile(f, disk[p], clock) => OtherFile(f, disk'[p], clock')
  <2>1. Fresh(disk[p], disk'[p], clock) /\ known[p] <= known'[p]
    BY <1>2 DEF Grows
  <2>2. disk[p] \in Items /\ disk'[p] \in Items /\ known[p] \in Nat /\ known'[p] \in Nat
    BY <1>1, <1>2
  <2> QED
    BY <1>1, <2>1, <2>2, FilesLast
<1>3. db' = db => DatabaseRight'
  BY <1>2 DEF Basic, DatabaseRight
<1>4. remote' = remote => RemoteRight'
  BY <1>2 DEF Basic, RemoteRight
<1>5. snap' = snap => SnapshotRight'
  BY <1>2 DEF Basic, SnapshotRight
<1>6. hashing' \subseteq hashing /\ found' \subseteq found => WalkRight'
  <2>1. \A r \in hashing \cup found : r[1] \in Paths
    BY DEF Basic, Types
  <2> QED
    BY <1>2, <2>1 DEF Basic, WalkRight
<1>7. batch' = batch => BatchRight'
  BY <1>2 DEF Basic, BatchRight, Types
<1> QED
  BY <1>3, <1>4, <1>5, <1>6, <1>7

\* It is so when nothing changes on disk.
LEMMA GrowsWhenUnchanged ==
    ASSUME Basic, UNCHANGED disk, clock' = clock \/ clock' = clock + 1,
           known' \in [Paths -> Nat], \A p \in Paths : known[p] <= known'[p]
    PROVE  Grows
  BY DEF Basic, Types, Grows, Fresh

\* And as long as what is known stays.
LEMMA GrowsWhenKnown ==
    ASSUME Basic, UNCHANGED <<disk, known>>, clock' = clock \/ clock' = clock + 1
    PROVE  Grows
<1>1. \A p \in Paths : known[p] <= known'[p]
  BY DEF Basic, Types
<1> QED
  BY <1>1, GrowsWhenUnchanged DEF Basic, Types

\* Directories that are there stay so.
LEMMA DiskLasts == ASSUME Basic, UNCHANGED disk, clock' = clock \/ clock' = clock + 1 PROVE DiskRight'
<1>1. \A p \in Paths : disk[p].stat \in Nat /\ clock \in Nat
  BY DEF Basic, Types, Items
<1> QED
  BY <1>1 DEF Basic, DiskRight, DirectoryThere

\* At first there are no records.
LEMMA InitBasic == ASSUME Configured PROVE Init => Basic
<1> SUFFICES ASSUME Init PROVE Basic
  OBVIOUS
<1>1. /\ disk = Present /\ clock = 1 /\ db = Nothing /\ remote = Nothing /\ known = [p \in Paths |-> 0]
      /\ snap = [local |-> Nothing, remote |-> Nothing]
  BY DEF Init, Nothing
<1>2. \A i \in Items, c \in Nat, k \in Nat : LocalFile(NoFile, i, c, k) /\ OtherFile(NoFile, i, c)
  BY NoFileIs
<1>3. Present \in [Paths -> Items]
  BY DEF Configured
<1>4. Nothing \in [Paths -> AllFiles] /\ \A p \in Paths : Nothing[p] = NoFile
  BY TheseAre DEF Nothing
<1>5. DOMAIN batch = {}
  BY DEF Init, NoChanges
<1>6. Types
  <2>1. snap \in [local : [Paths -> AllFiles], remote : [Paths -> AllFiles]]
    BY <1>1, <1>4
  <2>2. disk \in [Paths -> Items] /\ db \in [Paths -> AllFiles] /\ remote \in [Paths -> AllFiles] /\ known \in [Paths -> Nat]
    BY <1>1, <1>3, <1>4
  <2>3. /\ ignored = {} /\ clock = 1 /\ pc = "idle" /\ subs = {} /\ listed = {} /\ hashing = {} /\ found = {}
        /\ removals = {} /\ row = 1 /\ toIgnore = {} /\ forced = {} /\ forcing = {} /\ clean = FALSE
    BY DEF Init
  <2>4. /\ ignored \subseteq Paths /\ subs \subseteq Paths /\ listed \subseteq Paths /\ removals \subseteq Paths
        /\ hashing \subseteq Paths \X AllFiles /\ found \subseteq Paths \X AllFiles
        /\ toIgnore \subseteq Paths /\ forced \subseteq Paths /\ forcing \subseteq Paths /\ DOMAIN batch \subseteq Paths
    BY <1>5, <2>3, Zenon
  <2>5. clock \in Nat /\ row \in Nat \ {0}
    BY <2>3
  <2>6. pc \in {"idle", "begin", "walk", "delete"} /\ clean \in BOOLEAN
    BY <2>3, Zenon
  <2> QED
    BY <2>1, <2>2, <2>4, <2>5, <2>6, Zenon DEF Types
<1>7. Resting
  BY <1>1 DEF Init, Resting
<1>8. DiskRight
  BY <1>1 DEF Configured, DiskRight, DirectoryThere
<1>9. DatabaseRight /\ RemoteRight /\ SnapshotRight
  BY <1>1, <1>2, <1>3, <1>4 DEF DatabaseRight, RemoteRight, SnapshotRight
<1>10. WalkRight /\ BatchRight /\ ForcedRight
  BY <1>5 DEF Init, WalkRight, BatchRight, ForcedRight
<1> QED
  BY <1>6, <1>7, <1>8, <1>9, <1>10 DEF Basic

-----------------------------------------------------------------------------
(* The user *)

\* Where everything else stays, Basic depends on what becomes of the disk.
LEMMA DiskChangedBasic ==
    ASSUME Basic, NEW change \in [Paths -> Items], DiskChanged(change), clock' = clock \/ clock' = clock + 1,
           \A p \in Paths : Fresh(disk[p], change[p], clock), DiskRight'
    PROVE  Basic'
<1>1. /\ disk' = change /\ ~clean' /\ clean' \in BOOLEAN
      /\ UNCHANGED <<db, remote, ignored, known, pc, subs, snap, listed, hashing, found, batch, removals, row, toIgnore, suspect, forced, forcing>>
  BY DEF DiskChanged, scanning, scope, walking, passing, rescans
<1>2. Grows
  BY <1>1 DEF Grows, Basic, Types
<1>3. DatabaseRight' /\ RemoteRight' /\ SnapshotRight' /\ WalkRight' /\ BatchRight'
  BY <1>1, <1>2, RecordsLast
<1>4. Types'
  BY <1>1, <1>2 DEF Basic, Types, Grows
<1>5. Resting'
  BY <1>1 DEF Basic, Resting, Nothing, Paths
<1>6. ForcedRight'
  BY <1>1 DEF Basic, ForcedRight
<1> QED
  BY <1>3, <1>4, <1>5, <1>6 DEF Basic

\* Nothing is in what is no directory.
LEMMA OnlyInDirectories ==
    ASSUME Configured, Basic, NEW p \in Paths, disk[p] # Directory \/ NothingBelow(p), NEW q \in Below(p)
    PROVE  disk[q] = Absent
<1>1. PICK c \in Children(p) : c \in Chain(q)
  BY ChildIsThere
<1>2. q \in Paths /\ p \in Above[q]
  BY DEF Below
<1>3. disk[q] # Absent => disk[p] = Directory /\ (c = q \/ disk[c] = Directory)
  BY <1>1, <1>2 DEF Basic, DiskRight, DirectoryThere, Chain
<1>4. Directory # Absent
  BY DEF Directory, Absent, Item
<1> QED
  BY <1>1, <1>3, <1>4 DEF NothingBelow

\* A change at one path keeps the tree if what is there is in directories and has nothing in it,
\* or stays a directory.
LEMMA TreeLasts ==
    ASSUME Configured, Basic, NEW p \in Paths, NEW i \in Items, disk' = [disk EXCEPT ![p] = i],
           clock' \in Nat, clock <= clock', Plain(i), i.stat <= clock', i # Absent => DirectoryThere(p),
           disk[p] # Directory \/ NothingBelow(p)
    PROVE  DiskRight' /\ disk' \in [Paths -> Items]
<1>1. disk \in [Paths -> Items] /\ clock \in Nat
  BY DEF Basic, Types
<1>2. disk' \in [Paths -> Items] /\ disk'[p] = i /\ \A q \in Paths \ {p} : disk'[q] = disk[q]
  BY <1>1
<1>3. ASSUME NEW q \in Paths PROVE Plain(disk'[q]) /\ disk'[q].stat <= clock'
  <2>1. CASE q = p
    BY <1>2, <2>1
  <2>2. CASE q # p
    <3>1. Plain(disk[q]) /\ disk[q].stat <= clock /\ disk[q].stat \in Nat
      BY <1>1 DEF Basic, DiskRight, Items
    <3> QED
      BY <1>1, <1>2, <2>2, <3>1
  <2> QED
    BY <2>1, <2>2
<1>4. ASSUME NEW q \in Paths, disk'[q] # Absent, NEW a \in Above[q] PROVE disk'[a] = Directory
  <2>1. a \in Paths /\ q # a
    BY Nested
  <2>2. CASE q = p
    BY <1>2, <1>4, <2>1, <2>2 DEF DirectoryThere
  <2>3. CASE q # p
    <3>1. disk[q] # Absent /\ disk[a] = Directory
      BY <1>2, <1>4, <2>3 DEF Basic, DiskRight, DirectoryThere
    <3>2. a # p
      BY <3>1, OnlyInDirectories, <1>4 DEF Below
    <3> QED
      BY <1>2, <2>1, <3>1, <3>2
  <2> QED
    BY <2>2, <2>3
<1> QED
  BY <1>2, <1>3, <1>4 DEF DiskRight, DirectoryThere

\* A file of some time is one that can be on disk.
LEMMA FileIs == ASSUME NEW n \in Nat PROVE Item("file", n, n) \in Items /\ Plain(Item("file", n, n)) /\ Item("file", n, n).stat = n
  BY DEF Item, Items, Kinds, Plain, Directory, Absent

\* Of directories and what is absent there is only the kind.
LEMMA TheseArePlain == Plain(Absent) /\ Plain(Directory) /\ Absent.stat = 0 /\ Directory.stat = 0 /\ Directory # Absent
                       /\ Absent.kind = "absent" /\ Directory.kind = "dir"
  BY DEF Plain, Absent, Directory, Item

\* A file that is written has a new size and time.
LEMMA WriteBasic == ASSUME Configured, Basic, NEW p \in Paths, Write(p) PROVE Basic'
<1> DEFINE i == Item("file", clock + 1, clock + 1)
<1>1. clock \in Nat /\ clock' \in Nat /\ clock <= clock' /\ clock' = clock + 1 /\ disk \in [Paths -> Items]
  BY DEF Write, Tick, Basic, Types
<1>2. i \in Items /\ Plain(i) /\ i.stat = clock + 1 /\ i.stat <= clock'
  BY <1>1, FileIs
<1>3. DiskChanged([disk EXCEPT ![p] = i]) /\ DirectoryThere(p) /\ disk[p] # Directory
  BY TheseArePlain DEF Write
<1> HIDE DEF i
<1>4. disk' = [disk EXCEPT ![p] = i]
  BY <1>3 DEF DiskChanged
<1>5. DiskRight' /\ disk' \in [Paths -> Items]
  BY <1>1, <1>2, <1>3, <1>4, TreeLasts, Zenon
<1>6. \A q \in Paths : Fresh(disk[q], disk'[q], clock)
  BY <1>1, <1>2, <1>4 DEF Fresh
<1> QED
  BY <1>1, <1>3, <1>4, <1>5, <1>6, DiskChangedBasic

\* A directory has no blocks.
LEMMA MakeDirectoryBasic == ASSUME Configured, Basic, NEW p \in Paths, MakeDirectory(p) PROVE Basic'
<1>1. clock \in Nat /\ clock' \in Nat /\ clock <= clock' /\ clock' = clock + 1 /\ disk \in [Paths -> Items]
  BY DEF MakeDirectory, Tick, Basic, Types
<1>2. DiskChanged([disk EXCEPT ![p] = Directory]) /\ DirectoryThere(p) /\ disk[p] # Directory
  BY TheseArePlain DEF MakeDirectory
<1>3. disk' = [disk EXCEPT ![p] = Directory]
  BY <1>2 DEF DiskChanged
<1>4. DiskRight' /\ disk' \in [Paths -> Items]
  <2>1. Directory \in Items /\ Plain(Directory) /\ Directory.stat <= clock'
    BY <1>1, TheseAre, TheseArePlain
  <2> QED
    BY <1>1, <1>2, <1>3, <2>1, TreeLasts, Zenon
<1>5. \A q \in Paths : Fresh(disk[q], disk'[q], clock)
  BY <1>1, <1>3, TheseArePlain DEF Fresh
<1> QED
  BY <1>1, <1>2, <1>3, <1>4, <1>5, DiskChangedBasic

\* Nothing is below what is deleted.
LEMMA DeleteBasic == ASSUME Configured, Basic, NEW p \in Paths, Delete(p) PROVE Basic'
<1>1. clock \in Nat /\ clock' \in Nat /\ clock <= clock' /\ clock' = clock + 1 /\ disk \in [Paths -> Items]
  BY DEF Delete, Tick, Basic, Types
<1>2. DiskChanged([disk EXCEPT ![p] = Absent]) /\ NothingBelow(p)
  BY DEF Delete
<1>3. disk' = [disk EXCEPT ![p] = Absent]
  BY <1>2 DEF DiskChanged
<1>4. DiskRight' /\ disk' \in [Paths -> Items]
  <2>1. Absent \in Items /\ Plain(Absent) /\ Absent.stat <= clock'
    BY <1>1, TheseAre, TheseArePlain
  <2> QED
    BY <1>1, <1>2, <1>3, <2>1, TreeLasts, Zenon
<1>5. \A q \in Paths : Fresh(disk[q], disk'[q], clock)
  BY <1>1, <1>3, TheseArePlain DEF Fresh
<1> QED
  BY <1>1, <1>2, <1>3, <1>4, <1>5, DiskChangedBasic

\* Data that changes while size and time stay is not looked at in this.
LEMMA CorruptBasic == ASSUME Configured, Basic, NEW p \in Paths, Corrupt(p) PROVE Basic'
<1> DEFINE i == [disk[p] EXCEPT !.data = -disk[p].data]
<1>1. clock \in Nat /\ clock' \in Nat /\ clock <= clock' /\ clock' = clock /\ disk \in [Paths -> Items] /\ disk[p] \in Items /\ disk[p].kind = "file"
  BY DEF Corrupt, Basic, Types
<1>2. i \in Items /\ i.kind = "file" /\ i.stat = disk[p].stat /\ i # Absent /\ i # Directory
  BY <1>1, TheseArePlain DEF Items
<1>3. Plain(i) /\ disk[p].stat <= clock /\ DirectoryThere(p) /\ disk[p] # Directory
  BY <1>1, <1>2, TheseArePlain DEF Plain, Basic, DiskRight
<1>4. DiskChanged([disk EXCEPT ![p] = i])
  <2>1. [disk EXCEPT ![p].data = -disk[p].data] = [disk EXCEPT ![p] = i]
    BY <1>1
  <2> QED
    BY <2>1 DEF Corrupt
<1>5. i = [disk[p] EXCEPT !.data = -disk[p].data]
  OBVIOUS
<1> HIDE DEF i
<1>6. disk' = [disk EXCEPT ![p] = i]
  BY <1>4 DEF DiskChanged
<1>7. DiskRight' /\ disk' \in [Paths -> Items]
  BY <1>1, <1>2, <1>3, <1>6, TreeLasts
<1>8. \A q \in Paths : Fresh(disk[q], disk'[q], clock)
  BY <1>1, <1>5, <1>6 DEF Fresh
<1> QED
  BY <1>1, <1>4, <1>6, <1>7, <1>8, DiskChangedBasic

\* A file that is renamed takes its size and time along, so nothing is said then.
LEMMA RenameBasic == ASSUME Configured, Basic, NEW p \in Paths, NEW q \in Paths, Rename(p, q) PROVE Basic'
<1> DEFINE d == [disk EXCEPT ![p] = Absent, ![q] = disk[p]]
<1>1. clock \in Nat /\ clock' \in Nat /\ clock <= clock' /\ clock' = clock + 1 /\ disk \in [Paths -> Items]
  BY DEF Rename, Tick, Basic, Types
<1>2. DiskChanged(d) /\ disk[p].kind = "file" /\ disk[q] = Absent /\ DirectoryThere(q) /\ Renaming
  BY DEF Rename
<1>3. p # q /\ disk[p] # Directory /\ disk[p] # Absent /\ disk[p] \in Items /\ disk[p].stat \in Nat /\ disk[p].stat <= clock /\ Plain(disk[p])
  BY <1>1, <1>2, TheseArePlain DEF Basic, DiskRight, Items
<1>4. d \in [Paths -> Items] /\ d[p] = Absent /\ d[q] = disk[p] /\ \A r \in Paths \ {p, q} : d[r] = disk[r]
  BY <1>1, <1>3, TheseAre
<1> HIDE DEF d
<1>5. disk' = d
  BY <1>2 DEF DiskChanged
<1>6. ASSUME NEW r \in Paths PROVE Plain(d[r]) /\ d[r].stat <= clock'
  <2>1. CASE r \in {p, q}
    BY <1>1, <1>3, <1>4, <2>1, TheseArePlain
  <2>2. CASE r \notin {p, q}
    <3>1. Plain(disk[r]) /\ disk[r].stat <= clock /\ disk[r].stat \in Nat
      BY <1>1 DEF Basic, DiskRight, Items
    <3> QED
      BY <1>1, <1>4, <2>2, <3>1
  <2> QED
    BY <2>1, <2>2
<1>7. ASSUME NEW r \in Paths, d[r] # Absent, NEW a \in Above[r] PROVE d[a] = Directory
  <2>1. a \in Paths /\ r # a
    BY Nested
  <2>2. disk[a] = Directory
    <3>1. CASE r = q
      BY <1>2, <3>1, <1>7 DEF DirectoryThere
    <3>2. CASE r # q
      BY <1>4, <1>7, <3>2 DEF Basic, DiskRight, DirectoryThere
    <3> QED
      BY <3>1, <3>2
  <2>3. a # p /\ a # q
    BY <1>2, <1>3, <2>2, TheseArePlain
  <2> QED
    BY <1>4, <2>1, <2>2, <2>3
<1>8. DiskRight'
  BY <1>5, <1>6, <1>7 DEF DiskRight, DirectoryThere
<1>9. \A r \in Paths : Fresh(disk[r], d[r], clock)
  BY <1>2 DEF Fresh
<1> QED
  BY <1>1, <1>2, <1>4, <1>8, <1>9, DiskChangedBasic

-----------------------------------------------------------------------------
(* What else happens outside *)

\* Records that stay, while nothing changes on disk, remain right.
LEMMA StaysBasic ==
    ASSUME Basic, ignored' \subseteq Paths,
           UNCHANGED <<disk, db, remote, clock, known, pc, subs, snap, listed, hashing, found, batch, removals, row, toIgnore,
                       suspect, forced, forcing, clean>>
    PROVE  Basic'
<1>1. Grows
  BY GrowsWhenKnown
<1>2. DatabaseRight' /\ RemoteRight' /\ SnapshotRight' /\ WalkRight' /\ BatchRight'
  BY <1>1, RecordsLast
<1>3. Types' /\ Resting'
  BY DEF Basic, Types, Resting, Nothing, Paths
<1>4. DiskRight'
  BY DiskLasts
<1>5. ForcedRight'
  BY DEF Basic, ForcedRight
<1> QED
  BY <1>2, <1>3, <1>4, <1>5 DEF Basic

\* The other device's files may change, and time goes by, and rescans are asked for.
LEMMA OutsideBasic ==
    ASSUME Basic, UNCHANGED <<disk, db, ignored, known, clean, scanning>>, clock' = clock \/ clock' = clock + 1,
           remote' \in [Paths -> AllFiles], RemoteRight', forced' \subseteq Paths, ForcedRight'
    PROVE  Basic'
<1>1. Grows
  BY GrowsWhenKnown
<1>2. UNCHANGED <<pc, subs, snap, listed, hashing, found, batch, removals, row, toIgnore, forcing>>
  BY DEF scanning, scope, walking, passing
<1>3. DatabaseRight' /\ SnapshotRight' /\ WalkRight' /\ BatchRight'
  BY <1>1, <1>2, RecordsLast
<1>4. Types'
  BY <1>1, <1>2 DEF Basic, Types, Grows
<1>5. Resting'
  BY <1>2 DEF Basic, Resting, Nothing, Paths
<1>6. DiskRight'
  BY DiskLasts
<1> QED
  BY <1>3, <1>4, <1>5, <1>6 DEF Basic

\* The patterns are no part of the records.
LEMMA ChangePatternsBasic == ASSUME Basic, NEW p \in Paths, ChangePatterns(p) PROVE Basic'
<1>1. ignored' \subseteq Paths
  BY DEF ChangePatterns, Basic, Types
<1> QED
  BY <1>1, StaysBasic DEF ChangePatterns, scanning, scope, walking, passing, rescans

\* Nor is whether the folder passes its checks.
LEMMA ChangeHealthBasic == ASSUME Basic, ChangeHealth PROVE Basic'
<1>1. ignored' \subseteq Paths
  BY DEF ChangeHealth, Basic, Types
<1> QED
  BY <1>1, StaysBasic DEF ChangeHealth, scanning, scope, walking, passing, rescans

\* A change of the other device has a time that nothing on disk has had.
LEMMA ChangeRemoteBasic == ASSUME Basic, NEW p \in Paths, ChangeRemote(p) PROVE Basic'
<1> DEFINE v == <<remote[p].version[1], Maximum(remote[p].version[2] + 1, clock + 1)>>
           i(deleted) == Item("file", clock + 1, IF deleted THEN 0 ELSE clock + 1)
           g(deleted) == [item |-> i(deleted), deleted |-> deleted, flag |-> "none", version |-> v]
<1>1. PICK deleted \in BOOLEAN : remote' = [remote EXCEPT ![p] = g(deleted)]
  BY DEF ChangeRemote
<1>2. UNCHANGED <<disk, db, ignored, known, clean, scanning, suspect, forced>> /\ clock' = clock + 1
  BY DEF ChangeRemote, Tick, rescans
<1>3. clock \in Nat /\ remote[p] \in AllFiles /\ remote \in [Paths -> AllFiles] /\ disk[p] \in Items /\ disk[p].stat <= clock
      /\ remote[p].version \in Nat \X Nat /\ remote[p].version[2] <= clock
  BY DEF Basic, Types, DiskRight, RemoteRight, OtherFile, Sized, AllFiles
<1>4. v \in Nat \X Nat /\ v[2] = clock + 1
  BY <1>3 DEF Maximum
<1>5. i(deleted) \in Items /\ i(deleted).kind = "file" /\ i(deleted).stat = clock + 1
  BY <1>3 DEF Item, Items, Kinds
<1> HIDE DEF v, i
<1>6. /\ g(deleted) \in AllFiles /\ g(deleted).flag = "none" /\ g(deleted).item = i(deleted) /\ g(deleted).version = v
      /\ g(deleted).deleted = deleted
  BY <1>4, <1>5 DEF AllFiles, Flags
<1> HIDE DEF g
<1>7. OtherFile(g(deleted), disk[p], clock + 1)
  <2>1. Shaped(g(deleted)) /\ Own(g(deleted))
    BY <1>4, <1>5, <1>6 DEF Shaped, Own
  <2>2. Sized(g(deleted), clock + 1)
    BY <1>3, <1>4, <1>5, <1>6 DEF Sized
  <2>3. disk[p].stat # g(deleted).item.stat
    BY <1>3, <1>5, <1>6 DEF Items
  <2>4. Fits(g(deleted), disk[p])
    BY <2>3 DEF Fits
  <2> QED
    BY <1>6, <2>1, <2>2, <2>4 DEF OtherFile
<1>8. Grows
  BY <1>2, GrowsWhenKnown
<1>9. ASSUME NEW q \in Paths PROVE OtherFile(remote'[q], disk'[q], clock')
  <2>1. CASE q = p
    BY <1>1, <1>2, <1>3, <1>7, <2>1
  <2>2. CASE q # p
    <3>1. remote'[q] = remote[q] /\ OtherFile(remote[q], disk[q], clock)
      BY <1>1, <1>3, <2>2 DEF Basic, RemoteRight
    <3>2. disk[q] \in Items /\ disk'[q] = disk[q] /\ clock <= clock' /\ clock' \in Nat /\ Fresh(disk[q], disk[q], clock)
      BY <1>2, <1>3 DEF Basic, Types, Fresh
    <3> QED
      BY <1>3, <3>1, <3>2, FilesLast
  <2> QED
    BY <2>1, <2>2
<1>10. remote' \in [Paths -> AllFiles]
  BY <1>1, <1>3, <1>6
<1>11. RemoteRight'
  BY <1>9 DEF RemoteRight
<1>12. ForcedRight' /\ forced' \subseteq Paths
  BY <1>2 DEF Basic, ForcedRight, Types
<1> QED
  BY <1>2, <1>10, <1>11, <1>12, OutsideBasic

\* The other device takes a file that is right.
LEMMA TakeRemoteBasic == ASSUME Basic, NEW p \in Paths, TakeRemote(p) PROVE Basic'
<1>1. UNCHANGED <<disk, db, ignored, known, clean, scanning, suspect, forced, clock>> /\ remote' = [remote EXCEPT ![p] = db[p]]
  BY DEF TakeRemote, rescans
<1>2. LocalFile(db[p], disk[p], clock, known[p]) /\ db[p].flag = "none" /\ remote \in [Paths -> AllFiles]
  BY DEF TakeRemote, Invalid, Basic, DatabaseRight, Types
<1>3. OtherFile(db[p], disk[p], clock)
  BY <1>2 DEF LocalFile, OtherFile
<1>4. remote' \in [Paths -> AllFiles]
  BY <1>1, <1>2 DEF LocalFile
<1>5. RemoteRight'
  BY <1>1, <1>2, <1>3 DEF Basic, RemoteRight
<1>6. ForcedRight' /\ forced' \subseteq Paths
  BY <1>1 DEF Basic, ForcedRight, Types
<1> QED
  BY <1>1, <1>4, <1>5, <1>6, OutsideBasic

\* A file that is to be hashed again is valid when it is asked for.
LEMMA RecheckBasic ==
    ASSUME Basic, NEW p \in Paths, Recheck(p) \/ ScheduleForceRescan(p)
    PROVE  Basic'
<1>1. UNCHANGED <<disk, db, ignored, known, clean, scanning, clock, remote>> /\ forced' \subseteq Paths
  BY DEF Recheck, ScheduleForceRescan, outside, Basic, Types
<1>2. ForcedRight'
  BY <1>1 DEF Recheck, ScheduleForceRescan, Basic, ForcedRight, Invalid
<1>3. RemoteRight' /\ remote' \in [Paths -> AllFiles]
  BY <1>1 DEF Basic, RemoteRight, Types
<1> QED
  BY <1>1, <1>2, <1>3, OutsideBasic

-----------------------------------------------------------------------------
(* What begins and ends a scan *)

\* A scan that is asked for has yet to begin.
LEMMA StartScanBasic == ASSUME Basic, NEW ps, ps \subseteq Paths, StartScan(ps) PROVE Basic'
<1>1. /\ UNCHANGED <<disk, db, remote, ignored, clock, known, snap, listed, hashing, found, batch, removals, row, toIgnore,
                     suspect, forced, forcing, clean>>
      /\ pc = "idle" /\ pc' = "begin" /\ subs' = ps
  BY DEF StartScan, outside, walking, passing, rescans
<1>2. Grows
  BY <1>1, GrowsWhenKnown
<1>3. DatabaseRight' /\ RemoteRight' /\ SnapshotRight' /\ WalkRight' /\ BatchRight'
  BY <1>1, <1>2, RecordsLast
<1>4. Types' /\ Resting'
  BY <1>1 DEF Basic, Types, Resting, Nothing, Paths
<1>5. DiskRight'
  BY <1>1, DiskLasts
<1>6. ForcedRight'
  BY <1>1 DEF Basic, ForcedRight
<1> QED
  BY <1>3, <1>4, <1>5, <1>6 DEF Basic

\* Files that are marked to be hashed again claim what they claimed before.
LEMMA HandleForcedRescansBasic == ASSUME Basic, HandleForcedRescans PROVE Basic'
<1>1. /\ UNCHANGED <<disk, remote, ignored, clock, known, snap, listed, hashing, found, batch, removals, row, toIgnore,
                     suspect, clean>>
      /\ pc = "idle" /\ pc' = "begin" /\ subs' = forced /\ forcing' = forced /\ forced' = {}
      /\ db' = [p \in Paths |-> IF p \in forced /\ db[p] # NoFile THEN Flagged(db[p], "mustrescan") ELSE db[p]]
  BY DEF HandleForcedRescans, outside, walking, passing
<1>2. Grows
  BY <1>1, GrowsWhenKnown
<1>3. RemoteRight' /\ SnapshotRight' /\ WalkRight' /\ BatchRight'
  BY <1>1, <1>2, RecordsLast
<1>4. ASSUME NEW p \in Paths PROVE LocalFile(db'[p], disk[p], clock, known[p])
  <2>1. LocalFile(db[p], disk[p], clock, known[p]) /\ disk[p] \in Items /\ known[p] \in Nat /\ clock \in Nat
    BY DEF Basic, DatabaseRight, Types
  <2>2. CASE p \in forced /\ db[p] # NoFile
    <3>1. ~RecheckApart => db[p].flag # "ignored" /\ Knows(db[p], known[p])
      BY <2>1, <2>2 DEF Basic, ForcedRight, LocalFile
    <3>2. LocalFile(Flagged(db[p], "mustrescan"), disk[p], clock, known[p])
      BY <2>1, <2>2, <3>1, FlaggedIs DEF LocalFile
    <3> QED
      BY <1>1, <2>2, <3>2
  <2>3. CASE ~(p \in forced /\ db[p] # NoFile)
    BY <1>1, <2>1, <2>3
  <2> QED
    BY <2>2, <2>3
<1>5. DatabaseRight' /\ db' \in [Paths -> AllFiles]
  BY <1>1, <1>4 DEF DatabaseRight, LocalFile
<1>6. Types'
  BY <1>1, <1>5 DEF Basic, Types
<1>7. Resting'
  BY <1>1 DEF Basic, Resting, Nothing, Paths
<1>8. DiskRight'
  BY <1>1, DiskLasts
<1>9. ForcedRight'
  BY <1>1 DEF Basic, ForcedRight
<1> QED
  BY <1>3, <1>5, <1>6, <1>7, <1>8, <1>9 DEF Basic

\* A file of the other device is one for this device, once that knows of it.
LEMMA TakenIs ==
    ASSUME NEW i \in Items, NEW j \in Items, NEW c \in Nat, NEW g, OtherFile(g, i, c), j = g.item \/ j.kind # "file" \/ j = i
    PROVE  /\ g.version[2] \in Nat /\ LocalFile(g, j, c, g.version[2]) /\ OtherFile(g, j, c)
<1>1. g.item \in Items /\ g.item.data \in Int /\ g.version[2] \in Nat
  BY DEF OtherFile, AllFiles, Items
<1>2. Fits(g, j)
  BY <1>1 DEF OtherFile, Fits
<1> QED
  BY <1>1, <1>2 DEF OtherFile, LocalFile, Knows

\* What is pulled is on disk as it is on record, and its changes are known.
LEMMA PullBasic == ASSUME Configured, Basic, NEW p \in Paths, Pull(p) PROVE Basic'
<1> DEFINE g == remote[p]
<1>1. /\ UNCHANGED <<remote, ignored, clock, pc, subs, snap, listed, hashing, found, batch, removals, row, toIgnore, suspect,
                     forcing, clean>>
      /\ pc = "idle" /\ g # NoFile /\ forced' = forced \ {p}
      /\ \/ db' = [db EXCEPT ![p] = Flagged(g, "ignored")] /\ UNCHANGED <<disk, known>>
         \/ /\ DirectoryThere(p) /\ NothingBelow(p)
            /\ disk' = [disk EXCEPT ![p] = IF g.deleted THEN Absent ELSE g.item]
            /\ db' = [db EXCEPT ![p] = g]
            /\ known' = [known EXCEPT ![p] = g.version[2]]
  BY DEF Pull, Needed, scanning, scope, walking, passing
<1>2. /\ disk \in [Paths -> Items] /\ db \in [Paths -> AllFiles] /\ known \in [Paths -> Nat] /\ clock \in Nat
      /\ remote \in [Paths -> AllFiles] /\ \A q \in Paths : OtherFile(remote[q], disk[q], clock)
      /\ \A q \in Paths : LocalFile(db[q], disk[q], clock, known[q])
  BY DEF Basic, Types, RemoteRight, DatabaseRight
<1>3. OtherFile(g, disk[p], clock) /\ g \in AllFiles /\ disk[p] \in Items /\ known[p] \in Nat
  BY <1>2 DEF OtherFile
<1>4. g.item \in Items /\ g.item.stat <= clock /\ (~g.deleted => Plain(g.item))
  BY <1>1, <1>3, TheseArePlain DEF OtherFile, AllFiles, Shaped, Sized, Plain
<1>5. Flagged(g, "ignored") \in AllFiles /\ LocalFile(Flagged(g, "ignored"), disk[p], clock, known[p])
  <2>1. LocalFile(Flagged(g, "ignored"), disk[p], clock, known[p])
    BY <1>1, <1>2, <1>3, FlaggedIs DEF OtherFile
  <2> QED
    BY <2>1 DEF LocalFile
<1> HIDE DEF g
<1>6. /\ disk' \in [Paths -> Items] /\ db' \in [Paths -> AllFiles] /\ known' \in [Paths -> Nat] /\ DiskRight'
      /\ \A q \in Paths : LocalFile(db'[q], disk'[q], clock, known'[q]) /\ OtherFile(remote[q], disk'[q], clock)
  <2>1. CASE db' = [db EXCEPT ![p] = Flagged(g, "ignored")] /\ UNCHANGED <<disk, known>>
    <3>1. DiskRight'
      BY <1>1, <2>1, DiskLasts
    <3> QED
      BY <1>2, <1>5, <2>1, <3>1
  <2>2. CASE /\ DirectoryThere(p) /\ NothingBelow(p)
             /\ disk' = [disk EXCEPT ![p] = IF g.deleted THEN Absent ELSE g.item]
             /\ db' = [db EXCEPT ![p] = g]
             /\ known' = [known EXCEPT ![p] = g.version[2]]
    <3> DEFINE i == IF g.deleted THEN Absent ELSE g.item
    <3>1. i \in Items /\ Plain(i) /\ i.stat <= clock /\ (i = g.item \/ i.kind # "file" \/ i = disk[p])
      BY <1>2, <1>4, TheseAre, TheseArePlain
    <3>2. disk' = [disk EXCEPT ![p] = i]
      BY <2>2
    <3> HIDE DEF i
    <3>3. clock' \in Nat /\ clock <= clock' /\ i.stat <= clock'
      BY <1>1, <1>2, <3>1
    <3>4. DiskRight' /\ disk' \in [Paths -> Items]
      BY <2>2, <3>1, <3>2, <3>3, TreeLasts, Zenon
    <3>5. g.version[2] \in Nat /\ LocalFile(g, i, clock, g.version[2]) /\ OtherFile(g, i, clock)
      BY <1>2, <1>3, <3>1, TakenIs
    <3> QED
      BY <1>2, <1>3, <2>2, <3>2, <3>4, <3>5 DEF g
  <2> QED
    BY <1>1, <2>1, <2>2
<1>7. DatabaseRight' /\ RemoteRight'
  BY <1>1, <1>6 DEF DatabaseRight, RemoteRight
<1>8. /\ listed' = {} /\ hashing' = {} /\ found' = {} /\ batch' = NoChanges /\ removals' = {} /\ toIgnore' = {}
      /\ snap' = [local |-> Nothing, remote |-> Nothing] /\ ~clean' /\ forcing' = {} /\ Nothing' = Nothing
  BY <1>1 DEF Basic, Resting, Nothing, Paths
<1>9. SnapshotRight' /\ WalkRight' /\ BatchRight'
  <2>1. \A q \in Paths : LocalFile(NoFile, disk'[q], clock', known'[q]) /\ OtherFile(NoFile, disk'[q], clock')
    BY <1>1, <1>2, <1>6, NoFileIs
  <2>2. \A q \in Paths : Nothing[q] = NoFile
    BY DEF Nothing
  <2>3. DOMAIN batch' = {}
    BY <1>8 DEF NoChanges
  <2> QED
    BY <1>8, <2>1, <2>2, <2>3 DEF SnapshotRight, WalkRight, BatchRight
<1>10. Types'
  BY <1>1, <1>6 DEF Basic, Types
<1>11. Resting'
  BY <1>1, <1>8 DEF Resting
<1>12. ForcedRight'
  BY <1>1, <1>2 DEF Basic, ForcedRight, Types
<1> QED
  BY <1>6, <1>7, <1>9, <1>10, <1>11, <1>12 DEF Basic

-----------------------------------------------------------------------------
(* The scan *)

\* The end of a scan.
LEMMA ScanOverBasic ==
    ASSUME Basic, ScanOver, batch' = NoChanges, removals' = {}, UNCHANGED <<outside, suspect, known>>,
           db' \in [Paths -> AllFiles], DatabaseRight', forced' \subseteq Paths, ForcedRight'
    PROVE  Basic'
<1>1. UNCHANGED <<disk, remote, ignored, clock, known, suspect>>
  BY DEF outside
<1>2. Grows
  BY <1>1, GrowsWhenKnown
<1>3. RemoteRight'
  BY <1>1, <1>2, RecordsLast
<1>4. /\ pc' = "idle" /\ subs' = {} /\ snap' = [local |-> Nothing, remote |-> Nothing] /\ listed' = {} /\ hashing' = {}
      /\ found' = {} /\ row' = 1 /\ toIgnore' = {} /\ forcing' = {} /\ clean' = FALSE
  BY DEF ScanOver, Nothing
<1>5. Nothing \in [Paths -> AllFiles] /\ (\A p \in Paths : Nothing[p] = NoFile) /\ Nothing' = Nothing
  BY TheseAre DEF Nothing, Paths
<1>6. SnapshotRight' /\ WalkRight' /\ BatchRight'
  <2>1. \A q \in Paths : LocalFile(NoFile, disk'[q], clock', known'[q]) /\ OtherFile(NoFile, disk'[q], clock')
    BY <1>1, NoFileIs DEF Basic, Types
  <2>2. DOMAIN batch' = {}
    BY DEF NoChanges
  <2> QED
    BY <1>4, <1>5, <2>1, <2>2 DEF SnapshotRight, WalkRight, BatchRight
<1>7. Types'
  <2>1. /\ subs' \subseteq Paths /\ listed' \subseteq Paths /\ hashing' \subseteq Paths \X AllFiles /\ found' \subseteq Paths \X AllFiles
        /\ toIgnore' \subseteq Paths /\ forcing' \subseteq Paths /\ removals' \subseteq Paths /\ DOMAIN batch' \subseteq Paths
    BY <1>4 DEF NoChanges
  <2>2. snap' \in [local : [Paths -> AllFiles], remote : [Paths -> AllFiles]] /\ row' \in Nat \ {0}
    BY <1>4, <1>5
  <2> QED
    BY <1>1, <1>4, <2>1, <2>2 DEF Basic, Types
<1>8. Resting'
  BY <1>4, <1>5 DEF Resting
<1>9. DiskRight'
  BY <1>1, DiskLasts
<1> QED
  BY <1>3, <1>6, <1>7, <1>8, <1>9 DEF Basic

\* What is written to the database.
LEMMA AppliedIs ==
    ASSUME Basic, NEW rest \in [Paths -> AllFiles], \A p \in Paths : rest[p] \in {NoFile, db[p]}
    PROVE  /\ rest \in [Paths -> AllFiles] /\ Applied(rest, batch) \in [Paths -> AllFiles]
           /\ \A p \in Paths : /\ LocalFile(rest[p], disk[p], clock, known[p])
                               /\ LocalFile(Applied(rest, batch)[p], disk[p], clock, known[p])
                               /\ p \notin DOMAIN batch => Applied(rest, batch)[p] = rest[p]
<1>1. ASSUME NEW p \in Paths PROVE LocalFile(rest[p], disk[p], clock, known[p])
  <2>1. LocalFile(NoFile, disk[p], clock, known[p])
    BY NoFileIs DEF Basic, Types
  <2> QED
    BY <2>1 DEF Basic, DatabaseRight
<1>2. \A p \in Paths : LocalFile(Applied(rest, batch)[p], disk[p], clock, known[p])
  BY <1>1 DEF Applied, Basic, BatchRight
<1>3. Applied(rest, batch) \in [Paths -> AllFiles]
  BY <1>2 DEF Applied, LocalFile
<1> QED
  BY <1>1, <1>2, <1>3 DEF Applied

\* What is written is right, as the batch was.
LEMMA FlushIs ==
    ASSUME Basic, FlushAll, UNCHANGED <<disk, clock, known, suspect>>
    PROVE  /\ db' \in [Paths -> AllFiles] /\ DatabaseRight' /\ forced' \subseteq Paths /\ ForcedRight'
           /\ batch' = NoChanges /\ removals' = {}
<1> DEFINE rest == [p \in Paths |-> IF p \in removals THEN NoFile ELSE db[p]]
<1>1. rest \in [Paths -> AllFiles] /\ \A p \in Paths : rest[p] \in {NoFile, db[p]}
  BY TheseAre DEF Basic, Types
<1>2. /\ db' = IF Written THEN Applied(rest, batch) ELSE rest
      /\ forced' = IF Written THEN forced \ DOMAIN batch ELSE forced
      /\ batch' = NoChanges /\ removals' = {}
  BY DEF FlushAll
<1> HIDE DEF rest
<1>3. /\ rest \in [Paths -> AllFiles] /\ Applied(rest, batch) \in [Paths -> AllFiles]
      /\ \A p \in Paths : /\ LocalFile(rest[p], disk[p], clock, known[p])
                          /\ LocalFile(Applied(rest, batch)[p], disk[p], clock, known[p])
                          /\ p \notin DOMAIN batch => Applied(rest, batch)[p] = rest[p]
  BY <1>1, AppliedIs
<1>4. db' \in [Paths -> AllFiles] /\ DatabaseRight'
  BY <1>2, <1>3 DEF DatabaseRight
<1>5. forced' \subseteq forced /\ \A p \in forced' : db'[p] \in {NoFile, db[p]}
  BY <1>1, <1>2, <1>3 DEF Basic, Types
<1>6. ForcedRight'
  BY <1>5 DEF Basic, ForcedRight, NoFile
<1> QED
  BY <1>2, <1>4, <1>5, <1>6 DEF Basic, Types

\* A scan that fails leaves the records as they are.
LEMMA ScanFailsBasic == ASSUME Basic, ScanFails PROVE Basic'
<1>1. /\ ScanOver /\ UNCHANGED <<outside, suspect, known, db, forced, batch, removals, disk, clock>> /\ pc = "begin"
  BY DEF ScanFails, rescans, outside
<1>2. batch' = NoChanges /\ removals' = {}
  BY <1>1 DEF Basic, Resting
<1>3. DatabaseRight' /\ ForcedRight' /\ db' \in [Paths -> AllFiles] /\ forced' \subseteq Paths
  BY <1>1 DEF Basic, DatabaseRight, ForcedRight, Types
<1> QED
  BY <1>1, <1>2, <1>3, ScanOverBasic

\* So does one that is stopped.
LEMMA StopBasic == ASSUME Basic, Stop PROVE Basic'
<1>1. /\ ScanOver /\ UNCHANGED <<outside, suspect, known, db, forced, disk, clock>> /\ batch' = NoChanges /\ removals' = {}
  BY DEF Stop, rescans, outside
<1>2. DatabaseRight' /\ ForcedRight' /\ db' \in [Paths -> AllFiles] /\ forced' \subseteq Paths
  BY <1>1 DEF Basic, DatabaseRight, ForcedRight, Types
<1> QED
  BY <1>1, <1>2, ScanOverBasic

\* At its end a scan writes what is in the batch.
LEMMA EndScanBasic == ASSUME Basic, EndScan PROVE Basic'
<1>1. /\ FlushAll /\ ScanOver /\ UNCHANGED <<outside, suspect, known>> /\ UNCHANGED <<disk, clock, known, suspect>>
  BY DEF EndScan, outside
<1> QED
  BY <1>1, FlushIs, ScanOverBasic

\* A full batch is written, or dropped with the scan.
LEMMA FlushIfFullBasic == ASSUME Basic, FlushIfFull PROVE Basic'
<1>1. UNCHANGED <<outside, suspect, known>> /\ UNCHANGED <<disk, clock, remote, ignored>> /\ batch' = NoChanges /\ pc \in {"walk", "delete"}
  BY DEF FlushIfFull, outside
<1>2. CASE ScanOver /\ removals' = {} /\ UNCHANGED <<db, forced>>
  <2>1. DatabaseRight' /\ ForcedRight' /\ db' \in [Paths -> AllFiles] /\ forced' \subseteq Paths
    BY <1>1, <1>2 DEF Basic, DatabaseRight, ForcedRight, Types
  <2> QED
    BY <1>1, <1>2, <2>1, ScanOverBasic
<1>3. CASE db' = Applied(db, batch) /\ forced' = forced \ DOMAIN batch /\ UNCHANGED <<walking, passing, scope, removals, clean>>
  <2>1. UNCHANGED <<disk, remote, ignored, clock, known, suspect, pc, subs, snap, listed, hashing, found, removals, row, toIgnore, forcing, clean>>
    BY <1>1, <1>3 DEF walking, passing, scope
  <2>2. Grows
    BY <2>1, GrowsWhenKnown
  <2>3. RemoteRight' /\ SnapshotRight' /\ WalkRight'
    BY <2>1, <2>2, RecordsLast
  <2>4. BatchRight' /\ DOMAIN batch' \subseteq Paths
    BY <1>1 DEF BatchRight, NoChanges
  <2>5. /\ Applied(db, batch) \in [Paths -> AllFiles]
        /\ \A p \in Paths : /\ LocalFile(Applied(db, batch)[p], disk[p], clock, known[p])
                            /\ p \notin DOMAIN batch => Applied(db, batch)[p] = db[p]
    BY AppliedIs DEF Basic, Types
  <2>6. DatabaseRight' /\ db' \in [Paths -> AllFiles]
    BY <1>3, <2>1, <2>5 DEF DatabaseRight
  <2>7. ForcedRight' /\ forced' \subseteq Paths
    BY <1>3, <2>1, <2>5 DEF Basic, ForcedRight, Types
  <2>8. Types'
    BY <2>1, <2>4, <2>6, <2>7 DEF Basic, Types
  <2>9. Resting'
    BY <1>1, <2>1 DEF Basic, Resting
  <2>10. DiskRight'
    BY <2>1, DiskLasts
  <2> QED
    BY <2>3, <2>4, <2>6, <2>7, <2>8, <2>9, <2>10 DEF Basic
<1> QED
  BY <1>2, <1>3 DEF FlushIfFull

\* What is unified are paths.
LEMMA UnifiedIs == ASSUME Configured, NEW ps, ps \subseteq Paths PROVE UnifySubs(ps) \subseteq Paths
<1>1. \A p \in Paths : Unified(p) \subseteq Paths
  BY Nested DEF Unified
<1> QED
  BY <1>1 DEF UnifySubs

\* The snapshot is the database as it is.
LEMMA BeginScanBasic == ASSUME Configured, Basic, BeginScan PROVE Basic'
<1>1. /\ UNCHANGED <<disk, db, remote, ignored, clock, known, suspect, forced, forcing>> /\ pc' = "walk"
      /\ subs' = UnifySubs(subs) /\ listed' \subseteq Top \cup UnifySubs(subs) /\ clean' = TRUE
      /\ hashing' = {} /\ found' = {} /\ batch' = NoChanges /\ removals' = {} /\ row' = 1 /\ toIgnore' = {}
      /\ snap' = [local |-> db, remote |-> remote]
  BY DEF BeginScan, outside, rescans
<1>2. Grows
  BY <1>1, GrowsWhenKnown
<1>3. RemoteRight' /\ DatabaseRight'
  BY <1>1, <1>2, RecordsLast
<1>4. SnapshotRight'
  BY <1>1 DEF Basic, SnapshotRight, DatabaseRight, RemoteRight
<1>5. WalkRight' /\ BatchRight'
  BY <1>1 DEF WalkRight, BatchRight, NoChanges
<1>6. Types'
  <2>1. /\ hashing' \subseteq Paths \X AllFiles /\ found' \subseteq Paths \X AllFiles
        /\ toIgnore' \subseteq Paths /\ removals' \subseteq Paths /\ DOMAIN batch' \subseteq Paths
    BY <1>1 DEF NoChanges
  <2>2. listed' \subseteq Paths /\ subs' \subseteq Paths
    BY <1>1, UnifiedIs DEF Basic, Types, Top
  <2> QED
    BY <1>1, <2>1, <2>2 DEF Basic, Types
<1>7. Resting'
  BY <1>1 DEF Resting
<1>8. DiskRight'
  BY <1>1, DiskLasts
<1>9. ForcedRight'
  BY <1>1 DEF Basic, ForcedRight
<1> QED
  BY <1>3, <1>4, <1>5, <1>6, <1>7, <1>8, <1>9 DEF Basic

\* The walk: nothing changes but what it works with.
LEMMA WalkBasic ==
    ASSUME Basic, pc = "walk", UNCHANGED <<outside, passing, db, scope, batch, removals, rescans, known>>,
           listed' \subseteq Paths, hashing' \subseteq Paths \X AllFiles, found' \subseteq Paths \X AllFiles,
           WalkRight', clean' \in BOOLEAN
    PROVE  Basic'
<1>1. UNCHANGED <<disk, remote, ignored, clock, row, toIgnore, db, pc, subs, snap, forcing, batch, removals, suspect, forced, known>>
  BY DEF outside, passing, scope, rescans
<1>2. Grows
  BY <1>1, GrowsWhenKnown
<1>3. DatabaseRight' /\ RemoteRight' /\ SnapshotRight' /\ BatchRight'
  BY <1>1, <1>2, RecordsLast
<1>4. Types'
  BY <1>1 DEF Basic, Types
<1>5. Resting'
  BY <1>1 DEF Basic, Resting
<1>6. DiskRight'
  BY <1>1, DiskLasts
<1>7. ForcedRight'
  BY <1>1 DEF Basic, ForcedRight
<1> QED
  BY <1>3, <1>4, <1>5, <1>6, <1>7 DEF Basic

\* What the walk finds is what is on disk.
LEMMA ResultIs ==
    ASSUME Basic, NEW q \in Paths, disk[q] # Absent
    PROVE  /\ Result(q) = {} \/ Result(q) = {<<q, Scanned(snap.local[q], disk[q])>>}
           /\ LocalFile(Scanned(snap.local[q], disk[q]), disk[q], clock, known[q]) /\ Scanned(snap.local[q], disk[q]) # NoFile
           /\ Scanned(snap.local[q], disk[q]).item = disk[q] /\ ~Scanned(snap.local[q], disk[q]).deleted
           /\ Scanned(snap.local[q], disk[q]).flag = localFlags
<1>1. disk[q] \in Items /\ clock \in Nat /\ known[q] \in Nat /\ Plain(disk[q]) /\ disk[q].stat <= clock
      /\ LocalFile(snap.local[q], disk[q], clock, known[q])
  BY DEF Basic, Types, DiskRight, SnapshotRight
<1>2. Result(q) = {} \/ Result(q) = {<<q, Scanned(snap.local[q], disk[q])>>}
  BY DEF Result, Scanned
<1> QED
  BY <1>1, <1>2, ScannedIs

\* What is visited goes to the hashers or is found, if it is not as on record.
LEMMA VisitBasic == ASSUME Configured, Basic, NEW p \in Paths, Visit(p) PROVE Basic'
<1> DEFINE results == UNION {Result(q) : q \in PassedOver(p) \cup {p}}
<1>1. /\ pc = "walk" /\ UNCHANGED <<outside, passing, db, scope, batch, removals, rescans, known>> /\ clean' = clean
      /\ UNCHANGED <<disk, clock>>
      /\ listed' \subseteq listed \cup Children(p)
  BY DEF Visit, outside
<1>2. \/ UNCHANGED <<hashing, found>>
      \/ /\ disk[p] # Absent
         /\ hashing' = hashing \cup {r \in results : r[2].item.kind = "file"}
         /\ found' = found \cup {r \in results : r[2].item.kind = "dir"}
  BY DEF Visit
<1>3. CASE UNCHANGED <<hashing, found>>
  <2>1. WalkRight'
    BY <1>1, <1>3 DEF Basic, WalkRight
  <2>2. listed' \subseteq Paths /\ hashing' \subseteq Paths \X AllFiles /\ found' \subseteq Paths \X AllFiles /\ clean' \in BOOLEAN
    BY <1>1, <1>3 DEF Basic, Types, Children
  <2> QED
    BY <1>1, <2>1, <2>2, WalkBasic
<1>4. CASE /\ disk[p] # Absent
           /\ hashing' = hashing \cup {r \in results : r[2].item.kind = "file"}
           /\ found' = found \cup {r \in results : r[2].item.kind = "dir"}
  <2>1. \A q \in PassedOver(p) \cup {p} : q \in Paths /\ disk[q] # Absent
    <3>1. \A q \in Above[p] : q \in Paths /\ disk[q] = Directory
      BY <1>4, Nested DEF Basic, DiskRight, DirectoryThere
    <3> QED
      BY <1>4, <3>1, TheseArePlain DEF PassedOver
  <2>2. \A r \in results : r \in Paths \X AllFiles /\ LocalFile(r[2], disk[r[1]], clock, known[r[1]])
    <3> SUFFICES ASSUME NEW q \in PassedOver(p) \cup {p}, NEW r \in Result(q)
                 PROVE  r \in Paths \X AllFiles /\ LocalFile(r[2], disk[r[1]], clock, known[r[1]])
      OBVIOUS
    <3>1. q \in Paths /\ disk[q] # Absent
      BY <2>1
    <3>2. r = <<q, Scanned(snap.local[q], disk[q])>> /\ LocalFile(Scanned(snap.local[q], disk[q]), disk[q], clock, known[q])
      BY <3>1, ResultIs
    <3> QED
      BY <3>1, <3>2 DEF LocalFile
  <2> HIDE DEF results
  <2>3. WalkRight'
    BY <1>1, <1>4, <2>2 DEF Basic, WalkRight
  <2>4. listed' \subseteq Paths /\ hashing' \subseteq Paths \X AllFiles /\ found' \subseteq Paths \X AllFiles /\ clean' \in BOOLEAN
    BY <1>1, <1>4, <2>2 DEF Basic, Types, Children
  <2> QED
    BY <1>1, <2>3, <2>4, WalkBasic
<1> QED
  BY <1>2, <1>3, <1>4

\* An error ends the walk.
LEMMA VisitFailsBasic == ASSUME Basic, NEW p \in Paths, VisitFails(p) PROVE Basic'
<1>1. /\ pc = "walk" /\ UNCHANGED <<outside, passing, db, scope, batch, removals, rescans, known>> /\ clean' \in BOOLEAN
      /\ listed' = {} /\ UNCHANGED <<disk, clock, hashing, found>>
  BY DEF VisitFails, outside
<1>2. WalkRight'
  BY <1>1 DEF Basic, WalkRight
<1>3. listed' \subseteq Paths /\ hashing' \subseteq Paths \X AllFiles /\ found' \subseteq Paths \X AllFiles
  BY <1>1 DEF Basic, Types
<1> QED
  BY <1>1, <1>2, <1>3, WalkBasic

\* What has been hashed has the blocks that were read.
Hashed(f, i) == [f EXCEPT !.item.data = i.data]

\* A file with the data on disk, and the size and time of before.
LEMMA HashedIs ==
    ASSUME NEW i \in Items, NEW c \in Nat, NEW k \in Nat, NEW f, f.item.kind = "file", LocalFile(f, i, c, k)
    PROVE  /\ LocalFile(Hashed(f, i), i, c, k) /\ Hashed(f, i).item.kind = "file" /\ Hashed(f, i).item.stat = f.item.stat
           /\ Hashed(f, i).item.data = i.data /\ Hashed(f, i).deleted = f.deleted /\ Hashed(f, i).flag = f.flag
<1> DEFINE j == [f.item EXCEPT !.data = i.data]
           g == Hashed(f, i)
<1>1. f \in AllFiles /\ f.item \in Items /\ i.data \in Int
  BY DEF LocalFile, AllFiles, Items
<1>2. g = [f EXCEPT !.item = j]
  BY <1>1 DEF Hashed, AllFiles
<1>3. j \in Items /\ j.kind = f.item.kind /\ j.stat = f.item.stat /\ j.data = i.data
  BY <1>1 DEF Items
<1> HIDE DEF j, g
<1>4. g \in AllFiles /\ g.item = j /\ g.deleted = f.deleted /\ g.flag = f.flag /\ g.version = f.version
  BY <1>1, <1>2, <1>3 DEF AllFiles
<1>5. Shaped(g) /\ Sized(g, c) /\ Own(g) /\ Knows(g, k)
  BY <1>3, <1>4 DEF LocalFile, Shaped, Sized, Own, Knows
<1>6. Fits(g, i)
  BY <1>3, <1>4 DEF Fits
<1> QED
  BY <1>3, <1>4, <1>5, <1>6 DEF LocalFile, g

\* A file that has been hashed has the data that is on disk.
LEMMA HashBasic == ASSUME Basic, NEW r \in hashing, Hash(r) PROVE Basic'
<1>1. /\ pc = "walk" /\ UNCHANGED <<outside, passing, db, scope, batch, removals, rescans, known>> /\ clean' \in BOOLEAN
      /\ UNCHANGED <<disk, clock, listed>> /\ hashing' = hashing \ {r}
      /\ found' = found \/ found' = found \cup {<<r[1], Hashed(r[2], disk[r[1]])>>}
  BY DEF Hash, outside, Hashed, Basic, Types
<1>2. r[1] \in Paths /\ disk[r[1]] \in Items /\ clock \in Nat /\ known[r[1]] \in Nat
      /\ LocalFile(r[2], disk[r[1]], clock, known[r[1]]) /\ r[2].item.kind = "file"
  BY DEF Basic, Types, WalkRight
<1>3. LocalFile(Hashed(r[2], disk[r[1]]), disk[r[1]], clock, known[r[1]])
  BY <1>2, HashedIs
<1>4. WalkRight'
  BY <1>1, <1>3 DEF Basic, WalkRight
<1>5. listed' \subseteq Paths /\ hashing' \subseteq Paths \X AllFiles /\ found' \subseteq Paths \X AllFiles
  BY <1>1, <1>2, <1>3 DEF Basic, Types, LocalFile
<1> QED
  BY <1>1, <1>4, <1>5, WalkBasic

-----------------------------------------------------------------------------
(* Batches *)

\* The scan goes on with what UpdateBatch adds to the batch.
LEMMA UpdateBatchIs ==
    ASSUME Basic, NEW files, DOMAIN files \subseteq Paths, UpdateBatch(files),
           \A p \in DOMAIN files : LocalFile(files[p], disk[p], clock, known[p]),
           UNCHANGED <<outside, db, scope, rescans>>
    PROVE  /\ Grows /\ BatchRight' /\ DOMAIN batch' \subseteq Paths /\ removals' \subseteq Paths
           /\ DatabaseRight' /\ RemoteRight' /\ SnapshotRight'
           /\ hashing' \subseteq hashing /\ found' \subseteq found => WalkRight'
<1> DEFINE global(p) == Global(snap.local[p], snap.remote[p])
           ownOnly(p) == global(p).flag = "receiveonly"
           removed == {p \in DOMAIN files : ownOnly(p) /\ files[p].deleted}
           kept == DOMAIN files \ removed
           merged == {p \in kept : global(p) # NoFile /\ ~ownOnly(p) /\ Merges(files[p], global(p))}
           new == [p \in kept |-> IF p \in merged THEN global(p) ELSE files[p]]
<1>1. /\ batch' = Upon(new, batch) /\ removals' = removals \cup removed
      /\ known' = [p \in Paths |-> IF p \in merged THEN Maximum(known[p], global(p).version[2]) ELSE known[p]]
  BY DEF UpdateBatch
<1>2. UNCHANGED <<disk, clock, remote, ignored, db, snap>>
  BY DEF outside, scope
<1>3. /\ disk \in [Paths -> Items] /\ clock \in Nat /\ known \in [Paths -> Nat]
      /\ \A p \in Paths : /\ LocalFile(snap.local[p], disk[p], clock, known[p]) /\ OtherFile(snap.remote[p], disk[p], clock)
                          /\ global(p) \in {snap.local[p], snap.remote[p]}
  BY DEF Basic, Types, SnapshotRight, Global
<1>4. ASSUME NEW p \in Paths PROVE /\ global(p).version[2] \in Nat
                                   /\ LocalFile(global(p), disk[p], clock, known[p]) \/ LocalFile(global(p), disk[p], clock, global(p).version[2])
  <2>1. CASE global(p) = snap.local[p]
    BY <1>3, <2>1 DEF LocalFile, AllFiles
  <2>2. CASE global(p) = snap.remote[p]
    <3> HIDE DEF global
    <3> QED
      BY <1>3, <2>2, TakenIs
  <2> QED
    BY <1>3, <2>1, <2>2
<1> HIDE DEF global
<1>5. ASSUME NEW p \in Paths PROVE known'[p] \in Nat /\ known[p] <= known'[p] /\ (p \in merged => global(p).version[2] <= known'[p])
  <2>1. known[p] \in Nat /\ global(p).version[2] \in Nat
    BY <1>3, <1>4
  <2> QED
    BY <1>1, <2>1 DEF Maximum
<1>6. known' \in [Paths -> Nat] /\ Grows
  <2>1. known' \in [Paths -> Nat]
    BY <1>1, <1>5
  <2> QED
    BY <1>2, <1>5, <2>1, GrowsWhenUnchanged
<1>7. DOMAIN batch' = kept \cup DOMAIN batch /\ \A p \in DOMAIN batch' : batch'[p] = IF p \in kept THEN new[p] ELSE batch[p]
  BY <1>1 DEF Upon
<1>8. ASSUME NEW p \in kept PROVE LocalFile(new[p], disk[p], clock, known'[p])
  <2>1. p \in Paths /\ disk[p] \in Items /\ known[p] \in Nat /\ known'[p] \in Nat /\ known[p] <= known'[p]
        /\ Fresh(disk[p], disk[p], clock) /\ clock <= clock
    BY <1>3, <1>5 DEF Fresh
  <2>2. CASE p \in merged
    <3>1. LocalFile(global(p), disk[p], clock, known'[p])
      BY <1>3, <1>4, <1>5, <2>1, <2>2, FilesLast
    <3> QED
      BY <2>2, <3>1
  <2>3. CASE p \notin merged
    <3>1. LocalFile(files[p], disk[p], clock, known[p])
      OBVIOUS
    <3>2. LocalFile(files[p], disk[p], clock, known'[p])
      BY <1>3, <2>1, <3>1, FilesLast
    <3> QED
      BY <2>3, <3>2
  <2> QED
    BY <2>2, <2>3
<1>9. ASSUME NEW p \in DOMAIN batch PROVE LocalFile(batch[p], disk[p], clock, known'[p])
  <2>1. p \in Paths /\ LocalFile(batch[p], disk[p], clock, known[p])
    BY DEF Basic, BatchRight, Types
  <2>2. disk[p] \in Items /\ known[p] \in Nat /\ known'[p] \in Nat /\ known[p] <= known'[p] /\ Fresh(disk[p], disk[p], clock) /\ clock <= clock
    BY <1>3, <1>5, <2>1 DEF Fresh
  <2> QED
    BY <1>3, <2>1, <2>2, FilesLast
<1>10. removals' \subseteq Paths
  BY <1>1 DEF Basic, Types
<1> HIDE DEF new, kept
<1>11. BatchRight'
  BY <1>2, <1>7, <1>8, <1>9 DEF BatchRight
<1>12. DOMAIN batch' \subseteq Paths
  BY <1>7 DEF Basic, Types, kept
<1> QED
  BY <1>2, <1>6, <1>10, <1>11, <1>12, RecordsLast

\* What the scan does then.
LEMMA UpdateBasic ==
    ASSUME Basic, pc \in {"walk", "delete"}, NEW files, DOMAIN files \subseteq Paths, UpdateBatch(files),
           \A p \in DOMAIN files : LocalFile(files[p], disk[p], clock, known[p]),
           UNCHANGED <<outside, db, scope, rescans, listed, hashing, clean>>, found' \subseteq found, row' \in Nat \ {0},
           toIgnore' \subseteq Paths, \A p \in toIgnore' : snap.local[p] # NoFile, pc = "walk" => toIgnore' = {}
    PROVE  Basic'
<1>1. UNCHANGED <<disk, remote, ignored, clock, db, pc, subs, snap, forcing, suspect, forced, listed, hashing, clean>>
  BY DEF outside, scope, rescans
<1>2. /\ Grows /\ BatchRight' /\ DOMAIN batch' \subseteq Paths /\ removals' \subseteq Paths
      /\ DatabaseRight' /\ RemoteRight' /\ SnapshotRight'
      /\ hashing' \subseteq hashing /\ found' \subseteq found => WalkRight'
  BY UpdateBatchIs
<1>3. Types'
  BY <1>1, <1>2 DEF Basic, Types, Grows
<1>4. Resting'
  BY <1>1 DEF Resting
<1>5. DiskRight'
  BY <1>1, DiskLasts
<1>6. ForcedRight'
  BY <1>1 DEF Basic, ForcedRight
<1> QED
  BY <1>1, <1>2, <1>3, <1>4, <1>5, <1>6 DEF Basic

\* What is found goes to the batch.
LEMMA ConsumeBasic == ASSUME Basic, NEW r \in found, Consume(r) PROVE Basic'
<1> DEFINE rename == IF Type = "receiveonly" THEN [gone |-> {}, used |-> {}] ELSE FindRename(r[1], r[2])
           files == [p \in {r[1]} \cup rename.gone |-> IF p = r[1] THEN r[2] ELSE Deleted(snap.local[p])]
<1>1. /\ pc = "walk" /\ found' = found \ {r} /\ UpdateBatch(files)
      /\ UNCHANGED <<outside, db, scope, rescans, listed, hashing, clean>> /\ row' = row /\ toIgnore' = toIgnore
  BY DEF Consume, passing
<1>2. r[1] \in Paths /\ LocalFile(r[2], disk[r[1]], clock, known[r[1]])
  BY DEF Basic, Types, WalkRight
<1>3. ASSUME NEW p \in rename.gone PROVE p \in Paths /\ snap.local[p] # NoFile
  <2>1. p \in FindRename(r[1], r[2]).gone
    OBVIOUS
  <2>2. p \in Paths /\ SameBlocks(p, r[2])
    BY <2>1 DEF FindRename
  <2> QED
    BY <2>2 DEF SameBlocks, NoFile, Absent, Item
<1> HIDE DEF rename
<1>4. DOMAIN files \subseteq Paths
  BY <1>2, <1>3
<1>5. ASSUME NEW p \in DOMAIN files PROVE LocalFile(files[p], disk[p], clock, known[p])
  <2>1. CASE p = r[1]
    BY <1>2, <2>1
  <2>2. CASE p # r[1]
    <3>1. p \in rename.gone /\ files[p] = Deleted(snap.local[p])
      BY <2>2
    <3>2. p \in Paths /\ snap.local[p] # NoFile
      BY <3>1, <1>3
    <3>3. LocalFile(snap.local[p], disk[p], clock, known[p]) /\ disk[p] \in Items /\ clock \in Nat /\ known[p] \in Nat
      BY <3>2 DEF Basic, SnapshotRight, Types
    <3>4. LocalFile(Deleted(snap.local[p]), disk[p], clock, known[p])
      BY <3>2, <3>3, DeletedIs DEF LocalFile
    <3> QED
      BY <3>1, <3>4
  <2> QED
    BY <2>1, <2>2
<1>6. /\ row' \in Nat \ {0} /\ toIgnore' \subseteq Paths /\ (\A p \in toIgnore' : snap.local[p] # NoFile) /\ found' \subseteq found
      /\ toIgnore' = {}
  BY <1>1 DEF Basic, Types, Resting
<1> HIDE DEF files
<1> QED
  BY <1>1, <1>4, <1>5, <1>6, UpdateBasic

\* The second snapshot is the database with what the walk has found.
LEMMA EndWalkBasic == ASSUME Basic, EndWalk PROVE Basic'
<1>1. /\ FlushAll /\ UNCHANGED <<outside, suspect, known>> /\ UNCHANGED <<disk, clock, remote, ignored>> /\ pc = "walk"
  BY DEF EndWalk, outside
<1>2. /\ db' \in [Paths -> AllFiles] /\ DatabaseRight' /\ forced' \subseteq Paths /\ ForcedRight'
      /\ batch' = NoChanges /\ removals' = {}
  BY <1>1, FlushIs
<1>3. CASE ScanOver
  BY <1>1, <1>2, <1>3, ScanOverBasic
<1>4. CASE /\ pc' = "delete" /\ snap' = [local |-> db', remote |-> remote]
           /\ UNCHANGED <<passing, subs, forcing, listed, hashing, found, clean>>
  <2>1. UNCHANGED <<row, toIgnore>>
    BY <1>4 DEF passing
  <2>2. Grows
    BY <1>1, GrowsWhenKnown
  <2>3. RemoteRight' /\ WalkRight'
    BY <1>1, <1>4, <2>2, RecordsLast
  <2>4. SnapshotRight' /\ BatchRight' /\ DOMAIN batch' \subseteq Paths
    BY <1>1, <1>2, <1>4, <2>3 DEF SnapshotRight, DatabaseRight, RemoteRight, BatchRight, NoChanges
  <2>5. Types'
    BY <1>1, <1>2, <1>4, <2>1, <2>4 DEF Basic, Types
  <2>6. Resting'
    BY <1>1, <1>4, <2>1 DEF Basic, Resting
  <2>7. DiskRight'
    BY <1>1, DiskLasts
  <2> QED
    BY <1>2, <2>3, <2>4, <2>5, <2>6, <2>7 DEF Basic
<1> QED
  BY <1>3, <1>4 DEF EndWalk

-----------------------------------------------------------------------------
(* The pass over the database *)

\* Items that are marked as ignored.
LEMMA AllIgnoredIs ==
    ASSUME Basic, NEW ps, ps \subseteq Paths, \A p \in ps : snap.local[p] # NoFile
    PROVE  /\ DOMAIN AllIgnored(ps) = ps
           /\ \A p \in ps : AllIgnored(ps)[p] = Flagged(snap.local[p], "ignored")
           /\ \A p \in ps : LocalFile(AllIgnored(ps)[p], disk[p], clock, known[p])
<1>1. DOMAIN AllIgnored(ps) = ps /\ \A p \in ps : AllIgnored(ps)[p] = Flagged(snap.local[p], "ignored")
  BY DEF AllIgnored
<1>2. ASSUME NEW p \in ps PROVE LocalFile(Flagged(snap.local[p], "ignored"), disk[p], clock, known[p])
  <2>1. LocalFile(snap.local[p], disk[p], clock, known[p]) /\ disk[p] \in Items /\ clock \in Nat /\ known[p] \in Nat /\ snap.local[p] # NoFile
    BY DEF Basic, SnapshotRight, Types
  <2> QED
    BY <2>1, FlaggedIs DEF LocalFile
<1> QED
  BY <1>1, <1>2

\* What the pass makes of an item.
LEMMA OwnDeletionIs ==
    ASSUME Basic, NEW p \in Paths, snap.local[p] # NoFile, snap.local[p].deleted, snap.local[p].flag = "receiveonly"
    PROVE  /\ DOMAIN OwnDeletion(p) \subseteq {p}
           /\ \A q \in DOMAIN OwnDeletion(p) : LocalFile(OwnDeletion(p)[q], disk[q], clock, known[q]) /\ OwnDeletion(p)[q].deleted
<1> DEFINE f == snap.local[p]
           e == [f EXCEPT !.flag = "none"]
<1>1. LocalFile(f, disk[p], clock, known[p])
  BY DEF Basic, SnapshotRight
<1>2. f \in AllFiles /\ f # NoFile /\ f.deleted /\ f.flag = "receiveonly"
  BY <1>1 DEF LocalFile
<1>3. /\ OwnDeletion(p) \in {Just(p, f), Just(p, e), NoChanges}
  BY DEF OwnDeletion
<1> HIDE DEF f
<1>4. e \in AllFiles /\ e.item = f.item /\ e.deleted /\ e.flag = "none" /\ e.version = f.version
  BY <1>2 DEF AllFiles, Flags
<1> HIDE DEF e
<1>5. LocalFile(e, disk[p], clock, known[p])
  <2>1. Shaped(e) /\ Sized(e, clock) /\ Fits(e, disk[p]) /\ Own(e)
    BY <1>1, <1>2, <1>4 DEF LocalFile, Shaped, Sized, Fits, Own
  <2>2. Knows(e, known[p])
    BY <1>1, <1>2, <1>4 DEF LocalFile, Knows
  <2> QED
    BY <1>4, <2>1, <2>2 DEF LocalFile
<1>6. CASE OwnDeletion(p) = NoChanges
  BY <1>6 DEF NoChanges
<1>7. CASE OwnDeletion(p) = Just(p, f)
  BY <1>1, <1>2, <1>7 DEF Just
<1>8. CASE OwnDeletion(p) = Just(p, e)
  BY <1>4, <1>5, <1>8 DEF Just
<1> QED
  BY <1>3, <1>6, <1>7, <1>8

\* What the pass over the database makes of an item is right.
LEMMA CheckBasic == ASSUME Basic, NEW p \in Paths, snap.local[p] # NoFile, Check(p), pc = "delete",
                           UNCHANGED <<outside, db, scope, rescans, listed, hashing, found, clean>>, row' \in Nat \ {0}
                    PROVE Basic'
<1> DEFINE f == snap.local[p]
           left == ignoredParent # Root /\ ignoredParent \notin Above[p]
           dirs == IF left THEN {} ELSE toIgnore
           looked == p \notin ignored /\ (f.flag = "ignored" \/ ~f.deleted)
           stays == looked /\ ~IsDeleted(p)
           hidden == p \in ignored /\ f.flag # "ignored"
           delayed == hidden /\ f.item.kind = "dir"
           files == IF hidden /\ ~delayed THEN AllIgnored({p})
                    ELSE IF looked /\ ~stays THEN Just(p, Gone(f))
                    ELSE IF p \notin ignored /\ ~looked /\ f.flag = "receiveonly" THEN OwnDeletion(p)
                    ELSE NoChanges
           late == AllIgnored(IF left THEN toIgnore ELSE {})
<1>1. /\ UpdateBatch(Upon(files, late))
      /\ toIgnore' = IF stays THEN {} ELSE IF delayed THEN dirs \cup {p} ELSE dirs
  BY DEF Check
<1>2. LocalFile(f, disk[p], clock, known[p]) /\ disk[p] \in Items /\ clock \in Nat /\ known[p] \in Nat /\ toIgnore \subseteq Paths
      /\ \A q \in toIgnore : snap.local[q] # NoFile
  BY DEF Basic, SnapshotRight, Types, Resting
<1>3. DOMAIN late \subseteq Paths /\ \A q \in DOMAIN late : LocalFile(late[q], disk[q], clock, known[q])
  <2> DEFINE ps == IF left THEN toIgnore ELSE {}
  <2>1. ps \subseteq Paths /\ \A q \in ps : snap.local[q] # NoFile
    BY <1>2
  <2> HIDE DEF ps
  <2> QED
    BY <2>1, AllIgnoredIs DEF ps
<1>4. DOMAIN files \subseteq Paths /\ \A q \in DOMAIN files : LocalFile(files[q], disk[q], clock, known[q])
  <2>1. CASE files = AllIgnored({p})
    <3>1. {p} \subseteq Paths /\ \A q \in {p} : snap.local[q] # NoFile
      OBVIOUS
    <3> HIDE DEF files
    <3> QED
      BY <2>1, <3>1, AllIgnoredIs
  <2>2. CASE files = Just(p, Gone(f))
    <3>1. LocalFile(Gone(f), disk[p], clock, known[p])
      BY <1>2, GoneIs
    <3> HIDE DEF files
    <3> QED
      BY <2>2, <3>1 DEF Just
  <2>3. CASE files = OwnDeletion(p) /\ f.deleted /\ f.flag = "receiveonly"
    <3>1. /\ DOMAIN OwnDeletion(p) \subseteq {p}
          /\ \A q \in DOMAIN OwnDeletion(p) : LocalFile(OwnDeletion(p)[q], disk[q], clock, known[q])
      BY <2>3, OwnDeletionIs
    <3> HIDE DEF files
    <3> QED
      BY <2>3, <3>1
  <2>4. CASE files = NoChanges
    <3> HIDE DEF files
    <3> QED
      BY <2>4 DEF NoChanges
  <2> QED
    BY <2>1, <2>2, <2>3, <2>4
<1> DEFINE all == Upon(files, late)
<1> HIDE DEF files, late
<1>5. DOMAIN all \subseteq Paths /\ \A q \in DOMAIN all : LocalFile(all[q], disk[q], clock, known[q])
  BY <1>3, <1>4 DEF Upon
<1>6. toIgnore' \subseteq Paths /\ \A q \in toIgnore' : snap.local[q] # NoFile
  BY <1>1, <1>2
<1>7. UpdateBatch(all)
  BY <1>1
<1> HIDE DEF all
<1> QED
  BY <1>5, <1>6, <1>7, UpdateBasic

\* The pass goes on from item to item.
LEMMA CheckNextBasic == ASSUME Configured, Basic, CheckNext PROVE Basic'
<1>1. /\ pc = "delete" /\ row <= Len(Order) /\ row' = row + 1
      /\ UNCHANGED <<outside, db, scope, rescans, listed, hashing, found, clean>>
      /\ \/ snap.local[Order[row]] # NoFile /\ Check(Order[row])
         \/ UNCHANGED <<batch, removals, known, toIgnore, ignoredParent>>
  BY DEF CheckNext
<1>2. row \in 1..Len(Order) /\ row' \in Nat \ {0} /\ Order[row] \in Paths
  BY <1>1, NamesInOrder DEF Basic, Types
<1>3. CASE snap.local[Order[row]] # NoFile /\ Check(Order[row])
  BY <1>1, <1>2, <1>3, CheckBasic
<1>4. CASE UNCHANGED <<batch, removals, known, toIgnore, ignoredParent>>
  <2>1. UNCHANGED <<disk, remote, ignored, clock, db, pc, subs, snap, forcing, suspect, forced>>
    BY <1>1 DEF outside, scope, rescans
  <2>2. Grows
    BY <1>4, <2>1, GrowsWhenKnown
  <2>3. DatabaseRight' /\ RemoteRight' /\ SnapshotRight' /\ WalkRight' /\ BatchRight'
    BY <1>1, <1>4, <2>1, <2>2, RecordsLast
  <2>4. Types'
    BY <1>1, <1>2, <1>4, <2>1 DEF Basic, Types
  <2>5. Resting'
    BY <1>1, <1>4, <2>1 DEF Basic, Resting
  <2>6. DiskRight'
    BY <2>1, DiskLasts
  <2>7. ForcedRight'
    BY <2>1 DEF Basic, ForcedRight
  <2> QED
    BY <2>3, <2>4, <2>5, <2>6, <2>7 DEF Basic
<1> QED
  BY <1>1, <1>3, <1>4

\* The directories left at its end are marked as ignored.
LEMMA CheckLastBasic == ASSUME Basic, CheckLast PROVE Basic'
<1>1. /\ pc = "delete" /\ UpdateBatch(AllIgnored(toIgnore)) /\ toIgnore' = {} /\ row' = row
      /\ UNCHANGED <<outside, db, scope, rescans, listed, hashing, found, clean>>
  BY DEF CheckLast, walking
<1>2. toIgnore \subseteq Paths /\ (\A q \in toIgnore : snap.local[q] # NoFile) /\ row \in Nat \ {0}
  BY DEF Basic, Resting, Types
<1> DEFINE files == AllIgnored(toIgnore)
<1>3. DOMAIN files \subseteq Paths /\ \A q \in DOMAIN files : LocalFile(files[q], disk[q], clock, known[q])
  BY <1>2, AllIgnoredIs
<1>4. UpdateBatch(files)
  BY <1>1
<1> HIDE DEF files
<1> QED
  BY <1>1, <1>2, <1>3, <1>4, UpdateBasic

-----------------------------------------------------------------------------
(* Revert *)

\* A local change that is reverted is the other device's file, or older than everything.
LEMMA RevertedIs ==
    ASSUME Basic, NEW p \in Paths, remote[p] # NoFile, db[p].flag = "receiveonly"
    PROVE  LocalFile(Reverted(p), disk[p], clock, Reverted(p).version[2]) /\ Reverted(p).version[2] \in Nat
<1> DEFINE f == [db[p] EXCEPT !.flag = "none"]
           e == [f EXCEPT !.version = <<0, 0>>]
<1>1. LocalFile(db[p], disk[p], clock, known[p]) /\ db[p] \in AllFiles /\ disk[p] \in Items /\ clock \in Nat
      /\ OtherFile(remote[p], disk[p], clock)
  BY DEF Basic, DatabaseRight, RemoteRight, LocalFile, Types
<1>2. Reverted(p) \in {remote[p], e}
  BY DEF Reverted
<1>3. CASE Reverted(p) = remote[p]
  BY <1>1, <1>3, TakenIs
<1>4. CASE Reverted(p) = e
  <2>1. f \in AllFiles /\ f.item = db[p].item /\ f.deleted = db[p].deleted /\ f.flag = "none"
    BY <1>1 DEF AllFiles, Flags
  <2> HIDE DEF f
  <2>2. e \in AllFiles /\ e.item = db[p].item /\ e.deleted = db[p].deleted /\ e.flag = "none" /\ e.version = <<0, 0>>
    BY <2>1 DEF AllFiles
  <2> HIDE DEF e
  <2>3. db[p].item.stat <= clock /\ (db[p] = NoFile \/ (e.item.kind \in {"dir", "file"} /\ (e.item.kind = "dir" /\ ~e.deleted => e.item = Directory)))
    BY <1>1, <2>2 DEF LocalFile, Sized, Shaped
  <2>4. db[p] # NoFile
    BY DEF NoFile
  <2>5. Shaped(e) /\ Sized(e, clock) /\ Own(e) /\ Knows(e, 0)
    BY <1>1, <2>2, <2>3, <2>4 DEF Shaped, Sized, Own, Knows
  <2>6. Fits(e, disk[p])
    BY <1>1, <2>2 DEF LocalFile, Fits
  <2> QED
    BY <1>4, <2>2, <2>5, <2>6 DEF LocalFile
<1> QED
  BY <1>2, <1>3, <1>4

\* A deletion that is older than everything.
LEMMA ErasedIs ==
    ASSUME NEW i \in Items, NEW c \in Nat, NEW k \in Nat, NEW f \in AllFiles, f # NoFile, Shaped(f), f.item.stat <= c, f.deleted,
           NEW e, e = [f EXCEPT !.flag = "none", !.version = <<0, 0>>]
    PROVE  LocalFile(e, i, c, k) /\ e.deleted
<1>1. e \in AllFiles /\ e.item = f.item /\ e.deleted /\ e.flag = "none" /\ e.version = <<0, 0>>
  BY DEF AllFiles, Flags
<1>2. Shaped(e) /\ Sized(e, c) /\ Fits(e, i) /\ Own(e) /\ Knows(e, k)
  BY <1>1 DEF Shaped, Sized, Own, Knows, Fits
<1> QED
  BY <1>1, <1>2 DEF LocalFile

\* Revert deletes what it says is deleted.
LEMMA RevertBasic == ASSUME Configured, Basic, Revert PROVE Basic'
<1> DEFINE changed == {p \in Paths : db[p].flag = "receiveonly"}
           own == {p \in changed : remote[p] = NoFile}
           dead == {p \in own : db[p].deleted}
           files == {p \in own \ dead : db[p].item.kind = "file" /\ p \notin ignored /\ disk[p].kind # "dir"}
           dirs == {p \in own \ dead : db[p].item.kind = "dir" /\ p \notin ignored
                                       /\ \A q \in Children(p) : disk[q] = Absent \/ q \in files}
           deleted(p) == [Deleted(db[p]) EXCEPT !.flag = "none", !.version = <<0, 0>>]
           erased(p) == [db[p] EXCEPT !.flag = "none", !.version = <<0, 0>>]
<1>1. /\ disk' = [p \in Paths |-> IF p \in files \cup dirs THEN Absent ELSE disk[p]]
      /\ db' = [p \in Paths |-> IF p \in files \cup dirs THEN deleted(p)
                                ELSE IF p \in dead THEN erased(p)
                                ELSE IF p \in changed \ own THEN Reverted(p)
                                ELSE db[p]]
      /\ known' = [p \in Paths |-> IF p \in changed \ own THEN db'[p].version[2] ELSE known[p]]
      /\ forced' = forced \ (files \cup dirs \cup dead \cup (changed \ own))
      /\ pc = "idle"
      /\ UNCHANGED <<remote, ignored, clock, pc, subs, snap, listed, hashing, found, batch, removals, row, toIgnore, suspect,
                     forcing, clean>>
  BY DEF Revert, scanning, scope, walking, passing
<1>2. /\ disk \in [Paths -> Items] /\ db \in [Paths -> AllFiles] /\ known \in [Paths -> Nat] /\ clock \in Nat
      /\ remote \in [Paths -> AllFiles] /\ \A q \in Paths : OtherFile(remote[q], disk[q], clock)
      /\ \A q \in Paths : LocalFile(db[q], disk[q], clock, known[q])
  BY DEF Basic, Types, RemoteRight, DatabaseRight
<1>3. \A p \in changed : p \in Paths /\ db[p] # NoFile
  BY DEF NoFile
<1>4. /\ files \subseteq own /\ dirs \subseteq own /\ own \subseteq changed /\ dead \subseteq own
      /\ \A p \in files \cup dirs \cup dead : remote[p] = NoFile
      /\ \A p \in changed \ own : remote[p] # NoFile /\ db[p].flag = "receiveonly"
      /\ \A p \in dead : db[p].deleted
      /\ \A p \in files : disk[p] # Directory
      /\ \A p \in dirs : \A q \in Children(p) : disk[q] = Absent \/ q \in files
  BY TheseArePlain
<1>5. \A p \in changed \ own : LocalFile(Reverted(p), disk[p], clock, Reverted(p).version[2]) /\ Reverted(p).version[2] \in Nat
  BY <1>3, <1>4, RevertedIs
<1>6. \A p \in dead : LocalFile(erased(p), disk[p], clock, known[p])
  <2> SUFFICES ASSUME NEW p \in dead PROVE LocalFile(erased(p), disk[p], clock, known[p])
    OBVIOUS
  <2>1. LocalFile(db[p], disk[p], clock, known[p]) /\ db[p] # NoFile /\ db[p].deleted /\ disk[p] \in Items /\ known[p] \in Nat
    BY <1>2, <1>3, <1>4
  <2>2. db[p] \in AllFiles /\ Shaped(db[p]) /\ db[p].item.stat <= clock
    BY <2>1 DEF LocalFile, Sized
  <2> HIDE DEF dead
  <2> QED
    BY <1>2, <2>1, <2>2, ErasedIs
<1>7. \A p \in files \cup dirs : LocalFile(deleted(p), Absent, clock, known[p])
  <2> SUFFICES ASSUME NEW p \in files \cup dirs PROVE LocalFile(deleted(p), Absent, clock, known[p])
    OBVIOUS
  <2>1. LocalFile(db[p], disk[p], clock, known[p]) /\ db[p] # NoFile /\ Absent \in Items /\ known[p] \in Nat
    BY <1>2, <1>3, <1>4, TheseAre
  <2>2. LocalFile(Deleted(db[p]), Absent, clock, known[p]) /\ Deleted(db[p]).deleted /\ Deleted(db[p]) # NoFile
    BY <1>2, <2>1, DeletedIs DEF LocalFile
  <2>3. Deleted(db[p]) \in AllFiles /\ Shaped(Deleted(db[p])) /\ Deleted(db[p]).item.stat <= clock
    BY <2>2 DEF LocalFile, Sized
  <2> HIDE DEF files, dirs
  <2> QED
    BY <1>2, <2>1, <2>2, <2>3, ErasedIs
<1> HIDE DEF changed, own, dead, files, dirs, deleted, erased
<1>8. disk' \in [Paths -> Items]
  BY <1>1, <1>2, TheseAre
<1>9. ASSUME NEW p \in Paths PROVE Plain(disk'[p]) /\ disk'[p].stat <= clock'
  <2>1. Plain(disk[p]) /\ disk[p].stat <= clock
    BY DEF Basic, DiskRight
  <2>2. disk'[p] \in {Absent, disk[p]} /\ 0 <= clock
    BY <1>1, <1>2
  <2> QED
    BY <1>1, <2>1, <2>2, TheseArePlain
<1>10. ASSUME NEW q \in Paths, disk'[q] # Absent, NEW a \in Above[q] PROVE disk'[a] = Directory
  <2>1. q \notin files \cup dirs /\ disk[q] # Absent
    BY <1>1, <1>10
  <2>2. a \in Paths /\ \A b \in Above[q] : b \in Paths /\ disk[b] = Directory
    BY <2>1, Nested DEF Basic, DiskRight, DirectoryThere
  <2>3. a \notin files
    BY <1>4, <2>2
  <2>4. a \notin dirs
    <3> SUFFICES ASSUME a \in dirs PROVE FALSE
      OBVIOUS
    <3>1. PICK c \in Children(a) : c \in Chain(q)
      BY <2>2, ChildIsThere DEF Below
    <3>2. disk[c] = Absent \/ c \in files
      BY <1>4, <3>1
    <3> QED
      BY <1>4, <2>1, <2>2, <3>1, <3>2, TheseArePlain DEF Chain
  <2> QED
    BY <1>1, <2>2, <2>3, <2>4
<1>11. DiskRight'
  BY <1>9, <1>10 DEF DiskRight, DirectoryThere
<1>12. known' \in [Paths -> Nat] /\ \A p \in Paths : LocalFile(db'[p], disk'[p], clock', known'[p])
  <2> SUFFICES ASSUME NEW p \in Paths PROVE known'[p] \in Nat /\ LocalFile(db'[p], disk'[p], clock', known'[p])
    BY <1>1
  <2>1. CASE p \in files \cup dirs
    BY <1>1, <1>2, <1>4, <1>7, <2>1
  <2>2. CASE p \in dead /\ p \notin files \cup dirs
    BY <1>1, <1>2, <1>4, <1>6, <2>2
  <2>3. CASE p \in changed \ own
    BY <1>1, <1>2, <1>4, <1>5, <2>3
  <2>4. CASE p \notin files \cup dirs \cup dead \cup (changed \ own)
    BY <1>1, <1>2, <2>4
  <2> QED
    BY <1>4, <2>1, <2>2, <2>3, <2>4
<1>13. ASSUME NEW p \in Paths PROVE OtherFile(remote'[p], disk'[p], clock')
  <2>1. CASE p \in files \cup dirs
    BY <1>1, <1>2, <1>4, <2>1, TheseAre, NoFileIs
  <2>2. CASE p \notin files \cup dirs
    BY <1>1, <1>2, <2>2
  <2> QED
    BY <2>1, <2>2
<1>14. DatabaseRight' /\ RemoteRight' /\ db' \in [Paths -> AllFiles]
  <2>1. DatabaseRight' /\ RemoteRight'
    BY <1>12, <1>13 DEF DatabaseRight, RemoteRight
  <2>2. \A p \in Paths : db'[p] \in AllFiles
    BY <1>12 DEF LocalFile
  <2> QED
    BY <1>1, <2>1, <2>2
<1>15. /\ listed' = {} /\ hashing' = {} /\ found' = {} /\ batch' = NoChanges /\ removals' = {} /\ toIgnore' = {}
       /\ snap' = [local |-> Nothing, remote |-> Nothing] /\ ~clean' /\ forcing' = {} /\ Nothing' = Nothing
  BY <1>1 DEF Basic, Resting, Nothing, Paths
<1>16. SnapshotRight' /\ WalkRight' /\ BatchRight'
  <2>1. \A q \in Paths : LocalFile(NoFile, disk'[q], clock', known'[q]) /\ OtherFile(NoFile, disk'[q], clock')
    BY <1>1, <1>2, <1>8, <1>12, NoFileIs
  <2>2. \A q \in Paths : Nothing[q] = NoFile
    BY DEF Nothing
  <2>3. DOMAIN batch' = {}
    BY <1>15 DEF NoChanges
  <2> QED
    BY <1>15, <2>1, <2>2, <2>3 DEF SnapshotRight, WalkRight, BatchRight
<1>17. Types'
  BY <1>1, <1>8, <1>12, <1>14 DEF Basic, Types
<1>18. Resting'
  BY <1>1, <1>15 DEF Resting
<1>19. ForcedRight'
  <2>1. \A p \in forced' : p \in forced /\ db'[p] = db[p]
    BY <1>1 DEF Basic, Types
  <2> QED
    BY <1>1, <2>1 DEF Basic, ForcedRight
<1> QED
  BY <1>11, <1>14, <1>16, <1>17, <1>18, <1>19 DEF Basic

\* The rest stutters.
LEMMA StutterBasic == ASSUME Basic, UNCHANGED vars PROVE Basic'
<1>1. ignored' \subseteq Paths
  BY DEF vars, outside, Basic, Types
<1> QED
  BY <1>1, StaysBasic DEF vars, outside, scanning, scope, walking, passing, rescans

\* Every step keeps the records right.
LEMMA NextBasic == ASSUME Configured, Basic, [Next]_vars PROVE Basic'
<1>1. ASSUME NEW p \in Paths,
             \/ Write(p) \/ MakeDirectory(p) \/ Delete(p) \/ Corrupt(p) \/ ChangePatterns(p)
             \/ ChangeRemote(p) \/ TakeRemote(p) \/ StartScan({p}) \/ Visit(p) \/ VisitFails(p)
             \/ Pull(p) \/ Recheck(p) \/ ScheduleForceRescan(p)
      PROVE  Basic'
  <2>1. CASE Write(p) \/ MakeDirectory(p) \/ Delete(p) \/ Corrupt(p)
    BY <2>1, WriteBasic, MakeDirectoryBasic, DeleteBasic, CorruptBasic
  <2>2. CASE ChangePatterns(p) \/ ChangeRemote(p) \/ TakeRemote(p) \/ Pull(p) \/ Recheck(p) \/ ScheduleForceRescan(p)
    BY <2>2, ChangePatternsBasic, ChangeRemoteBasic, TakeRemoteBasic, PullBasic, RecheckBasic
  <2>3. CASE StartScan({p})
    BY <2>3, StartScanBasic
  <2>4. CASE Visit(p) \/ VisitFails(p)
    BY <2>4, VisitBasic, VisitFailsBasic
  <2> QED
    BY <1>1, <2>1, <2>2, <2>3, <2>4
<1>2. ASSUME NEW p \in Paths, NEW q \in Paths, Rename(p, q) PROVE Basic'
  BY <1>2, RenameBasic
<1>3. CASE StartScan({})
  BY <1>3, StartScanBasic
<1>4. CASE HandleForcedRescans \/ BeginScan \/ ScanFails \/ ChangeHealth
  BY <1>4, HandleForcedRescansBasic, BeginScanBasic, ScanFailsBasic, ChangeHealthBasic
<1>5. ASSUME NEW r \in hashing, Hash(r) PROVE Basic'
  BY <1>5, HashBasic
<1>6. ASSUME NEW r \in found, Consume(r) PROVE Basic'
  BY <1>6, ConsumeBasic
<1>7. CASE FlushIfFull \/ Stop \/ EndWalk \/ CheckNext \/ CheckLast \/ EndScan \/ Revert
  BY <1>7, FlushIfFullBasic, StopBasic, EndWalkBasic, CheckNextBasic, CheckLastBasic, EndScanBasic, RevertBasic
<1>8. CASE UNCHANGED vars
  BY <1>8, StutterBasic
<1> QED
  BY <1>1, <1>2, <1>3, <1>4, <1>5, <1>6, <1>7, <1>8 DEF Next

\* Where the code can keep them, the properties of the records.
LEMMA BasicIs ==
    ASSUME Basic
    PROVE  /\ ~Renaming => BlocksFollowStat
           /\ ~RecheckApart => ClaimsOnlyWhatIsKnown
           /\ ChangesStayHere
<1>1. \A p \in Paths : LocalFile(db[p], disk[p], clock, known[p]) /\ db[p] \in AllFiles
  BY DEF Basic, DatabaseRight, Types
<1>2. ~Renaming => BlocksFollowStat
  BY <1>1 DEF BlocksFollowStat, LocalFile, Fits, Invalid
<1>3. ~RecheckApart => ClaimsOnlyWhatIsKnown
  BY <1>1 DEF ClaimsOnlyWhatIsKnown, LocalFile, Knows, Invalid
<1>4. ChangesStayHere
  BY <1>1 DEF ChangesStayHere, LocalFile, Own, Invalid
<1> QED
  BY <1>2, <1>3, <1>4

-----------------------------------------------------------------------------
(* What a scan has seen *)

CoveredBy(s, p) == s = {} \/ Chain(p) \cap s # {}
HiddenAt(d, ig, p) == p \in ig /\ \A q \in Below(p) : q \in ig \/ d[q] = Absent

\* A file as a scan that covers p leaves it, and one that it may leave as it is.
RightAt(d, ig, p, f) ==
  IF HiddenAt(d, ig, p) THEN f = NoFile \/ f.flag = "ignored"
  ELSE IF d[p] = Absent THEN f = NoFile \/ f.deleted \/ f.flag = "ignored"
  ELSE /\ f # NoFile /\ ~f.deleted /\ f.flag \in {"none", localFlags}
       /\ f.item.kind = d[p].kind /\ f.item.stat = d[p].stat
SettledAt(d, ig, p, f) ==
  \/ RightAt(d, ig, p, f)
  \/ HiddenAt(d, ig, p) /\ f.item.kind = "dir" /\ \E q \in Above[p] : q \in ig /\ ~HiddenAt(d, ig, q)

\* What the scan covers, or one has covered since the last change.
Meant(ig, p) == InOrder \/ p \notin ig
Sure(ig, s, cl, ch, p) == Meant(ig, p) /\ ((cl /\ CoveredBy(s, p)) \/ <<p, "stat">> \in ch)

\* There, and not hidden.
SeenAt(d, ig, p) == d[p] # Absent /\ ~HiddenAt(d, ig, p)

\* The pass over the database has been at p.
Passed(k, p) == \E i \in 1..Len(Order) : i < k /\ Order[i] = p

\* What is under way is right, and what is on record stays until it is.
PendingRight ==
  \A p \in Paths : Sure(ignored, subs, clean, checked, p) =>
    /\ \A r \in hashing \cup found : r[1] = p => RightAt(disk, ignored, p, r[2])
    /\ p \in DOMAIN batch => RightAt(disk, ignored, p, batch[p])
    /\ p \in removals => RightAt(disk, ignored, p, NoFile)
    /\ pc \in {"walk", "delete"} => db[p] = snap.local[p] \/ RightAt(disk, ignored, p, db[p])

\* What has been checked is right, and so is what is below it.
CheckedRight ==
  \A p \in Paths : <<p, "stat">> \in checked =>
    /\ Meant(ignored, p) => SettledAt(disk, ignored, p, db[p])
    /\ p \in ignored => \A q \in Below(p) : <<q, "stat">> \in checked

\* The walk goes from directory to directory: what it has yet to visit is not in each other, and
\* what is in a directory comes before what is not.
ListRight ==
  /\ \A l, m \in listed : l \notin Above[m]
  /\ \A l, m \in listed : \A x \in Above[l] : CoveredBy(subs, x) /\ x \notin Above[m] => Earlier(l, m)
  /\ \A l \in listed : CoveredBy(subs, l) /\ (clean => disk[l] # Absent)
  /\ ignoredParent = Root \/ (ignoredParent \in ignored /\ CoveredBy(subs, ignoredParent))
  /\ pc \in {"idle", "begin"} => ignoredParent = Root
  /\ pc # "delete" => row = 1

\* The walk comes to p, or to what makes it visit p.
Awaited(p) == listed \cap Chain(p) # {}
Owed(p) ==
  /\ p \in ignored /\ ignoredParent \in Chain(p)
  /\ \E q \in Below(p) : q \notin ignored /\ disk[q] # Absent /\ \E l \in listed \cap Chain(q) : p \in Above[l]
Reported(p) == (\E r \in hashing \cup found : r[1] = p) \/ p \in DOMAIN batch
Walked ==
  pc = "walk" /\ clean =>
    \A p \in Paths : Meant(ignored, p) /\ CoveredBy(subs, p) /\ SeenAt(disk, ignored, p) =>
      Awaited(p) \/ Owed(p) \/ Reported(p) \/ RightAt(disk, ignored, p, db[p])

\* After the walk all that is there is on record.
Noted ==
  pc = "delete" => \A p \in Paths : Sure(ignored, subs, clean, checked, p) /\ SeenAt(disk, ignored, p) =>
    RightAt(disk, ignored, p, snap.local[p])

\* Directories that are to be ignored have nothing in them, of what the pass has seen, that is not.
Waiting ==
  \A t \in toIgnore :
    /\ t \in ignored /\ CoveredBy(subs, t) /\ snap.local[t].item.kind = "dir"
    /\ ignoredParent \in Chain(t) /\ Passed(row, t)
    /\ Sure(ignored, subs, clean, checked, t) => \A q \in Below(t) : q \notin ignored /\ disk[q] # Absent => ~Passed(row, q)

\* The pass leaves nothing behind.
Settled ==
  pc = "delete" /\ clean =>
    \A p \in Paths : Meant(ignored, p) /\ CoveredBy(subs, p) /\ Passed(row, p) =>
      p \in toIgnore \/ p \in DOMAIN batch \/ p \in removals \/ SettledAt(disk, ignored, p, db[p])

Seen == PendingRight /\ CheckedRight /\ ListRight /\ Walked /\ Noted /\ Waiting /\ Settled

-----------------------------------------------------------------------------
(* What a forced scan has read *)

ForcingRight ==
  /\ pc \in {"walk", "delete"} => \A p \in forcing : CoveredBy(subs, p)
  /\ pc = "begin" => \A p \in forcing : p \in subs /\ (db[p] = NoFile \/ db[p].flag = "mustrescan")
  /\ pc = "walk" => \A p \in forcing : snap.local[p] = NoFile \/ snap.local[p].flag = "mustrescan"

\* Blocks are those on disk in files that are hashed again, or that have been since the last change.
ReadAt(d, ig, p) == p \notin ig /\ d[p].kind = "file"
CheckedData ==
  \A p \in Paths : <<p, "data">> \in checked =>
    /\ <<p, "stat">> \in checked
    /\ Type # "receiveonly" /\ ReadAt(disk, ignored, p) => db[p].item.data = disk[p].data
DataRight ==
  \A p \in Paths : ReadAt(disk, ignored, p) =>
    /\ <<p, "data">> \in checked \/ (clean /\ p \in forcing) =>
         /\ \A r \in found : r[1] = p => r[2].item.data = disk[p].data
         /\ p \in DOMAIN batch => batch[p].item.data = disk[p].data
    /\ clean /\ p \in forcing =>
         /\ pc = "walk" => Awaited(p) \/ Reported(p) \/ db[p].item.data = disk[p].data
         /\ pc = "delete" => db[p].item.data = disk[p].data

Read == ForcingRight /\ CheckedData /\ (Type # "receiveonly" => DataRight)

-----------------------------------------------------------------------------
(* What is right *)

\* The records of a path.
LEMMA FileOf == ASSUME Basic, NEW p \in Paths PROVE
    /\ disk[p] \in Items /\ Plain(disk[p]) /\ disk[p].stat <= clock /\ clock \in Nat /\ known[p] \in Nat
    /\ LocalFile(db[p], disk[p], clock, known[p]) /\ LocalFile(snap.local[p], disk[p], clock, known[p])
    /\ db[p] \in AllFiles /\ snap.local[p] \in AllFiles /\ Shaped(db[p]) /\ Shaped(snap.local[p])
  BY DEF Basic, Types, DiskRight, DatabaseRight, SnapshotRight, LocalFile

\* A directory that has something in it that is not ignored is seen.
LEMMA SeenAbove ==
    ASSUME Configured, Basic, NEW p \in Paths, NEW q \in Below(p), q \notin ignored, disk[q] # Absent
    PROVE  disk[p] = Directory /\ SeenAt(disk, ignored, p) /\ ~HiddenAt(disk, ignored, p)
<1>1. q \in Paths /\ p \in Above[q]
  BY DEF Below
<1>2. disk[p] = Directory
  BY <1>1 DEF Basic, DiskRight, DirectoryThere
<1> QED
  BY <1>2, TheseArePlain DEF SeenAt, HiddenAt

\* What is ignored and seen is such a directory.
LEMMA SeenIgnored ==
    ASSUME Configured, Basic, NEW p \in Paths, p \in ignored, ~HiddenAt(disk, ignored, p)
    PROVE  disk[p] = Directory /\ SeenAt(disk, ignored, p) /\ \E q \in Below(p) : q \notin ignored /\ disk[q] # Absent
<1>1. PICK q \in Below(p) : q \notin ignored /\ disk[q] # Absent
  BY DEF HiddenAt
<1> QED
  BY <1>1, SeenAbove

\* A file that is taken for the global one is right if it was.
LEMMA MergedRight ==
    ASSUME NEW d, NEW ig, NEW p, NEW f \in AllFiles, NEW g \in AllFiles, Merges(f, g), Shaped(f), Shaped(g), g # NoFile,
           g.flag # "receiveonly", d[p] \in Items, Plain(d[p]), RightAt(d, ig, p, f)
    PROVE  RightAt(d, ig, p, g)
<1>1. /\ Type = "receiveonly" /\ f.flag # "mustrescan" /\ g.flag # "mustrescan" /\ f.item.kind = g.item.kind
      /\ f.deleted = g.deleted /\ (f.flag \in {"none", "receiveonly"} <=> g.flag \in {"none", "receiveonly"})
      /\ f.item.kind = "file" => f.item.stat = g.item.stat
  BY DEF Merges, Equivalent
<1>2. g.item.kind \in {"dir", "file"} /\ f # NoFile
  BY <1>1, TheseArePlain DEF Shaped, NoFile
<1>3. f.flag \in Flags /\ g.flag \in Flags
  BY DEF AllFiles
<1>4. f.flag = "ignored" => g.flag = "ignored"
  BY <1>1, <1>3 DEF Flags
<1>5. CASE HiddenAt(d, ig, p)
  BY <1>2, <1>4, <1>5 DEF RightAt
<1>6. CASE ~HiddenAt(d, ig, p) /\ d[p] = Absent
  BY <1>1, <1>2, <1>4, <1>6 DEF RightAt
<1>7. CASE ~HiddenAt(d, ig, p) /\ d[p] # Absent
  <2>1. /\ ~f.deleted /\ f.flag \in {"none", localFlags} /\ f.item.kind = d[p].kind /\ f.item.stat = d[p].stat
    BY <1>7 DEF RightAt
  <2>2. g.flag \in {"none", localFlags} /\ g.item.kind = d[p].kind /\ ~g.deleted
    BY <1>1, <2>1, LocalFlagsIs
  <2>3. g.item.stat = d[p].stat
    <3>1. CASE g.item.kind = "file"
      BY <1>1, <2>1, <3>1
    <3>2. CASE g.item.kind = "dir"
      <4>1. g.item = Directory /\ d[p] = Directory
        BY <1>1, <2>1, <2>2, <3>2 DEF Shaped, Plain
      <4> QED
        BY <4>1
    <3> QED
      BY <1>2, <3>1, <3>2
  <2> QED
    BY <1>2, <1>7, <2>2, <2>3 DEF RightAt
<1> QED
  BY <1>5, <1>6, <1>7

\* What the walk finds is right, and so is what it takes for unchanged.
LEMMA ResultRight ==
    ASSUME Basic, NEW q \in Paths, SeenAt(disk, ignored, q)
    PROVE  /\ RightAt(disk, ignored, q, Scanned(snap.local[q], disk[q]))
           /\ Result(q) = {} => /\ RightAt(disk, ignored, q, snap.local[q])
                                /\ snap.local[q] # NoFile /\ snap.local[q].flag # "mustrescan"
<1> DEFINE old == snap.local[q]
           new == Scanned(old, disk[q])
<1>1. disk[q] # Absent /\ ~HiddenAt(disk, ignored, q)
  BY DEF SeenAt
<1>2. new # NoFile /\ new.item = disk[q] /\ ~new.deleted /\ new.flag = localFlags
  BY <1>1, ResultIs
<1>3. old \in AllFiles /\ Shaped(old) /\ Plain(disk[q]) /\ disk[q] \in Items
  BY FileOf
<1>4. Result(q) = IF old # NoFile /\ Equivalent(old, new, localFlags, TRUE) THEN {} ELSE {<<q, new>>}
  BY DEF Result, Scanned
<1> HIDE DEF new
<1>5. RightAt(disk, ignored, q, new)
  BY <1>1, <1>2 DEF RightAt
<1>6. ASSUME Result(q) = {} PROVE RightAt(disk, ignored, q, old) /\ old # NoFile /\ old.flag # "mustrescan"
  <2>1. old # NoFile /\ Equivalent(old, new, localFlags, TRUE)
    BY <1>4, <1>6
  <2>2. /\ old.flag # "mustrescan" /\ old.item.kind = disk[q].kind /\ ~old.deleted /\ old.flag \in {"none", localFlags}
        /\ old.item.kind = "file" => old.item.stat = disk[q].stat
    BY <1>2, <1>3, <2>1 DEF Equivalent, AllFiles
  <2>3. old.item.stat = disk[q].stat
    <3>1. CASE old.item.kind = "file"
      BY <2>2, <3>1
    <3>2. CASE old.item.kind = "dir"
      <4>1. old.item = Directory /\ disk[q] = Directory
        BY <1>3, <2>1, <2>2, <3>2 DEF Shaped, Plain
      <4> QED
        BY <4>1
    <3> QED
      BY <1>3, <2>1, <3>1, <3>2 DEF Shaped
  <2> QED
    BY <1>1, <2>1, <2>2, <2>3 DEF RightAt
<1> QED
  BY <1>5, <1>6 DEF new

\* What is gone, and what is ignored and hidden.
LEMMA GoneRight ==
    ASSUME NEW d, NEW ig, NEW p, NEW f, p \notin ig, d[p] = Absent, f.deleted
    PROVE  RightAt(d, ig, p, f)
  BY DEF RightAt, HiddenAt

\* What is marked as ignored is right where it is hidden or absent.
LEMMA IgnoredRight ==
    ASSUME NEW d, NEW ig, NEW p, NEW f, HiddenAt(d, ig, p) \/ d[p] = Absent, f.flag = "ignored"
    PROVE  RightAt(d, ig, p, f)
  BY DEF RightAt

\* Where p is seen, its record is there.
LEMMA SeenIsThere ==
    ASSUME NEW d, NEW ig, NEW p, NEW f, SeenAt(d, ig, p), RightAt(d, ig, p, f)
    PROVE  f # NoFile /\ ~f.deleted /\ f.flag \in {"none", localFlags} /\ f.item.kind = d[p].kind /\ f.item.stat = d[p].stat
  BY DEF SeenAt, RightAt

\* What is right may stay.
LEMMA RightIsSettled == ASSUME NEW d, NEW ig, NEW p, NEW f, RightAt(d, ig, p, f) PROVE SettledAt(d, ig, p, f)
  BY DEF SettledAt

\* What may stay and is seen is right.
LEMMA SeenSettled == ASSUME NEW d, NEW ig, NEW p, NEW f, SeenAt(d, ig, p), SettledAt(d, ig, p, f) PROVE RightAt(d, ig, p, f)
  BY DEF SettledAt, SeenAt

\* Where nothing is under way, it depends on what has been checked.
LEMMA IdleSeen ==
    ASSUME Basic', pc' \in {"idle", "begin"}, ignoredParent' = Root, row' = 1, CheckedRight', CheckedData',
           pc' = "begin" => \A p \in forcing' : p \in subs' /\ (db'[p] = NoFile \/ db'[p].flag = "mustrescan")
    PROVE  Seen' /\ Read'
<1>1. /\ listed' = {} /\ hashing' = {} /\ found' = {} /\ DOMAIN batch' = {} /\ removals' = {} /\ toIgnore' = {} /\ ~clean'
  BY DEF Basic, Resting, NoChanges
<1>2. PendingRight'
  BY <1>1 DEF PendingRight
<1>3. ListRight'
  BY <1>1 DEF ListRight
<1>4. Walked' /\ Noted' /\ Waiting' /\ Settled'
  BY <1>1 DEF Walked, Noted, Waiting, Settled
<1>5. ForcingRight'
  BY DEF ForcingRight
<1>6. DataRight'
  BY <1>1 DEF DataRight
<1> QED
  BY <1>2, <1>3, <1>4, <1>5, <1>6 DEF Seen, Read

\* It stays so as long as what it is about does.
LEMMA SameSeen ==
    ASSUME Seen, Read, UNCHANGED <<disk, ignored, db, checked, clean, scanning>>
    PROVE  Seen' /\ Read'
<1>1. UNCHANGED <<pc, subs, snap, forcing, listed, ignoredParent, hashing, found, batch, removals, row, toIgnore>>
  BY DEF scanning, scope, walking, passing
<1>2. PendingRight' /\ CheckedRight' /\ ListRight'
  BY <1>1 DEF Seen, PendingRight, CheckedRight, ListRight
<1>3. Walked' /\ Noted' /\ Waiting' /\ Settled'
  BY <1>1 DEF Seen, Walked, Awaited, Owed, Reported, Noted, Waiting, Settled
<1>4. Read'
  BY <1>1 DEF Read, ForcingRight, CheckedData, DataRight, Awaited, Reported
<1> QED
  BY <1>2, <1>3, <1>4 DEF Seen

\* When the disk changes nothing is said of what is under way.
LEMMA DiskChangedSeen ==
    ASSUME Seen, Read, NEW change, DiskChanged(change)
    PROVE  Seen' /\ Read'
<1>1. /\ UNCHANGED <<pc, subs, snap, forcing, listed, ignoredParent, hashing, found, batch, removals, row, toIgnore, db, ignored>>
      /\ ~clean' /\ checked' = {}
  BY DEF DiskChanged, scanning, scope, walking, passing
<1>2. \A p \in Paths : ~Sure(ignored', subs', clean', checked', p)
  BY <1>1 DEF Sure
<1>3. PendingRight' /\ Noted' /\ Walked' /\ Settled' /\ CheckedRight'
  BY <1>1, <1>2 DEF PendingRight, Noted, Walked, Settled, CheckedRight
<1>4. ListRight'
  BY <1>1 DEF Seen, ListRight
<1>5. Waiting'
  <2> SUFFICES ASSUME NEW t \in toIgnore' 
               PROVE  /\ t \in ignored' /\ CoveredBy(subs', t) /\ (snap')["local"][t].item.kind = "dir"
                      /\ ignoredParent' \in Chain(t) /\ Passed(row', t) /\ ~Sure(ignored', subs', clean', checked', t)
    BY DEF Waiting
  <2> QED
    BY <1>1 DEF Seen, Waiting, Sure
<1>6. Read'
  BY <1>1 DEF Read, ForcingRight, CheckedData, DataRight
<1> QED
  BY <1>3, <1>4, <1>5, <1>6 DEF Seen

\* What the user and the other device do lets go of what was seen, or does not touch it.
LEMMA OutsideSeen ==
    ASSUME Basic, Basic', Seen, Read, NEW p \in Paths, NEW q \in Paths,
           \/ Write(p) \/ MakeDirectory(p) \/ Delete(p) \/ Corrupt(p) \/ Rename(p, q)
           \/ ChangeHealth \/ ChangeRemote(p) \/ TakeRemote(p) \/ Recheck(p) \/ ScheduleForceRescan(p) \/ UNCHANGED vars
    PROVE  Seen' /\ Read'
<1>1. CASE Write(p) \/ MakeDirectory(p) \/ Delete(p) \/ Corrupt(p) \/ Rename(p, q)
  BY <1>1, DiskChangedSeen DEF Write, MakeDirectory, Delete, Corrupt, Rename
<1>2. CASE ChangeHealth \/ ChangeRemote(p) \/ TakeRemote(p) \/ Recheck(p) \/ ScheduleForceRescan(p) \/ UNCHANGED vars
  <2>1. UNCHANGED <<disk, ignored, db, checked, clean, scanning>>
    BY <1>2 DEF ChangeHealth, ChangeRemote, TakeRemote, Recheck, ScheduleForceRescan, vars, outside
  <2> QED
    BY <2>1, SameSeen
<1> QED
  BY <1>1, <1>2

\* The ignore patterns, forced rescans and Revert let go of what has been checked.
LEMMA LetGoSeen ==
    ASSUME Basic, Basic', Seen, Read, NEW p \in Paths, ChangePatterns(p) \/ HandleForcedRescans \/ Revert
    PROVE  Seen' /\ Read'
<1>1. checked' = {} /\ UNCHANGED <<ignoredParent, row>> /\ pc = "idle"
  BY DEF ChangePatterns, HandleForcedRescans, Revert, scanning, walking, passing
<1>2. CheckedRight' /\ CheckedData'
  BY <1>1 DEF CheckedRight, CheckedData
<1>3. ignoredParent' = Root /\ row' = 1
  BY <1>1 DEF Seen, ListRight
<1>4. pc' \in {"idle", "begin"}
  BY <1>1 DEF ChangePatterns, HandleForcedRescans, Revert, scanning, scope
<1>5. ASSUME pc' = "begin", NEW q \in forcing' PROVE q \in subs' /\ (db'[q] = NoFile \/ db'[q].flag = "mustrescan")
  <2>1. HandleForcedRescans
    BY <1>1, <1>5 DEF ChangePatterns, Revert, scanning, scope
  <2>2. q \in Paths /\ q \in forced /\ q \in subs' /\ db'[q] = IF q \in forced /\ db[q] # NoFile THEN Flagged(db[q], "mustrescan") ELSE db[q]
    BY <1>5, <2>1 DEF HandleForcedRescans, Basic, Types
  <2>3. db[q] \in AllFiles => Flagged(db[q], "mustrescan").flag = "mustrescan"
    BY DEF Flagged, AllFiles
  <2> QED
    BY <2>2, <2>3, FileOf
<1> QED
  BY <1>2, <1>3, <1>4, <1>5, IdleSeen

\* A scan that is asked for has seen nothing yet.
LEMMA StartScanSeen == ASSUME Basic, Basic', Seen, Read, NEW ps, StartScan(ps) PROVE Seen' /\ Read'
<1>1. UNCHANGED <<disk, ignored, db, checked, ignoredParent, row, forcing>> /\ pc = "idle" /\ pc' = "begin"
  BY DEF StartScan, outside, walking, passing
<1>2. CheckedRight' /\ CheckedData'
  BY <1>1 DEF Seen, Read, CheckedRight, CheckedData
<1>3. ignoredParent' = Root /\ row' = 1 /\ forcing' = {}
  BY <1>1 DEF Seen, ListRight, Basic, Resting
<1> QED
  BY <1>1, <1>2, <1>3, IdleSeen

\* What is pulled may change what is hidden only in directories that it is in.
LEMMA PullSeen == ASSUME Configured, Basic, Basic', Seen, Read, NEW p \in Paths, Pull(p) PROVE Seen' /\ Read'
<1> DEFINE g == remote[p]
<1>1. /\ UNCHANGED <<ignored, pc, ignoredParent, row>> /\ pc = "idle"
      /\ checked' = {c \in checked : c[1] \in ignored => ~Related(p, c[1])}
      /\ \/ p \in ignored /\ db' = [db EXCEPT ![p] = Flagged(g, "ignored")] /\ disk' = disk
         \/ /\ p \notin ignored
            /\ disk' = [disk EXCEPT ![p] = IF g.deleted THEN Absent ELSE g.item]
            /\ db' = [db EXCEPT ![p] = g]
      /\ g # NoFile
  BY DEF Pull, scanning, scope, walking, passing, Needed
<1>2. /\ disk \in [Paths -> Items] /\ db \in [Paths -> AllFiles] /\ OtherFile(g, disk[p], clock)
  BY DEF Basic, Types, RemoteRight
<1>3. g \in AllFiles /\ g.flag = "none" /\ g.item.kind # "absent" /\ g.item # Absent
  BY <1>1, <1>2, TheseArePlain DEF OtherFile, Shaped
<1> HIDE DEF g
<1>4. \A q \in Paths \ {p} : disk'[q] = disk[q] /\ db'[q] = db[q]
  BY <1>1, <1>2
<1>5. ASSUME NEW q \in Paths, q \in ignored, ~Related(p, q), NEW a \in Chain(q) PROVE HiddenAt(disk', ignored', a) = HiddenAt(disk, ignored, a)
  <2>1. p \notin Below(a)
    BY <1>5 DEF Related, Chain, Below
  <2>2. \A b \in Below(a) : b \in Paths /\ disk'[b] = disk[b]
    BY <1>4, <2>1 DEF Below
  <2> QED
    BY <1>1, <2>2 DEF HiddenAt
<1>6. ASSUME NEW q \in Paths, <<q, "stat">> \in checked', Meant(ignored', q)
      PROVE  SettledAt(disk', ignored', q, db'[q])
  <2>1. <<q, "stat">> \in checked /\ Meant(ignored, q) /\ (q \in ignored => ~Related(p, q))
    BY <1>1, <1>6
  <2>2. SettledAt(disk, ignored, q, db[q])
    BY <2>1 DEF Seen, CheckedRight
  <2>3. CASE q \in ignored
    <3>1. p # q
      BY <2>1, <2>3 DEF Related
    <3>2. \A a \in Chain(q) : HiddenAt(disk', ignored', a) = HiddenAt(disk, ignored, a)
      BY <1>5, <2>1, <2>3
    <3>3. HiddenAt(disk', ignored', q) = HiddenAt(disk, ignored, q)
      BY <3>2 DEF Chain
    <3>4. \A a \in Above[q] : HiddenAt(disk', ignored', a) = HiddenAt(disk, ignored, a)
      BY <3>2 DEF Chain
    <3>5. disk'[q] = disk[q] /\ db'[q] = db[q]
      BY <1>4, <3>1
    <3> QED
      BY <1>1, <2>2, <3>3, <3>4, <3>5 DEF SettledAt, RightAt
  <2>4. CASE q \notin ignored /\ q # p
    <3>1. ~HiddenAt(disk', ignored', q) /\ ~HiddenAt(disk, ignored, q)
      BY <1>1, <2>4 DEF HiddenAt
    <3> QED
      BY <1>4, <2>2, <2>4, <3>1 DEF SettledAt, RightAt
  <2>5. CASE q \notin ignored /\ q = p
    <3>1. ~HiddenAt(disk', ignored', p)
      BY <1>1, <2>5 DEF HiddenAt
    <3>2. disk'[p] = (IF g.deleted THEN Absent ELSE g.item) /\ db'[p] = g
      BY <1>1, <1>2, <2>5
    <3> QED
      BY <1>1, <1>3, <2>5, <3>1, <3>2 DEF SettledAt, RightAt
  <2> QED
    BY <2>3, <2>4, <2>5
<1>7. ASSUME NEW q \in Paths, <<q, "stat">> \in checked', q \in ignored', NEW r \in Below(q)
      PROVE  <<r, "stat">> \in checked'
  <2>1. <<q, "stat">> \in checked /\ q \in ignored /\ ~Related(p, q)
    BY <1>1, <1>7
  <2>2. <<r, "stat">> \in checked /\ r \in Paths /\ q \in Above[r]
    BY <2>1 DEF Seen, CheckedRight, Below
  <2>3. ~Related(p, r)
    <3> SUFFICES ASSUME NEW x \in Chain(p) \cap Chain(r) PROVE FALSE
      BY DEF Related, Chain
    <3>1. x = q \/ x \in Above[q] \/ q \in Above[x]
      BY <2>2, Nested DEF Chain
    <3>2. Chain(x) \subseteq Chain(p)
      BY Nested
    <3> QED
      BY <2>1, <3>1, <3>2 DEF Related, Chain
  <2> QED
    BY <1>1, <2>2, <2>3
<1>8. CheckedRight'
  BY <1>6, <1>7 DEF CheckedRight
<1>9. ASSUME NEW q \in Paths, <<q, "data">> \in checked'
      PROVE  /\ <<q, "stat">> \in checked'
             /\ Type # "receiveonly" /\ ReadAt(disk', ignored', q) => db'[q].item.data = disk'[q].data
  <2>1. <<q, "data">> \in checked /\ (q \in ignored => ~Related(p, q))
    BY <1>1, <1>9
  <2>2. /\ <<q, "stat">> \in checked
        /\ Type # "receiveonly" /\ ReadAt(disk, ignored, q) => db[q].item.data = disk[q].data
    BY <2>1 DEF Read, CheckedData
  <2>3. <<q, "stat">> \in checked'
    BY <1>1, <2>1, <2>2
  <2>4. CASE q # p
    BY <1>1, <1>4, <2>2, <2>3, <2>4 DEF ReadAt
  <2>5. CASE q = p /\ p \notin ignored
    <3>1. disk'[p] = (IF g.deleted THEN Absent ELSE g.item) /\ db'[p] = g
      BY <1>1, <1>2, <2>5
    <3> QED
      BY <2>3, <2>5, <3>1, TheseArePlain DEF ReadAt
  <2>6. CASE q = p /\ p \in ignored
    BY <1>1, <2>3, <2>6 DEF ReadAt
  <2> QED
    BY <2>4, <2>5, <2>6
<1>10. CheckedData'
  BY <1>9 DEF CheckedData
<1>11. ignoredParent' = Root /\ row' = 1 /\ pc' = "idle"
  BY <1>1 DEF Seen, ListRight
<1> QED
  BY <1>8, <1>10, <1>11, IdleSeen

-----------------------------------------------------------------------------
(* A scan begins *)

\* What is unified covers what was asked for, and nothing of it is in another.
LEMMA UnifiedCovers ==
    ASSUME Configured, NEW ps, ps \subseteq Paths
    PROVE  /\ \A p \in ps : Chain(p) \cap UnifySubs(ps) # {}
           /\ \A u, v \in UnifySubs(ps) : v \notin Above[u]
<1> DEFINE us == UNION {Unified(p) : p \in ps}
<1>1. UnifySubs(ps) = {u \in us : Above[u] \cap us = {}}
  BY DEF UnifySubs
<1>2. us \subseteq Paths
  BY Nested DEF Unified
<1>3. ASSUME NEW p \in ps PROVE \E q \in Chain(p) : q \in us
  <2> DEFINE S == {q \in Chain(p) : ParentKnown(q)}
  <2>1. p \in Paths /\ Chain(p) \subseteq Paths
    BY Nested DEF Chain
  <2>2. PICK t \in Chain(p) : t \in Top
    BY <2>1, TopIsThere
  <2>3. ParentKnown(t)
    BY <2>2 DEF ParentKnown, Top
  <2>4. S \subseteq Paths /\ S # {}
    BY <2>1, <2>2, <2>3
  <2>5. PICK q \in S : \A r \in S : ~Before(q, r)
    BY <2>4, FirstIsThere
  <2>6. q \in Chain(p) /\ ParentKnown(q)
    BY <2>5
  <2>7. ASSUME NEW r \in Chain(p) \ Chain(q) PROVE ~ParentKnown(r)
    <3>1. q \in Above[r]
      BY <2>1, <2>6, Nested DEF Chain
    <3>2. Before(q, r)
      BY <2>1, <3>1, Nested
    <3> QED
      BY <2>5, <3>2
  <2>8. q \in Unified(p)
    BY <2>6, <2>7 DEF Unified, Chain
  <2> QED
    BY <2>6, <2>8
<1> HIDE DEF us
<1>4. ASSUME NEW p \in ps PROVE Chain(p) \cap UnifySubs(ps) # {}
  <2>1. p \in Paths /\ Chain(p) \subseteq Paths
    BY Nested DEF Chain
  <2> DEFINE S == Chain(p) \cap us
  <2>2. S \subseteq Paths /\ S # {}
    BY <1>3, <2>1
  <2>3. PICK q \in S : \A r \in S : ~Before(r, q)
    BY <2>2, FirstIsThere
  <2>4. \A r \in Above[q] : r \in Chain(p) /\ Before(r, q)
    BY <2>1, <2>3, Nested DEF Chain
  <2>5. Above[q] \cap us = {}
    BY <2>3, <2>4
  <2> QED
    BY <1>1, <2>3, <2>5
<1>5. \A u, v \in UnifySubs(ps) : v \notin Above[u]
  BY <1>1
<1> QED
  BY <1>4, <1>5

\* The walk begins with what leads to all that is covered and there.
LEMMA WalkBegins ==
    ASSUME Configured, Basic, BeginScan
    PROVE  /\ \A p \in Paths : CoveredBy(subs', p) /\ disk[p] # Absent => listed' \cap Chain(p) # {}
           /\ \A l \in listed' : CoveredBy(subs', l) /\ disk[l] # Absent
           /\ \A l, m \in listed' : l \notin Above[m]
           /\ \A l \in listed' : \A x \in Above[l] : ~CoveredBy(subs', x)
<1> DEFINE us == UnifySubs(subs)
<1>1. subs' = us /\ listed' = {p \in IF us = {} THEN Top ELSE us : Visited(p)}
  BY DEF BeginScan
<1>2. us \subseteq Paths /\ \A u, v \in us : v \notin Above[u]
  BY UnifiedIs, UnifiedCovers DEF Basic, Types
<1> HIDE DEF us
<1>3. ASSUME NEW p \in Paths, CoveredBy(us, p), disk[p] # Absent PROVE listed' \cap Chain(p) # {}
  <2>1. PICK q \in Chain(p) : q \in IF us = {} THEN Top ELSE us
    BY <1>3, TopIsThere DEF CoveredBy
  <2>2. disk[q] # Absent /\ \A a \in Above[q] : disk[a] = Directory
    <3>1. \A a \in Above[p] : disk[a] = Directory
      BY <1>3 DEF Basic, DiskRight, DirectoryThere
    <3>2. Above[q] \subseteq Above[p]
      BY Nested DEF Chain
    <3> QED
      BY <1>3, <3>1, <3>2, TheseArePlain DEF Chain
  <2> QED
    BY <1>1, <2>1, <2>2 DEF Visited
<1>4. ASSUME NEW l \in listed' PROVE CoveredBy(us, l) /\ disk[l] # Absent
  BY <1>1, <1>4 DEF CoveredBy, Chain, Visited
<1>5. ASSUME NEW l \in listed', NEW m \in listed' PROVE l \notin Above[m]
  BY <1>1, <1>2, <1>5 DEF Top
<1>6. ASSUME NEW l \in listed', NEW x \in Above[l] PROVE ~CoveredBy(us, x)
  <2>1. us # {} /\ l \in us
    BY <1>1, <1>6 DEF Top
  <2>2. Chain(x) \subseteq Above[l]
    BY <1>2, <2>1, Nested DEF Chain
  <2> QED
    BY <1>2, <2>1, <2>2 DEF CoveredBy
<1> QED
  BY <1>1, <1>3, <1>4, <1>5, <1>6

\* The walk begins with what leads to all that is covered.
LEMMA BeginScanSeen == ASSUME Configured, Basic, Basic', Seen, Read, BeginScan PROVE Seen' /\ Read'
<1>1. /\ UNCHANGED <<disk, db, ignored, checked, forcing>> /\ pc' = "walk" /\ pc = "begin" /\ subs' = UnifySubs(subs) /\ clean' = TRUE
      /\ ignoredParent' = Root /\ hashing' = {} /\ found' = {} /\ batch' = NoChanges /\ removals' = {} /\ row' = 1 /\ toIgnore' = {}
      /\ snap' = [local |-> db, remote |-> remote]
  BY DEF BeginScan, outside
<1>2. /\ \A p \in Paths : CoveredBy(subs', p) /\ disk[p] # Absent => listed' \cap Chain(p) # {}
      /\ \A l \in listed' : CoveredBy(subs', l) /\ disk[l] # Absent
      /\ \A l, m \in listed' : l \notin Above[m]
      /\ \A l \in listed' : \A x \in Above[l] : ~CoveredBy(subs', x)
  BY WalkBegins
<1>3. DOMAIN batch' = {} /\ snap'.local = db
  BY <1>1 DEF NoChanges
<1>4. PendingRight'
  BY <1>1, <1>3 DEF PendingRight
<1>5. CheckedRight' /\ CheckedData'
  BY <1>1 DEF Seen, Read, CheckedRight, CheckedData
<1>6. ListRight'
  BY <1>1, <1>2 DEF ListRight
<1>7. Walked'
  BY <1>1, <1>2 DEF Walked, Awaited, SeenAt
<1>8. Noted' /\ Waiting' /\ Settled'
  BY <1>1 DEF Noted, Waiting, Settled
<1>9. \A p \in forcing : p \in subs /\ p \in Paths /\ (db[p] = NoFile \/ db[p].flag = "mustrescan")
  BY <1>1 DEF Read, ForcingRight, Basic, Types
<1>10. \A p \in forcing : CoveredBy(subs', p)
  BY <1>1, <1>9, UnifiedCovers DEF CoveredBy, Basic, Types
<1>11. ForcingRight'
  BY <1>1, <1>3, <1>9, <1>10 DEF ForcingRight
<1>12. DataRight'
  BY <1>1, <1>2, <1>3, <1>10, TheseArePlain DEF DataRight, ReadAt, Awaited
<1> QED
  BY <1>4, <1>5, <1>6, <1>7, <1>8, <1>11, <1>12 DEF Seen, Read

-----------------------------------------------------------------------------
(* What is written *)

\* What becomes of a record that a scan is sure of.
LEMMA WrittenRight ==
    ASSUME Basic, Seen, NEW p \in Paths, Sure(ignored, subs, clean, checked, p),
           \/ db'[p] = db[p]
           \/ p \in DOMAIN batch /\ db'[p] = batch[p]
           \/ p \in removals /\ db'[p] = NoFile
    PROVE  /\ db'[p] = db[p] \/ RightAt(disk, ignored, p, db'[p])
           /\ SettledAt(disk, ignored, p, db[p]) => SettledAt(disk, ignored, p, db'[p])
           /\ RightAt(disk, ignored, p, db[p]) => RightAt(disk, ignored, p, db'[p])
<1>1. db'[p] = db[p] \/ RightAt(disk, ignored, p, db'[p])
  BY DEF Seen, PendingRight
<1> QED
  BY <1>1, RightIsSettled

\* What is written for each path: its change, if there is one.
LEMMA FlushedIs ==
    ASSUME Basic, FlushAll
    PROVE  \A p \in Paths : /\ \/ db'[p] = db[p] /\ p \notin removals
                               \/ p \in DOMAIN batch /\ db'[p] = batch[p]
                               \/ p \in removals /\ db'[p] = NoFile
                            /\ Written /\ p \in DOMAIN batch => db'[p] = batch[p]
                            /\ p \in removals /\ ~(Written /\ p \in DOMAIN batch) => db'[p] = NoFile
  BY DEF FlushAll, Applied

\* What has been checked before stays right.
LEMMA CheckedLasts ==
    ASSUME Basic, Seen, Read, UNCHANGED <<disk, ignored, checked>>,
           \A p \in Paths : \/ db'[p] = db[p]
                            \/ p \in DOMAIN batch /\ db'[p] = batch[p]
                            \/ p \in removals /\ db'[p] = NoFile
    PROVE  CheckedRight' /\ CheckedData'
<1>1. ASSUME NEW p \in Paths, <<p, "stat">> \in checked, Meant(ignored, p) PROVE SettledAt(disk, ignored, p, db'[p])
  <2>1. Sure(ignored, subs, clean, checked, p) /\ SettledAt(disk, ignored, p, db[p])
    BY <1>1 DEF Sure, Seen, CheckedRight
  <2> QED
    BY <2>1, WrittenRight
<1>2. CheckedRight'
  BY <1>1 DEF Seen, CheckedRight
<1>3. ASSUME NEW p \in Paths, <<p, "data">> \in checked, Type # "receiveonly", ReadAt(disk, ignored, p)
      PROVE  db'[p].item.data = disk[p].data
  <2>1. <<p, "stat">> \in checked /\ db[p].item.data = disk[p].data
    BY <1>3 DEF Read, CheckedData
  <2>2. p \in DOMAIN batch => batch[p].item.data = disk[p].data
    BY <1>3 DEF Read, DataRight
  <2>3. SeenAt(disk, ignored, p) /\ Sure(ignored, subs, clean, checked, p)
    BY <1>3, <2>1, TheseArePlain DEF ReadAt, SeenAt, HiddenAt, Sure, Meant
  <2>4. p \notin removals
    BY <2>3, SeenIsThere DEF Seen, PendingRight
  <2> QED
    BY <2>1, <2>2, <2>4
<1>4. CheckedData'
  BY <1>3 DEF Read, CheckedData
<1> QED
  BY <1>2, <1>4

\* The end of a scan that checks nothing.
LEMMA ScanOverSeen ==
    ASSUME Basic, Basic', Seen, Read, ScanOver, UNCHANGED <<disk, ignored, checked>>,
           \A p \in Paths : \/ db'[p] = db[p]
                            \/ p \in DOMAIN batch /\ db'[p] = batch[p]
                            \/ p \in removals /\ db'[p] = NoFile
    PROVE  Seen' /\ Read'
<1>1. CheckedRight' /\ CheckedData'
  BY CheckedLasts
<1>2. pc' = "idle" /\ ignoredParent' = Root /\ row' = 1
  BY DEF ScanOver
<1> QED
  BY <1>1, <1>2, IdleSeen

\* A scan that ends before its time checks nothing.
LEMMA FailsSeen ==
    ASSUME Basic, Basic', Seen, Read, ScanFails \/ Stop \/ (FlushIfFull /\ ~healthy) \/ (EndWalk /\ ~Written)
    PROVE  Seen' /\ Read'
<1>1. CASE ScanFails \/ Stop \/ (FlushIfFull /\ ~healthy)
  <2>1. ScanOver /\ UNCHANGED <<disk, ignored, checked, db>>
    BY <1>1 DEF ScanFails, Stop, FlushIfFull, outside
  <2> QED
    BY <2>1, ScanOverSeen
<1>2. CASE EndWalk /\ ~Written
  <2>1. ScanOver /\ UNCHANGED <<disk, ignored, checked>> /\ FlushAll
    BY <1>2 DEF EndWalk, outside
  <2> QED
    BY <2>1, FlushedIs, ScanOverSeen
<1> QED
  BY <1>1, <1>2

\* A batch is written.
LEMMA FlushIfFullSeen == ASSUME Basic, Basic', Seen, Read, FlushIfFull PROVE Seen' /\ Read'
<1>1. CASE ~healthy
  BY <1>1, FailsSeen
<1>2. CASE healthy
  <2>1. /\ UNCHANGED <<disk, ignored, checked, pc, subs, snap, forcing, listed, ignoredParent, hashing, found, removals, row,
                       toIgnore, clean>>
        /\ batch' = NoChanges /\ db' = Applied(db, batch) /\ pc \in {"walk", "delete"}
    BY <1>2 DEF FlushIfFull, outside, walking, passing, scope
  <2>2. DOMAIN batch' = {}
    BY <2>1 DEF NoChanges
  <2>3. \A p \in Paths : /\ db'[p] = db[p] \/ (p \in DOMAIN batch /\ db'[p] = batch[p])
                         /\ p \in DOMAIN batch => db'[p] = batch[p]
    BY <2>1 DEF Applied
  <2>4. \A p \in Paths : Sure(ignored, subs, clean, checked, p) =>
          /\ db'[p] = db[p] \/ RightAt(disk, ignored, p, db'[p])
          /\ SettledAt(disk, ignored, p, db[p]) => SettledAt(disk, ignored, p, db'[p])
          /\ RightAt(disk, ignored, p, db[p]) => RightAt(disk, ignored, p, db'[p])
          /\ p \in DOMAIN batch => RightAt(disk, ignored, p, db'[p])
    <3>1. \A p \in Paths : Sure(ignored, subs, clean, checked, p) => (p \in DOMAIN batch => RightAt(disk, ignored, p, db'[p]))
      BY <2>3 DEF Seen, PendingRight
    <3> QED
      BY <2>3, <3>1, WrittenRight
  <2>5. PendingRight'
    BY <2>1, <2>2, <2>4 DEF Seen, PendingRight
  <2>6. CheckedRight' /\ CheckedData'
    BY <2>1, <2>3, CheckedLasts
  <2>7. ListRight' /\ Noted' /\ Waiting'
    BY <2>1 DEF Seen, ListRight, Noted, Waiting
  <2>8. Walked'
    <3> SUFFICES ASSUME pc = "walk", clean, NEW p \in Paths, Meant(ignored, p), CoveredBy(subs, p), SeenAt(disk, ignored, p)
                 PROVE  Awaited(p)' \/ Owed(p)' \/ Reported(p)' \/ RightAt(disk, ignored, p, db'[p])
      BY <2>1 DEF Walked
    <3>1. Sure(ignored, subs, clean, checked, p)
      BY DEF Sure
    <3>2. Awaited(p) \/ Owed(p) \/ Reported(p) \/ RightAt(disk, ignored, p, db[p])
      BY DEF Seen, Walked
    <3>3. Awaited(p) \/ Owed(p) => Awaited(p)' \/ Owed(p)'
      BY <2>1 DEF Awaited, Owed
    <3>4. Reported(p) => Reported(p)' \/ RightAt(disk, ignored, p, db'[p])
      BY <2>1, <2>4, <3>1 DEF Reported
    <3> QED
      BY <2>4, <3>1, <3>2, <3>3, <3>4
  <2>9. Settled'
    <3> SUFFICES ASSUME pc = "delete", clean, NEW p \in Paths, Meant(ignored, p), CoveredBy(subs, p), Passed(row, p)
                 PROVE  p \in toIgnore \/ p \in removals \/ SettledAt(disk, ignored, p, db'[p])
      BY <2>1 DEF Settled
    <3>1. Sure(ignored, subs, clean, checked, p)
      BY DEF Sure
    <3> QED
      BY <2>4, <3>1, RightIsSettled DEF Seen, Settled
  <2>10. ForcingRight'
    BY <2>1 DEF Read, ForcingRight
  <2>11. ASSUME Type # "receiveonly", NEW p \in Paths, ReadAt(disk, ignored, p), <<p, "data">> \in checked \/ (clean /\ p \in forcing),
                db[p].item.data = disk[p].data
         PROVE  db'[p].item.data = disk[p].data
    BY <2>3, <2>11 DEF Read, DataRight
  <2>12. Type # "receiveonly" => DataRight'
    <3> SUFFICES ASSUME Type # "receiveonly", NEW p \in Paths, ReadAt(disk, ignored, p)
                 PROVE  /\ <<p, "data">> \in checked \/ (clean /\ p \in forcing) =>
                             \A r \in found : r[1] = p => r[2].item.data = disk[p].data
                        /\ clean /\ p \in forcing =>
                             /\ pc = "walk" => Awaited(p)' \/ Reported(p)' \/ db'[p].item.data = disk[p].data
                             /\ pc = "delete" => db'[p].item.data = disk[p].data
      BY <2>1, <2>2 DEF DataRight
    <3>1. \A r \in found : (<<p, "data">> \in checked \/ (clean /\ p \in forcing)) /\ r[1] = p => r[2].item.data = disk[p].data
      BY DEF Read, DataRight
    <3>2. ASSUME clean, p \in forcing, pc = "walk" PROVE Awaited(p)' \/ Reported(p)' \/ db'[p].item.data = disk[p].data
      <4>1. Awaited(p) \/ Reported(p) \/ db[p].item.data = disk[p].data
        BY <3>2 DEF Read, DataRight
      <4>2. Awaited(p) => Awaited(p)'
        BY <2>1 DEF Awaited
      <4>3. Reported(p) => Reported(p)' \/ db'[p].item.data = disk[p].data
        BY <2>1, <2>3, <3>2 DEF Reported, Read, DataRight
      <4> QED
        BY <2>11, <3>2, <4>1, <4>2, <4>3
    <3>3. ASSUME clean, p \in forcing, pc = "delete" PROVE db'[p].item.data = disk[p].data
      BY <2>11, <3>3 DEF Read, DataRight
    <3> QED
      BY <3>1, <3>2, <3>3
  <2> QED
    BY <2>5, <2>6, <2>7, <2>8, <2>9, <2>10, <2>12 DEF Seen, Read
<1> QED
  BY <1>1, <1>2

\* After the walk what is there is on record.
LEMMA EndWalkSeen == ASSUME Configured, Basic, Basic', Seen, Read, EndWalk PROVE Seen' /\ Read'
<1>1. CASE ~Written
  BY <1>1, FailsSeen
<1>2. CASE Written
  <2>1. /\ UNCHANGED <<disk, ignored, checked, subs, forcing, listed, hashing, found, row, toIgnore, clean>>
        /\ FlushAll /\ pc = "walk" /\ pc' = "delete" /\ snap'.local = db' /\ ignoredParent' = Root
        /\ listed = {} /\ hashing = {} /\ found = {}
    BY <1>2 DEF EndWalk, outside, passing
  <2>2. DOMAIN batch' = {} /\ removals' = {} /\ toIgnore = {}
    BY <2>1 DEF FlushAll, NoChanges, Basic, Resting
  <2>3. \A p \in Paths : /\ \/ db'[p] = db[p] /\ p \notin removals
                            \/ p \in DOMAIN batch /\ db'[p] = batch[p]
                            \/ p \in removals /\ db'[p] = NoFile
                         /\ p \in DOMAIN batch => db'[p] = batch[p]
    BY <1>2, <2>1, FlushedIs
  <2>4. \A p \in Paths : Sure(ignored, subs, clean, checked, p) =>
          /\ RightAt(disk, ignored, p, db[p]) => RightAt(disk, ignored, p, db'[p])
          /\ p \in DOMAIN batch => RightAt(disk, ignored, p, db'[p])
          /\ p \in removals => ~SeenAt(disk, ignored, p)
    <3>1. \A p \in Paths : Sure(ignored, subs, clean, checked, p) =>
            /\ p \in DOMAIN batch => RightAt(disk, ignored, p, db'[p])
            /\ p \in removals => ~SeenAt(disk, ignored, p)
      BY <2>3, SeenIsThere DEF Seen, PendingRight
    <3> QED
      BY <2>3, <3>1, WrittenRight
  <2>5. PendingRight'
    BY <2>1, <2>2 DEF PendingRight
  <2>6. CheckedRight' /\ CheckedData'
    BY <2>1, <2>3, CheckedLasts
  <2>7. ListRight'
    BY <2>1 DEF ListRight
  <2>8. Walked' /\ Waiting'
    BY <2>1, <2>2 DEF Walked, Waiting
  <2>9. Noted'
    <3> SUFFICES ASSUME NEW p \in Paths, Sure(ignored, subs, clean, checked, p), SeenAt(disk, ignored, p)
                 PROVE  RightAt(disk, ignored, p, db'[p])
      BY <2>1 DEF Noted
    <3>1. CASE <<p, "stat">> \in checked
      BY <2>1, <2>6, <3>1, SeenSettled DEF Sure, CheckedRight
    <3>2. CASE clean /\ CoveredBy(subs, p)
      <4>1. Awaited(p) \/ Owed(p) \/ Reported(p) \/ RightAt(disk, ignored, p, db[p])
        BY <2>1, <3>2 DEF Seen, Walked, Sure
      <4>2. ~Awaited(p) /\ ~Owed(p) /\ (Reported(p) => p \in DOMAIN batch)
        BY <2>1 DEF Awaited, Owed, Reported
      <4> QED
        BY <2>4, <4>1, <4>2
    <3> QED
      BY <3>1, <3>2 DEF Sure
  <2>10. Settled'
    <3>1. row' = 1
      BY <2>1 DEF Seen, ListRight
    <3>2. \A p \in Paths : ~Passed(row', p)
      BY <3>1, NamesInOrder DEF Passed
    <3> QED
      BY <3>2 DEF Settled
  <2>11. ForcingRight'
    BY <2>1 DEF Read, ForcingRight
  <2>12. Type # "receiveonly" => DataRight'
    <3> SUFFICES ASSUME Type # "receiveonly", NEW p \in Paths, ReadAt(disk, ignored, p), clean, p \in forcing
                 PROVE  db'[p].item.data = disk[p].data
      BY <2>1, <2>2 DEF DataRight
    <3>1. Awaited(p) \/ Reported(p) \/ db[p].item.data = disk[p].data
      BY <2>1 DEF Read, DataRight
    <3>2. ~Awaited(p) /\ (Reported(p) => p \in DOMAIN batch)
      BY <2>1 DEF Awaited, Reported
    <3>3. p \in DOMAIN batch => batch[p].item.data = disk[p].data
      BY DEF Read, DataRight
    <3>4. SeenAt(disk, ignored, p) /\ Sure(ignored, subs, clean, checked, p)
      BY <2>1, TheseArePlain DEF ReadAt, SeenAt, HiddenAt, Sure, Meant, Read, ForcingRight
    <3>5. p \notin removals
      BY <2>4, <3>4
    <3> QED
      BY <2>3, <3>1, <3>2, <3>3, <3>5
  <2> QED
    BY <2>5, <2>6, <2>7, <2>8, <2>9, <2>10, <2>11, <2>12 DEF Seen, Read
<1> QED
  BY <1>1, <1>2

\* At the end what is covered has been checked.
LEMMA EndScanSeen == ASSUME Configured, Basic, Basic', Seen, Read, EndScan PROVE Seen' /\ Read'
<1>1. /\ UNCHANGED <<disk, ignored>> /\ FlushAll /\ ScanOver /\ pc = "delete" /\ row > Len(Order) /\ toIgnore = {}
      /\ checked' = IF clean /\ Written THEN checked \cup ({p \in Paths : Covered(p)} \X {"stat"}) \cup (forcing \X {"data"})
                    ELSE checked
  BY DEF EndScan, outside
<1>2. \A p \in Paths : /\ \/ db'[p] = db[p] /\ p \notin removals
                          \/ p \in DOMAIN batch /\ db'[p] = batch[p]
                          \/ p \in removals /\ db'[p] = NoFile
                       /\ Written /\ p \in DOMAIN batch => db'[p] = batch[p]
                       /\ p \in removals /\ ~(Written /\ p \in DOMAIN batch) => db'[p] = NoFile
  BY <1>1, FlushedIs
<1>3. CASE ~(clean /\ Written)
  BY <1>1, <1>2, <1>3, ScanOverSeen
<1>4. CASE clean /\ Written
  <2>1. \A p \in Paths : Passed(row, p)
    BY <1>1, NamesInOrder DEF Passed, Basic, Types
  <2>2. \A p \in Paths : Covered(p) <=> CoveredBy(subs, p)
    BY DEF Covered, CoveredBy, Chain
  <2>3. \A p \in Paths : <<p, "stat">> \in checked' <=> <<p, "stat">> \in checked \/ CoveredBy(subs, p)
    BY <1>1, <1>4, <2>2
  <2>4. \A p \in Paths : <<p, "data">> \in checked' => <<p, "data">> \in checked \/ p \in forcing
    BY <1>1, <1>4
  <2>5. ASSUME NEW p \in Paths, <<p, "stat">> \in checked', Meant(ignored, p) PROVE SettledAt(disk, ignored, p, db'[p])
    <3>1. Sure(ignored, subs, clean, checked, p)
      BY <1>4, <2>3, <2>5 DEF Sure
    <3>2. /\ SettledAt(disk, ignored, p, db[p]) => SettledAt(disk, ignored, p, db'[p])
      BY <1>2, <3>1, WrittenRight
    <3>3. CASE <<p, "stat">> \in checked
      BY <2>5, <3>2, <3>3 DEF Seen, CheckedRight
    <3>4. CASE CoveredBy(subs, p)
      <4>1. p \in DOMAIN batch \/ p \in removals \/ SettledAt(disk, ignored, p, db[p])
        BY <1>1, <1>4, <2>1, <2>5, <3>4 DEF Seen, Settled
      <4>2. (p \in DOMAIN batch => RightAt(disk, ignored, p, batch[p])) /\ (p \in removals => RightAt(disk, ignored, p, NoFile))
        BY <3>1 DEF Seen, PendingRight
      <4>3. p \in DOMAIN batch => SettledAt(disk, ignored, p, db'[p])
        BY <1>2, <1>4, <4>2, RightIsSettled
      <4>4. p \in removals => SettledAt(disk, ignored, p, db'[p])
        BY <1>2, <4>2, <4>3, RightIsSettled
      <4> QED
        BY <3>2, <4>1, <4>3, <4>4
    <3> QED
      BY <2>3, <2>5, <3>3, <3>4
  <2>6. ASSUME NEW p \in Paths, <<p, "stat">> \in checked', p \in ignored, NEW q \in Below(p) PROVE <<q, "stat">> \in checked'
    <3>1. q \in Paths /\ Chain(p) \subseteq Chain(q)
      BY Nested DEF Below, Chain
    <3>2. CoveredBy(subs, p) => CoveredBy(subs, q)
      BY <3>1 DEF CoveredBy
    <3> QED
      BY <2>3, <2>6, <3>1, <3>2 DEF Seen, CheckedRight
  <2>7. CheckedRight'
    BY <1>1, <2>5, <2>6 DEF CheckedRight
  <2>8. ASSUME NEW p \in Paths, <<p, "data">> \in checked'
        PROVE  /\ <<p, "stat">> \in checked'
               /\ Type # "receiveonly" /\ ReadAt(disk, ignored, p) => db'[p].item.data = disk[p].data
    <3>1. <<p, "data">> \in checked \/ p \in forcing
      BY <2>4, <2>8
    <3>2. <<p, "stat">> \in checked'
      BY <1>1, <2>3, <3>1 DEF Read, ForcingRight, CheckedData
    <3>3. ASSUME Type # "receiveonly", ReadAt(disk, ignored, p) PROVE db'[p].item.data = disk[p].data
      <4>1. db[p].item.data = disk[p].data /\ (p \in DOMAIN batch => batch[p].item.data = disk[p].data)
        BY <1>1, <1>4, <3>1, <3>3 DEF Read, CheckedData, DataRight
      <4>2. SeenAt(disk, ignored, p) /\ Sure(ignored, subs, clean, checked, p)
        BY <1>4, <2>3, <3>2, <3>3, TheseArePlain DEF ReadAt, SeenAt, HiddenAt, Sure, Meant
      <4>3. p \notin removals
        BY <4>2, SeenIsThere DEF Seen, PendingRight
      <4> QED
        BY <1>2, <4>1, <4>3
    <3> QED
      BY <3>2, <3>3
  <2>9. CheckedData'
    BY <1>1, <2>8 DEF CheckedData
  <2>10. pc' = "idle" /\ ignoredParent' = Root /\ row' = 1
    BY <1>1 DEF ScanOver
  <2> QED
    BY <2>7, <2>9, <2>10, IdleSeen
<1> QED
  BY <1>3, <1>4

-----------------------------------------------------------------------------
(* The walk *)

\* A walk that is cut short is not clean.
LEMMA VisitFailsSeen == ASSUME Basic, Basic', Seen, Read, NEW p \in Paths, VisitFails(p) PROVE Seen' /\ Read'
<1>1. /\ UNCHANGED <<disk, ignored, checked, pc, subs, snap, forcing, ignoredParent, hashing, found, batch, removals, row,
                     toIgnore, db>>
      /\ pc = "walk" /\ listed' = {} /\ clean' = FALSE
  BY DEF VisitFails, outside, passing, scope
<1>2. \A q \in Paths : Sure(ignored, subs, clean', checked, q) => Sure(ignored, subs, clean, checked, q)
  BY <1>1 DEF Sure
<1>3. PendingRight'
  BY <1>1, <1>2 DEF Seen, PendingRight
<1>4. CheckedRight' /\ CheckedData'
  BY <1>1 DEF Seen, Read, CheckedRight, CheckedData
<1>5. ListRight'
  BY <1>1 DEF Seen, ListRight
<1>6. Walked' /\ Noted' /\ Settled'
  BY <1>1 DEF Walked, Noted, Settled
<1>7. Waiting'
  BY <1>1 DEF Waiting, Basic, Resting
<1>8. ForcingRight'
  BY <1>1 DEF Read, ForcingRight
<1>9. Type # "receiveonly" => DataRight'
  BY <1>1 DEF Read, DataRight
<1> QED
  BY <1>3, <1>4, <1>5, <1>6, <1>7, <1>8, <1>9 DEF Seen, Read

\* A file that has been hashed is right if it was, and has the data on disk.
LEMMA HashSeen == ASSUME Basic, Basic', Seen, Read, NEW r \in hashing, Hash(r) PROVE Seen' /\ Read'
<1> DEFINE p == r[1]
           new == <<p, Hashed(r[2], disk[p])>>
<1>1. /\ UNCHANGED <<disk, ignored, checked, pc, subs, snap, forcing, ignoredParent, listed, batch, removals, row, toIgnore, db>>
      /\ pc = "walk" /\ hashing' = hashing \ {r}
      /\ \/ found' = found \cup {new} /\ clean' = clean
         \/ found' = found /\ clean' = FALSE
  BY DEF Hash, outside, passing, scope, Hashed
<1>2. p \in Paths /\ disk[p] \in Items /\ clock \in Nat /\ known[p] \in Nat /\ r[2].item.kind = "file"
      /\ LocalFile(r[2], disk[p], clock, known[p])
  BY DEF Basic, Types, WalkRight
<1> DEFINE f == Hashed(r[2], disk[p])
<1>3. /\ f.item.kind = "file" /\ f.item.stat = r[2].item.stat /\ f.item.data = disk[p].data /\ f.deleted = r[2].deleted
      /\ f.flag = r[2].flag /\ f # NoFile
  BY <1>2, HashedIs, TheseArePlain DEF NoFile
<1> HIDE DEF f
<1>4. r[2] # NoFile
  BY <1>2, TheseArePlain DEF NoFile
<1>5. RightAt(disk, ignored, p, r[2]) => RightAt(disk, ignored, p, f)
  BY <1>2, <1>3, <1>4 DEF RightAt
<1>6. \A q \in Paths : Sure(ignored, subs, clean', checked, q) => Sure(ignored, subs, clean, checked, q)
  BY <1>1 DEF Sure
<1>7. new = <<p, f>>
  BY DEF f
<1> HIDE DEF new, p
<1>8. ASSUME NEW q \in Paths, Sure(ignored, subs, clean, checked, q), NEW s \in hashing' \cup found', s[1] = q
      PROVE  RightAt(disk, ignored, q, s[2])
  <2>1. CASE s \in hashing \cup found
    BY <1>8, <2>1 DEF Seen, PendingRight
  <2>2. CASE s = new
    <3>1. q = p /\ s[2] = f
      BY <1>7, <1>8, <2>2
    <3>2. RightAt(disk, ignored, p, r[2])
      BY <1>8, <3>1 DEF Seen, PendingRight, p
    <3> QED
      BY <1>5, <3>1, <3>2
  <2> QED
    BY <1>1, <2>1, <2>2
<1>9. PendingRight'
  BY <1>1, <1>6, <1>8 DEF Seen, PendingRight
<1>10. CheckedRight' /\ CheckedData'
  BY <1>1 DEF Seen, Read, CheckedRight, CheckedData
<1>11. ListRight'
  BY <1>1 DEF Seen, ListRight
<1>12. \A q \in Paths : clean' => /\ Reported(q) => Reported(q)'
                                  /\ Awaited(q) => Awaited(q)'
                                  /\ Owed(q) => Owed(q)'
  <2>1. \A q \in Paths : clean' /\ Reported(q) => Reported(q)'
    BY <1>1, <1>7 DEF Reported, p
  <2> QED
    BY <1>1, <2>1 DEF Awaited, Owed
<1>13. Walked'
  BY <1>1, <1>12 DEF Seen, Walked
<1>14. Noted' /\ Settled'
  BY <1>1 DEF Noted, Settled
<1>15. Waiting'
  BY <1>1 DEF Waiting, Basic, Resting
<1>16. ForcingRight'
  BY <1>1 DEF Read, ForcingRight
<1>17. Type # "receiveonly" => DataRight'
  <2> SUFFICES ASSUME Type # "receiveonly", NEW q \in Paths, ReadAt(disk, ignored, q)
               PROVE  /\ <<q, "data">> \in checked \/ (clean' /\ q \in forcing) =>
                           /\ \A s \in found' : s[1] = q => s[2].item.data = disk[q].data
                           /\ q \in DOMAIN batch => batch[q].item.data = disk[q].data
                      /\ clean' /\ q \in forcing => Awaited(q)' \/ Reported(q)' \/ db[q].item.data = disk[q].data
    BY <1>1 DEF DataRight
  <2>1. ASSUME <<q, "data">> \in checked \/ (clean' /\ q \in forcing), NEW s \in found', s[1] = q
        PROVE  s[2].item.data = disk[q].data
    <3>1. CASE s \in found
      BY <1>1, <2>1, <3>1 DEF Read, DataRight
    <3>2. CASE s = new
      BY <1>3, <1>7, <2>1, <3>2
    <3> QED
      BY <1>1, <2>1, <3>1, <3>2
  <2> QED
    BY <1>1, <1>12, <2>1 DEF Read, DataRight
<1> QED
  BY <1>9, <1>10, <1>11, <1>13, <1>14, <1>15, <1>16, <1>17 DEF Seen, Read

\* The walk goes on with what is in a directory, before all else.
LEMMA VisitListed ==
    ASSUME Configured, Basic, ListRight, NEW p \in listed, \A q \in listed : ~Earlier(q, p),
           listed' \subseteq (listed \ {p}) \cup Children(p)
    PROVE  /\ \A l, m \in listed' : l \notin Above[m]
           /\ \A l, m \in listed' : \A x \in Above[l] : CoveredBy(subs, x) /\ x \notin Above[m] => Earlier(l, m)
           /\ \A l \in listed' : CoveredBy(subs, l)
<1>1. p \in Paths /\ listed \subseteq Paths
  BY DEF Basic, Types
<1>2. /\ \A l, m \in listed : l \notin Above[m]
      /\ \A l, m \in listed : \A x \in Above[l] : CoveredBy(subs, x) /\ x \notin Above[m] => Earlier(l, m)
      /\ \A l \in listed : CoveredBy(subs, l)
  BY DEF ListRight
<1>3. ASSUME NEW m \in listed \ {p} PROVE m \in Paths /\ p \notin Chain(m) /\ m \notin Chain(p) /\ Earlier(p, m) /\ ~Earlier(m, p)
  <2>1. m \in Paths /\ p \notin Chain(m) /\ m \notin Chain(p)
    BY <1>1, <1>2 DEF Chain
  <2> QED
    BY <1>1, <2>1, WalkIsOrdered
<1>4. ASSUME NEW c \in Children(p) PROVE c \in Paths /\ Above[c] = Above[p] \cup {p} /\ c \in Below(p) /\ c \notin Above[c]
  BY Nested DEF Children, Below
<1>5. ASSUME NEW m \in listed \ {p}, NEW c \in Children(p) PROVE Earlier(c, m)
  BY <1>1, <1>3, <1>4, WalkIsDeep
<1>6. ASSUME NEW l \in listed', NEW m \in listed' PROVE l \notin Above[m]
  <2>1. CASE l \in listed \ {p} /\ m \in listed \ {p}
    BY <1>2, <2>1
  <2>2. CASE l \in listed \ {p} /\ m \in Children(p)
    BY <1>3, <1>4, <2>2 DEF Chain
  <2>3. CASE l \in Children(p) /\ m \in listed \ {p}
    <3>1. l \in Above[m] => p \in Above[m]
      BY <1>3, <1>4, <2>3, Nested
    <3> QED
      BY <1>3, <2>3, <3>1 DEF Chain
  <2>4. CASE l \in Children(p) /\ m \in Children(p)
    BY <1>4, <2>4
  <2> QED
    BY <2>1, <2>2, <2>3, <2>4
<1>7. ASSUME NEW l \in listed', NEW m \in listed', NEW x \in Above[l], CoveredBy(subs, x), x \notin Above[m] PROVE Earlier(l, m)
  <2>1. CASE l \in listed \ {p} /\ m \in listed \ {p}
    BY <1>2, <1>7, <2>1
  <2>2. CASE l \in listed \ {p} /\ m \in Children(p)
    <3>1. x \notin Above[p]
      BY <1>4, <1>7, <2>2
    <3> QED
      BY <1>2, <1>3, <1>7, <2>2, <3>1
  <2>3. CASE l \in Children(p) /\ m \in listed \ {p}
    BY <1>5, <2>3
  <2>4. CASE l \in Children(p) /\ m \in Children(p)
    BY <1>4, <1>7, <2>4
  <2> QED
    BY <2>1, <2>2, <2>3, <2>4
<1>8. ASSUME NEW l \in listed' PROVE CoveredBy(subs, l)
  <2>1. CASE l \in listed
    BY <1>2, <2>1
  <2>2. CASE l \in Children(p)
    <3>1. Chain(p) \subseteq Chain(l)
      BY <1>4, <2>2 DEF Chain
    <3> QED
      BY <1>2, <3>1 DEF CoveredBy
  <2> QED
    BY <2>1, <2>2
<1> QED
  BY <1>6, <1>7, <1>8

\* It comes to all that is there below what it visits.
LEMMA VisitGoesOn ==
    ASSUME Configured, Basic, NEW p \in Paths, NEW w \in Below(p), disk[w] # Absent
    PROVE  /\ disk[p] = Directory
           /\ \E c \in Children(p) : c \in Chain(w) /\ disk[c] # Absent /\ Above[c] = Above[p] \cup {p}
<1>1. w \in Paths /\ p \in Above[w]
  BY DEF Below
<1>2. \A a \in Above[w] : disk[a] = Directory
  BY <1>1 DEF Basic, DiskRight, DirectoryThere
<1>3. PICK c \in Children(p) : c \in Chain(w)
  BY ChildIsThere
<1> QED
  BY <1>1, <1>2, <1>3, TheseArePlain DEF Chain, Children

\* What the walk says of a visit, and of the directories that it has passed over.
LEMMA VisitReports ==
    ASSUME Configured, Basic, Seen, NEW p \in Paths, pc = "walk", NEW results,
           results = UNION {Result(q) : q \in PassedOver(p) \cup {p}},
           hashing' = hashing \cup {r \in results : r[2].item.kind = "file"},
           found' = found \cup {r \in results : r[2].item.kind = "dir"},
           NEW w \in PassedOver(p) \cup {p}, w \in Paths, SeenAt(disk, ignored, w), Sure(ignored, subs, clean, checked, w)
    PROVE  /\ Reported(w)' \/ RightAt(disk, ignored, w, db[w])
           /\ snap.local[w] = NoFile \/ snap.local[w].flag = "mustrescan" => Reported(w)'
<1>1. disk[w] # Absent /\ disk[w].kind \in {"dir", "file"}
  <2>1. disk[w] \in Items /\ Plain(disk[w])
    BY FileOf
  <2> QED
    BY <2>1 DEF SeenAt, Items, Kinds, Plain
<1> DEFINE new == Scanned(snap.local[w], disk[w])
<1>2. (Result(w) = {} \/ Result(w) = {<<w, new>>}) /\ new.item = disk[w]
  BY <1>1, ResultIs
<1>3. Result(w) = {} => RightAt(disk, ignored, w, snap.local[w]) /\ snap.local[w] # NoFile /\ snap.local[w].flag # "mustrescan"
  BY ResultRight
<1>4. CASE Result(w) = {}
  BY <1>3, <1>4 DEF Seen, PendingRight
<1>5. CASE Result(w) = {<<w, new>>}
  <2>1. <<w, new>> \in results
    BY <1>5
  <2> HIDE DEF new
  <2>2. <<w, new>> \in hashing' \cup found'
    BY <1>1, <1>2, <2>1
  <2> QED
    BY <2>2 DEF Reported
<1> QED
  BY <1>2, <1>4, <1>5

\* The walk goes on with what is in a directory, and reports what is not as on record.
LEMMA VisitSeen == ASSUME Configured, Basic, Basic', Seen, Read, NEW p \in Paths, Visit(p) PROVE Seen' /\ Read'
<1> DEFINE results == UNION {Result(q) : q \in PassedOver(p) \cup {p}}
           started == disk[p] = Directory /\ (ignoredParent = Root \/ ignoredParent \notin Above[p])
           ignoring == /\ p \in ignored /\ disk[p] # Absent
                       /\ ignoredParent' = IF started THEN p ELSE ignoredParent
                       /\ UNCHANGED <<hashing, found>>
           reporting == /\ p \notin ignored /\ disk[p] # Absent
                        /\ ignoredParent' = Root
                        /\ hashing' = hashing \cup {r \in results : r[2].item.kind = "file"}
                        /\ found' = found \cup {r \in results : r[2].item.kind = "dir"}
<1>1. /\ UNCHANGED <<disk, ignored, checked, pc, subs, snap, forcing, batch, removals, row, toIgnore, db, clean>>
      /\ pc = "walk" /\ p \in listed /\ \A q \in listed : ~Earlier(q, p)
      /\ listed' = (listed \ {p}) \cup IF disk[p] = Directory THEN {q \in Children(p) : disk[q] # Absent} ELSE {}
  BY DEF Visit, outside, passing, scope
<1>2. \/ disk[p] = Absent /\ UNCHANGED <<ignoredParent, hashing, found>>
      \/ ignoring \/ reporting
  BY DEF Visit
<1> HIDE DEF results
<1>3. listed' \subseteq (listed \ {p}) \cup Children(p)
  BY <1>1
<1>4. ListRight
  BY DEF Seen
<1>5. /\ \A l, m \in listed' : l \notin Above[m]
      /\ \A l, m \in listed' : \A x \in Above[l] : CoveredBy(subs, x) /\ x \notin Above[m] => Earlier(l, m)
      /\ \A l \in listed' : CoveredBy(subs, l)
  BY <1>1, <1>3, <1>4, VisitListed
<1>6. CoveredBy(subs, p) /\ (clean => disk[p] # Absent)
  BY <1>1, <1>4 DEF ListRight
<1>7. ListRight'
  <2>1. ignoredParent' = Root \/ (ignoredParent' \in ignored /\ CoveredBy(subs, ignoredParent'))
    BY <1>2, <1>4, <1>6 DEF ListRight
  <2>2. \A l \in listed' : clean => disk[l] # Absent
    BY <1>1, <1>4 DEF ListRight
  <2>3. row' = 1 /\ pc' = "walk"
    BY <1>1, <1>4 DEF ListRight
  <2> QED
    BY <1>1, <1>5, <2>1, <2>2, <2>3 DEF ListRight
<1>8. ASSUME NEW w \in Below(p), disk[w] # Absent
      PROVE  disk[p] = Directory /\ \E c \in listed' \cap Chain(w) : Above[c] = Above[p] \cup {p}
  <2>1. /\ disk[p] = Directory
        /\ \E c \in Children(p) : c \in Chain(w) /\ disk[c] # Absent /\ Above[c] = Above[p] \cup {p}
    BY <1>8, VisitGoesOn
  <2> QED
    BY <1>1, <2>1
<1>9. ASSUME reporting, NEW w \in PassedOver(p) \cup {p} PROVE w \in Paths /\ SeenAt(disk, ignored, w)
  <2>1. CASE w = p
    BY <1>9, <2>1 DEF SeenAt, HiddenAt
  <2>2. CASE w \in Above[p]
    <3>1. w \in Paths /\ p \in Below(w)
      BY <2>2, Nested DEF Below
    <3> QED
      BY <1>9, <3>1, SeenAbove
  <2> QED
    BY <1>9, <2>1, <2>2 DEF PassedOver
<1>10. ASSUME reporting, NEW r \in results
       PROVE  r[1] \in Paths /\ RightAt(disk, ignored, r[1], r[2]) /\ r[2].item = disk[r[1]]
  <2>1. PICK w \in PassedOver(p) \cup {p} : r \in Result(w)
    BY <1>10 DEF results
  <2>2. w \in Paths /\ SeenAt(disk, ignored, w)
    BY <1>9, <1>10
  <2>3. r = <<w, Scanned(snap.local[w], disk[w])>> /\ Scanned(snap.local[w], disk[w]).item = disk[w]
    BY <2>1, <2>2, ResultIs DEF SeenAt
  <2>4. RightAt(disk, ignored, w, Scanned(snap.local[w], disk[w]))
    BY <2>2, ResultRight
  <2> QED
    BY <2>2, <2>3, <2>4
<1>11. ASSUME reporting, NEW w \in PassedOver(p) \cup {p}, Sure(ignored, subs, clean, checked, w)
       PROVE  /\ Reported(w)' \/ RightAt(disk, ignored, w, db[w])
              /\ snap.local[w] = NoFile \/ snap.local[w].flag = "mustrescan" => Reported(w)'
  <2>1. w \in Paths /\ SeenAt(disk, ignored, w)
    BY <1>9, <1>11
  <2> QED
    BY <1>1, <1>11, <2>1, VisitReports DEF results
<1>12. hashing \subseteq hashing' /\ found \subseteq found'
  BY <1>2
<1>13. PendingRight'
  <2>1. \A r \in (hashing' \cup found') \ (hashing \cup found) : reporting /\ r \in results
    BY <1>2
  <2> QED
    BY <1>1, <1>10, <2>1 DEF Seen, PendingRight
<1>14. CheckedRight' /\ CheckedData'
  BY <1>1 DEF Seen, Read, CheckedRight, CheckedData
<1>15. ASSUME NEW w \in Paths, clean, Meant(ignored, w), CoveredBy(subs, w), SeenAt(disk, ignored, w),
              Awaited(w) \/ Owed(w)
       PROVE  Awaited(w)' \/ Owed(w)' \/ Reported(w)' \/ RightAt(disk, ignored, w, db[w])
  <2>1. Sure(ignored, subs, clean, checked, w)
    BY <1>15 DEF Sure
  <2>2. CASE Awaited(w)
    <3>1. PICK l \in listed : l \in Chain(w)
      BY <2>2 DEF Awaited
    <3>2. CASE l # p
      BY <1>1, <3>1, <3>2 DEF Awaited
    <3>3. CASE l = p /\ w # p
      <4>1. w \in Below(p)
        BY <3>1, <3>3 DEF Chain, Below
      <4> QED
        BY <1>8, <1>15, <4>1 DEF SeenAt, Awaited
    <3>4. CASE w = p /\ p \in ignored
      <4>1. ignoring
        BY <1>2, <1>6, <1>15, <3>4
      <4>2. disk[p] = Directory /\ \E q \in Below(p) : q \notin ignored /\ disk[q] # Absent
        BY <1>15, <3>4, SeenIgnored DEF SeenAt
      <4>3. PICK q \in Below(p) : q \notin ignored /\ disk[q] # Absent
        BY <4>2
      <4>4. PICK c \in listed' \cap Chain(q) : Above[c] = Above[p] \cup {p}
        BY <1>8, <4>3
      <4>5. ignoredParent' \in Chain(p)
        BY <4>1, <4>2 DEF Chain
      <4> QED
        BY <1>1, <3>4, <4>3, <4>4, <4>5 DEF Owed
    <3>5. CASE w = p /\ p \notin ignored
      BY <1>2, <1>6, <1>11, <1>15, <2>1, <3>5
    <3> QED
      BY <3>2, <3>3, <3>4, <3>5
  <2>3. CASE Owed(w)
    <3>1. PICK q \in Below(w) : q \notin ignored /\ disk[q] # Absent /\ \E l \in listed \cap Chain(q) : w \in Above[l]
      BY <2>3 DEF Owed
    <3>2. PICK m \in listed \cap Chain(q) : w \in Above[m]
      BY <3>1
    <3>3. w \in ignored /\ ignoredParent \in Chain(w) /\ q \in Paths /\ m \in Paths /\ Chain(w) \subseteq Above[m]
      <4>1. m \in Paths
        BY DEF Basic, Types
      <4> QED
        BY <2>3, <3>2, <4>1, Nested DEF Owed, Below, Chain
    <3>4. ignoredParent # Root /\ CoveredBy(subs, ignoredParent) /\ ignoredParent \in Paths
      <4>1. ignoredParent \in Paths
        BY <3>3, Nested DEF Chain
      <4> QED
        BY <1>4, <4>1 DEF ListRight, Configured
    <3>5. \A x \in Above[m] : CoveredBy(subs, x) => x \in Above[p]
      BY <1>1, <1>4, <3>2 DEF ListRight
    <3>6. w \in Above[p] /\ ignoredParent \in Above[p]
      BY <1>15, <3>2, <3>3, <3>4, <3>5
    <3>7. CASE p \in ignored
      <4>1. ignoring
        BY <1>2, <1>6, <1>15, <3>7
      <4>2. ignoredParent' = ignoredParent
        BY <3>4, <3>6, <4>1
      <4>3. \E l \in listed' \cap Chain(q) : w \in Above[l]
        <5>1. CASE m # p
          BY <1>1, <3>2, <5>1
        <5>2. CASE m = p
          <6>1. q \in Below(p)
            BY <3>1, <3>2, <3>7, <3>3, <5>2 DEF Chain, Below
          <6>2. PICK c \in listed' \cap Chain(q) : Above[c] = Above[p] \cup {p}
            BY <1>8, <3>1, <6>1
          <6> QED
            BY <3>6, <6>2
        <5> QED
          BY <5>1, <5>2
      <4> QED
        BY <1>1, <3>1, <3>3, <4>2, <4>3 DEF Owed
    <3>8. CASE p \notin ignored
      <4>1. w \in PassedOver(p)
        BY <3>3, <3>6 DEF PassedOver, Chain
      <4> QED
        BY <1>2, <1>6, <1>11, <1>15, <2>1, <3>8, <4>1
    <3> QED
      BY <3>7, <3>8
  <2> QED
    BY <1>15, <2>2, <2>3
<1>16. \A w \in Paths : Reported(w) => Reported(w)'
  BY <1>1, <1>12 DEF Reported
<1>17. Walked'
  BY <1>1, <1>15, <1>16 DEF Seen, Walked
<1>18. Noted' /\ Settled'
  BY <1>1 DEF Noted, Settled
<1>19. Waiting'
  BY <1>1 DEF Waiting, Basic, Resting
<1>20. ForcingRight'
  BY <1>1 DEF Read, ForcingRight
<1>21. Type # "receiveonly" => DataRight'
  <2> SUFFICES ASSUME Type # "receiveonly", NEW q \in Paths, ReadAt(disk, ignored, q)
               PROVE  /\ <<q, "data">> \in checked \/ (clean /\ q \in forcing) =>
                           /\ \A s \in found' : s[1] = q => s[2].item.data = disk[q].data
                           /\ q \in DOMAIN batch => batch[q].item.data = disk[q].data
                      /\ clean /\ q \in forcing => Awaited(q)' \/ Reported(q)' \/ db[q].item.data = disk[q].data
    BY <1>1 DEF DataRight
  <2>1. ASSUME <<q, "data">> \in checked \/ (clean /\ q \in forcing), NEW s \in found', s[1] = q
        PROVE  s[2].item.data = disk[q].data
    <3>1. CASE s \in found
      BY <1>1, <2>1, <3>1 DEF Read, DataRight
    <3>2. CASE s \notin found
      BY <1>2, <1>10, <2>1, <3>2
    <3> QED
      BY <3>1, <3>2
  <2>2. ASSUME clean, q \in forcing PROVE Awaited(q)' \/ Reported(q)' \/ db[q].item.data = disk[q].data
    <3>1. Awaited(q) \/ Reported(q) \/ db[q].item.data = disk[q].data
      BY <1>1, <2>2 DEF Read, DataRight
    <3>2. CASE Awaited(q)
      <4>1. PICK l \in listed : l \in Chain(q)
        BY <3>2 DEF Awaited
      <4>2. CASE l # p
        BY <1>1, <4>1, <4>2 DEF Awaited
      <4>3. CASE l = p /\ q # p
        <5>1. q \in Below(p)
          BY <4>1, <4>3 DEF Chain, Below
        <5> QED
          BY <1>8, <5>1, TheseArePlain DEF ReadAt, Awaited
      <4>4. CASE q = p
        <5>1. reporting
          BY <1>2, <1>6, <2>2, <4>4 DEF ReadAt
        <5>2. CoveredBy(subs, q) /\ (snap.local[q] = NoFile \/ snap.local[q].flag = "mustrescan")
          BY <1>1, <2>2 DEF Read, ForcingRight
        <5>3. Sure(ignored, subs, clean, checked, q)
          BY <2>2, <5>2 DEF Sure, Meant, ReadAt
        <5> QED
          BY <1>11, <4>4, <5>1, <5>2, <5>3
      <4> QED
        BY <4>2, <4>3, <4>4
    <3> QED
      BY <1>16, <3>1, <3>2
  <2> QED
    BY <1>1, <2>1, <2>2 DEF Read, DataRight
<1> QED
  BY <1>7, <1>13, <1>14, <1>17, <1>18, <1>19, <1>20, <1>21 DEF Seen, Read

-----------------------------------------------------------------------------
(* Batches *)

\* What right files make of a batch is right.
LEMMA UpdateRight ==
    ASSUME Basic, Seen, NEW files, DOMAIN files \subseteq Paths, UpdateBatch(files), UNCHANGED <<disk, ignored>>,
           \A p \in DOMAIN files : LocalFile(files[p], disk[p], clock, known[p]),
           \A p \in DOMAIN files : Sure(ignored, subs, clean, checked, p) => RightAt(disk, ignored, p, files[p])
    PROVE  /\ \A p \in Paths : Sure(ignored, subs, clean, checked, p) =>
                /\ p \in DOMAIN batch' => RightAt(disk, ignored, p, batch'[p])
                /\ p \in removals' => RightAt(disk, ignored, p, NoFile)
           /\ DOMAIN batch \subseteq DOMAIN batch' /\ removals \subseteq removals'
           /\ \A p \in DOMAIN files : /\ p \in DOMAIN batch' \/ p \in removals'
                                      /\ ~files[p].deleted => p \in DOMAIN batch'
           /\ Type # "receiveonly" => \A p \in DOMAIN batch' : \/ p \in DOMAIN files /\ batch'[p] = files[p]
                                                               \/ p \in DOMAIN batch /\ batch'[p] = batch[p]
<1> DEFINE global(p) == Global(snap.local[p], snap.remote[p])
           ownOnly(p) == global(p).flag = "receiveonly"
           removed == {p \in DOMAIN files : ownOnly(p) /\ files[p].deleted}
           kept == DOMAIN files \ removed
           merged == {p \in kept : global(p) # NoFile /\ ~ownOnly(p) /\ Merges(files[p], global(p))}
           new == [p \in kept |-> IF p \in merged THEN global(p) ELSE files[p]]
<1>1. batch' = Upon(new, batch) /\ removals' = removals \cup removed
  BY DEF UpdateBatch
<1>2. \A p \in Paths : global(p) \in AllFiles /\ Shaped(global(p))
  BY DEF Basic, Types, SnapshotRight, LocalFile, OtherFile, Global
<1> HIDE DEF global
<1>3. DOMAIN batch' = kept \cup DOMAIN batch /\ \A p \in DOMAIN batch' : batch'[p] = IF p \in kept THEN new[p] ELSE batch[p]
  BY <1>1 DEF Upon
<1>4. ASSUME NEW p \in kept, Sure(ignored, subs, clean, checked, p) PROVE RightAt(disk, ignored, p, new[p])
  <2>1. p \in Paths /\ RightAt(disk, ignored, p, files[p]) /\ files[p] \in AllFiles /\ Shaped(files[p])
    BY <1>4 DEF LocalFile
  <2>2. CASE p \in merged
    <3>1. disk[p] \in Items /\ Plain(disk[p]) /\ global(p) \in AllFiles /\ Shaped(global(p))
      BY <1>2, <2>1, FileOf
    <3>2. RightAt(disk, ignored, p, global(p))
      BY <2>1, <2>2, <3>1, MergedRight
    <3> QED
      BY <2>2, <3>2
  <2> QED
    BY <2>1, <2>2
<1>5. ASSUME NEW p \in removed, Sure(ignored, subs, clean, checked, p) PROVE RightAt(disk, ignored, p, NoFile)
  BY <1>5 DEF RightAt
<1>6. \A p \in kept : ~(p \in merged) \/ Type = "receiveonly"
  BY DEF Merges
<1> HIDE DEF new
<1>7. \A p \in Paths : Sure(ignored, subs, clean, checked, p) =>
        /\ p \in DOMAIN batch' => RightAt(disk, ignored, p, batch'[p])
        /\ p \in removals' => RightAt(disk, ignored, p, NoFile)
  <2> HIDE DEF kept, removed
  <2> QED
    BY <1>1, <1>3, <1>4, <1>5 DEF Seen, PendingRight
<1>8. DOMAIN batch \subseteq DOMAIN batch' /\ removals \subseteq removals'
  BY <1>1, <1>3
<1>9. \A p \in DOMAIN files : /\ p \in DOMAIN batch' \/ p \in removals'
                              /\ ~files[p].deleted => p \in DOMAIN batch'
  BY <1>1, <1>3
<1>10. Type # "receiveonly" => \A p \in DOMAIN batch' : \/ p \in DOMAIN files /\ batch'[p] = files[p]
                                                        \/ p \in DOMAIN batch /\ batch'[p] = batch[p]
  BY <1>3, <1>6 DEF new
<1> QED
  BY <1>7, <1>8, <1>9, <1>10

\* What the walk has found, with the deletion of what it was renamed from.
LEMMA ConsumeSeen == ASSUME Configured, Basic, Basic', Seen, Read, NEW r \in found, Consume(r) PROVE Seen' /\ Read'
<1> DEFINE rename == IF Type = "receiveonly" THEN [gone |-> {}, used |-> {}] ELSE FindRename(r[1], r[2])
           files == [p \in {r[1]} \cup rename.gone |-> IF p = r[1] THEN r[2] ELSE Deleted(snap.local[p])]
<1>1. /\ pc = "walk" /\ found' = found \ {r} /\ UpdateBatch(files)
      /\ UNCHANGED <<disk, ignored, checked, pc, subs, snap, forcing, ignoredParent, listed, hashing, row, toIgnore, db, clean>>
  BY DEF Consume, outside, passing, scope
<1>2. r[1] \in Paths /\ LocalFile(r[2], disk[r[1]], clock, known[r[1]])
  BY DEF Basic, Types, WalkRight
<1>3. ASSUME NEW p \in rename.gone PROVE p \in Paths /\ snap.local[p] # NoFile /\ p \notin ignored /\ disk[p] = Absent
  <2>1. p \in FindRename(r[1], r[2]).gone
    OBVIOUS
  <2>2. p \in Paths /\ p \notin ignored /\ SameBlocks(p, r[2]) /\ IsDeleted(p)
    BY <2>1 DEF FindRename
  <2> QED
    BY <2>2 DEF SameBlocks, IsDeleted, NoFile, Absent, Item
<1> HIDE DEF rename
<1>4. DOMAIN files = {r[1]} \cup rename.gone /\ DOMAIN files \subseteq Paths
  BY <1>2, <1>3
<1>5. ASSUME NEW p \in DOMAIN files, p # r[1]
      PROVE  /\ LocalFile(files[p], disk[p], clock, known[p]) /\ RightAt(disk, ignored, p, files[p]) /\ disk[p] = Absent
  <2>1. p \in rename.gone /\ files[p] = Deleted(snap.local[p])
    BY <1>5
  <2>2. p \in Paths /\ snap.local[p] # NoFile /\ p \notin ignored /\ disk[p] = Absent
    BY <2>1, <1>3
  <2>3. LocalFile(Deleted(snap.local[p]), disk[p], clock, known[p]) /\ Deleted(snap.local[p]).deleted
    BY <2>2, FileOf, DeletedIs DEF LocalFile
  <2> QED
    BY <2>1, <2>2, <2>3, GoneRight
<1>6. files[r[1]] = r[2] /\ r[1] \in DOMAIN files
  OBVIOUS
<1>7. UpdateBatch(files)
  BY <1>1
<1> HIDE DEF files
<1>8. \A p \in DOMAIN files : LocalFile(files[p], disk[p], clock, known[p])
  BY <1>2, <1>5, <1>6
<1>9. ASSUME NEW p \in DOMAIN files, Sure(ignored, subs, clean, checked, p) PROVE RightAt(disk, ignored, p, files[p])
  <2>1. p = r[1] => RightAt(disk, ignored, p, r[2])
    BY <1>2, <1>9 DEF Seen, PendingRight
  <2> QED
    BY <1>5, <1>6, <2>1
<1>10. /\ \A p \in Paths : Sure(ignored, subs, clean, checked, p) =>
                /\ p \in DOMAIN batch' => RightAt(disk, ignored, p, batch'[p])
                /\ p \in removals' => RightAt(disk, ignored, p, NoFile)
       /\ DOMAIN batch \subseteq DOMAIN batch' /\ removals \subseteq removals'
       /\ \A p \in DOMAIN files : /\ p \in DOMAIN batch' \/ p \in removals'
                                  /\ ~files[p].deleted => p \in DOMAIN batch'
       /\ Type # "receiveonly" => \A p \in DOMAIN batch' : \/ p \in DOMAIN files /\ batch'[p] = files[p]
                                                           \/ p \in DOMAIN batch /\ batch'[p] = batch[p]
  BY <1>1, <1>4, <1>7, <1>8, <1>9, UpdateRight
<1>11. PendingRight'
  BY <1>1, <1>10 DEF Seen, PendingRight
<1>12. CheckedRight' /\ CheckedData'
  BY <1>1 DEF Seen, Read, CheckedRight, CheckedData
<1>13. ListRight'
  BY <1>1 DEF Seen, ListRight
<1>14. \A p \in Paths : /\ Awaited(p) => Awaited(p)'
                        /\ Owed(p) => Owed(p)'
  BY <1>1 DEF Awaited, Owed
<1>15. ASSUME NEW p \in Paths, Reported(p), Sure(ignored, subs, clean, checked, p), SeenAt(disk, ignored, p) PROVE Reported(p)'
  <2>1. CASE \E s \in (hashing \cup found) \ {r} : s[1] = p
    BY <1>1, <2>1 DEF Reported
  <2>2. CASE p \in DOMAIN batch
    BY <1>10, <2>2 DEF Reported
  <2>3. CASE r[1] = p
    <3>1. RightAt(disk, ignored, p, r[2])
      BY <1>15, <2>3 DEF Seen, PendingRight
    <3>2. ~r[2].deleted
      BY <1>15, <3>1, SeenIsThere
    <3> QED
      BY <1>6, <1>10, <2>3, <3>2 DEF Reported
  <2> QED
    BY <1>15, <2>1, <2>2, <2>3 DEF Reported
<1>16. Walked'
  BY <1>1, <1>14, <1>15 DEF Seen, Walked, Sure
<1>17. Noted' /\ Settled'
  BY <1>1 DEF Noted, Settled
<1>18. Waiting'
  BY <1>1 DEF Waiting, Basic, Resting
<1>19. ForcingRight'
  BY <1>1 DEF Read, ForcingRight
<1>20. Type # "receiveonly" => DataRight'
  <2> SUFFICES ASSUME Type # "receiveonly", NEW p \in Paths, ReadAt(disk, ignored, p)
               PROVE  /\ <<p, "data">> \in checked \/ (clean /\ p \in forcing) =>
                           /\ \A s \in found' : s[1] = p => s[2].item.data = disk[p].data
                           /\ p \in DOMAIN batch' => batch'[p].item.data = disk[p].data
                      /\ clean /\ p \in forcing => Awaited(p)' \/ Reported(p)' \/ db[p].item.data = disk[p].data
    BY <1>1 DEF DataRight
  <2>1. ASSUME <<p, "data">> \in checked \/ (clean /\ p \in forcing)
        PROVE  /\ \A s \in found' : s[1] = p => s[2].item.data = disk[p].data
               /\ p \in DOMAIN batch' => batch'[p].item.data = disk[p].data
    <3>1. /\ \A s \in found : s[1] = p => s[2].item.data = disk[p].data
          /\ p \in DOMAIN batch => batch[p].item.data = disk[p].data
      BY <2>1 DEF Read, DataRight
    <3>2. disk[p] # Absent
      BY TheseArePlain DEF ReadAt
    <3>3. p \in DOMAIN files => p = r[1] /\ files[p].item.data = disk[p].data
      BY <1>5, <1>6, <3>1, <3>2
    <3> QED
      BY <1>1, <1>10, <3>1, <3>3
  <2>2. ASSUME clean, p \in forcing PROVE Awaited(p)' \/ Reported(p)' \/ db[p].item.data = disk[p].data
    <3>1. Awaited(p) \/ Reported(p) \/ db[p].item.data = disk[p].data
      BY <1>1, <2>2 DEF Read, DataRight
    <3>2. SeenAt(disk, ignored, p) /\ Sure(ignored, subs, clean, checked, p)
      BY <1>1, <2>2, TheseArePlain DEF ReadAt, SeenAt, HiddenAt, Sure, Meant, Read, ForcingRight
    <3> QED
      BY <1>14, <1>15, <3>1, <3>2
  <2> QED
    BY <2>1, <2>2
<1> QED
  BY <1>11, <1>12, <1>13, <1>16, <1>17, <1>18, <1>19, <1>20 DEF Seen, Read

-----------------------------------------------------------------------------
(* The pass over the database *)

\* The pass goes through the names in their order.
LEMMA StepsOn ==
    ASSUME Configured, row \in Nat \ {0}, row <= Len(Order), NEW q \in Paths
    PROVE  /\ Order[row] \in Paths
           /\ Passed(row + 1, q) <=> Passed(row, q) \/ q = Order[row]
           /\ Passed(row, q) => Before(q, Order[row])
           /\ Passed(row, q) \/ q = Order[row] \/ Before(Order[row], q)
           /\ Before(Order[row], q) => ~Passed(row + 1, q)
<1>1. Len(Order) \in Nat /\ DOMAIN Order = 1..Len(Order) /\ (\A i, j \in DOMAIN Order : Order[i] = Order[j] => i = j)
  BY NamesInOrder DEF Configured
<1>2. row \in DOMAIN Order /\ Order[row] \in Paths
  BY <1>1 DEF Paths
<1>3. PICK k \in DOMAIN Order : Order[k] = q
  BY DEF Paths
<1>4. \A n \in Nat : Passed(n, q) <=> k < n
  BY <1>1, <1>3 DEF Passed
<1>5. (Before(q, Order[row]) <=> k < row) /\ (Before(Order[row], q) <=> row < k)
  BY <1>1, <1>2, <1>3 DEF Before
<1>6. q = Order[row] <=> k = row
  BY <1>1, <1>2, <1>3
<1> QED
  BY <1>1, <1>2, <1>4, <1>5, <1>6

\* What is in an ignored directory that is sure is so too, unless it is ignored.
LEMMA SureBelow ==
    ASSUME Configured, Seen, NEW t \in Paths, t \in ignored, CoveredBy(subs, t), Sure(ignored, subs, clean, checked, t),
           NEW q \in Below(t), q \notin ignored
    PROVE  q \in Paths /\ Sure(ignored, subs, clean, checked, q) /\ CoveredBy(subs, q)
<1>1. q \in Paths /\ Chain(t) \subseteq Chain(q)
  BY Nested DEF Below, Chain
<1>2. CoveredBy(subs, q)
  BY <1>1 DEF CoveredBy
<1>3. <<t, "stat">> \in checked => <<q, "stat">> \in checked
  BY DEF Seen, CheckedRight
<1> QED
  BY <1>1, <1>2, <1>3 DEF Sure, Meant

\* What is there and not hidden is on record when the pass comes to it.
LEMMA NotedIs ==
    ASSUME Seen, pc = "delete", NEW p \in Paths, Sure(ignored, subs, clean, checked, p), SeenAt(disk, ignored, p)
    PROVE  /\ RightAt(disk, ignored, p, snap.local[p]) /\ snap.local[p] # NoFile /\ ~snap.local[p].deleted
           /\ snap.local[p].flag \in {"none", localFlags} /\ snap.local[p].item.kind = disk[p].kind
<1>1. RightAt(disk, ignored, p, snap.local[p])
  BY DEF Seen, Noted
<1> QED
  BY <1>1, SeenIsThere

\* The pass has nothing to do with what is not on record, or not covered.
LEMMA PassOverSeen ==
    ASSUME Configured, Basic, Seen, Read, pc = "delete", row <= Len(Order), row' = row + 1,
           snap.local[Order[row]] = NoFile \/ ~CoveredBy(subs, Order[row]),
           UNCHANGED <<disk, ignored, checked, pc, subs, snap, forcing, listed, ignoredParent, hashing, found, batch, removals,
                       toIgnore, db, clean>>
    PROVE  Seen' /\ Read'
<1> DEFINE p == Order[row]
<1>1. row \in Nat \ {0}
  BY DEF Basic, Types
<1>2. \A q \in Paths : /\ p \in Paths /\ (Passed(row + 1, q) <=> Passed(row, q) \/ q = p)
  BY <1>1, StepsOn
<1> HIDE DEF p
<1>3. PendingRight' /\ CheckedRight' /\ ListRight'
  BY DEF Seen, PendingRight, CheckedRight, ListRight
<1>4. Walked' /\ Noted'
  BY DEF Seen, Walked, Noted
<1>5. Waiting'
  <2> SUFFICES ASSUME NEW t \in toIgnore
               PROVE  /\ t \in ignored /\ CoveredBy(subs, t) /\ snap.local[t].item.kind = "dir"
                      /\ ignoredParent \in Chain(t) /\ Passed(row + 1, t)
                      /\ Sure(ignored, subs, clean, checked, t) =>
                           \A q \in Below(t) : q \notin ignored /\ disk[q] # Absent => ~Passed(row + 1, q)
    BY DEF Waiting
  <2>1. t \in Paths /\ t \in ignored /\ CoveredBy(subs, t)
    BY DEF Basic, Types, Seen, Waiting
  <2>2. ASSUME Sure(ignored, subs, clean, checked, t), NEW q \in Below(t), q \notin ignored, disk[q] # Absent PROVE ~Passed(row + 1, q)
    <3>1. q \in Paths /\ Sure(ignored, subs, clean, checked, q) /\ CoveredBy(subs, q)
      BY <2>1, <2>2, SureBelow
    <3>2. SeenAt(disk, ignored, q)
      BY <2>2 DEF SeenAt, HiddenAt
    <3>3. snap.local[q] # NoFile
      BY <3>1, <3>2, NotedIs
    <3>4. q # p
      BY <3>1, <3>3 DEF p
    <3>5. ~Passed(row, q)
      BY <2>2 DEF Seen, Waiting
    <3> QED
      BY <1>2, <3>1, <3>4, <3>5
  <2> QED
    BY <1>2, <2>1, <2>2 DEF Seen, Waiting
<1>6. Settled'
  <2> SUFFICES ASSUME clean, NEW q \in Paths, Meant(ignored, q), CoveredBy(subs, q), Passed(row + 1, q)
               PROVE  q \in toIgnore \/ q \in DOMAIN batch \/ q \in removals \/ SettledAt(disk, ignored, q, db[q])
    BY DEF Settled
  <2>1. CASE Passed(row, q)
    BY <2>1 DEF Seen, Settled
  <2>2. CASE q = p
    <3>1. Sure(ignored, subs, clean, checked, q) /\ snap.local[q] = NoFile
      BY <2>2 DEF Sure, p
    <3>2. ~SeenAt(disk, ignored, q)
      BY <3>1, NotedIs
    <3>3. RightAt(disk, ignored, q, NoFile)
      BY <3>2 DEF SeenAt, RightAt
    <3>4. db[q] = snap.local[q] \/ RightAt(disk, ignored, q, db[q])
      BY <3>1 DEF Seen, PendingRight
    <3> QED
      BY <3>1, <3>3, <3>4, RightIsSettled
  <2> QED
    BY <1>2, <2>1, <2>2
<1>7. ForcingRight' /\ CheckedData' /\ (Type # "receiveonly" => DataRight')
  BY DEF Read, ForcingRight, CheckedData, DataRight
<1> QED
  BY <1>3, <1>4, <1>5, <1>6, <1>7 DEF Seen, Read

\* It has: what it makes of the item, and of the directories it has left, is right.
LEMMA CheckSeen ==
    ASSUME Configured, Basic, Seen, Read, pc = "delete", row <= Len(Order), row' = row + 1, Check(Order[row]),
           snap.local[Order[row]] # NoFile, CoveredBy(subs, Order[row]),
           UNCHANGED <<disk, ignored, checked, pc, subs, snap, forcing, listed, hashing, found, db, clean>>
    PROVE  Seen' /\ Read'
<1> DEFINE p == Order[row]
           f == snap.local[p]
           left == ignoredParent # Root /\ ignoredParent \notin Above[p]
           parent == IF left THEN Root ELSE ignoredParent
           dirs == IF left THEN {} ELSE toIgnore
           looked == p \notin ignored /\ (f.flag = "ignored" \/ ~f.deleted)
           stays == looked /\ ~IsDeleted(p)
           hidden == p \in ignored /\ f.flag # "ignored"
           delayed == hidden /\ f.item.kind = "dir"
           files == IF hidden /\ ~delayed THEN AllIgnored({p})
                    ELSE IF looked /\ ~stays THEN Just(p, Gone(f))
                    ELSE IF p \notin ignored /\ ~looked /\ f.flag = "receiveonly" THEN OwnDeletion(p)
                    ELSE NoChanges
           late == AllIgnored(IF left THEN toIgnore ELSE {})
           all == Upon(files, late)
           sure(q) == Sure(ignored, subs, clean, checked, q)
<1>1. /\ UpdateBatch(all)
      /\ toIgnore' = IF stays THEN {} ELSE IF delayed THEN dirs \cup {p} ELSE dirs
      /\ ignoredParent' = IF stays THEN Root ELSE IF delayed /\ parent = Root THEN p ELSE parent
  BY DEF Check
<1>2. row \in Nat \ {0}
  BY DEF Basic, Types
<1>3. \A q \in Paths : /\ p \in Paths /\ (Passed(row + 1, q) <=> Passed(row, q) \/ q = p)
                       /\ Passed(row, q) => Before(q, p)
                       /\ Passed(row, q) \/ q = p \/ Before(p, q)
                       /\ Before(p, q) => ~Passed(row + 1, q)
  BY <1>2, StepsOn
<1>4. p \in Paths
  BY <1>2, NamesInOrder
<1>5. /\ LocalFile(f, disk[p], clock, known[p]) /\ disk[p] \in Items /\ clock \in Nat /\ known[p] \in Nat
      /\ toIgnore \subseteq Paths /\ \A q \in toIgnore : snap.local[q] # NoFile
  BY <1>4, FileOf DEF Basic, Types, Resting
<1>6. f # NoFile /\ CoveredBy(subs, p)
  OBVIOUS
<1>7. Root \notin Paths /\ \A q \in Paths : Above[q] \subseteq Paths /\ q \notin Above[q]
  BY Nested DEF Configured
<1>8. IsDeleted(p) <=> disk[p] = Absent
  BY DEF IsDeleted
<1> HIDE DEF p
\* Directories that have been left have nothing in them that is not ignored.
<1>9. ASSUME left, NEW t \in toIgnore, sure(t) PROVE HiddenAt(disk, ignored, t)
  <2>1. t \in Paths /\ t \in ignored /\ ignoredParent \in Chain(t) /\ Passed(row, t)
    BY <1>5 DEF Seen, Waiting
  <2>2. InOrder
    BY <1>9, <2>1 DEF Sure, Meant, Seen, CheckedRight
  <2>3. ASSUME NEW q \in Below(t), q \notin ignored, disk[q] # Absent PROVE FALSE
    <3>1. q \in Paths /\ t \in Above[q] /\ ~Passed(row, q)
      BY <1>9, <2>3 DEF Below, Seen, Waiting
    <3>2. p \notin Below(t)
      <4>1. p \in Below(t) => Chain(t) \subseteq Above[p]
        BY <1>4, Nested DEF Below, Chain
      <4> QED
        BY <1>9, <2>1, <4>1
    <3>3. Before(t, p) /\ (q = p \/ Before(p, q))
      BY <1>3, <2>1, <3>1
    <3>4. q # p
      BY <3>2, <2>3
    <3> QED
      BY <1>4, <2>1, <2>2, <2>3, <3>1, <3>2, <3>3, <3>4 DEF InOrder
  <2> QED
    BY <2>1, <2>3 DEF HiddenAt
<1>10. /\ DOMAIN late = IF left THEN toIgnore ELSE {}
       /\ \A q \in DOMAIN late : /\ LocalFile(late[q], disk[q], clock, known[q]) /\ late[q].flag = "ignored"
  <2> DEFINE ps == IF left THEN toIgnore ELSE {}
  <2>1. ps \subseteq Paths /\ \A q \in ps : snap.local[q] # NoFile
    BY <1>5
  <2> HIDE DEF ps
  <2>2. /\ DOMAIN late = ps /\ \A q \in ps : late[q] = Flagged(snap.local[q], "ignored")
        /\ \A q \in ps : LocalFile(late[q], disk[q], clock, known[q])
    BY <2>1, AllIgnoredIs DEF ps
  <2>3. ASSUME NEW q \in ps PROVE Flagged(snap.local[q], "ignored").flag = "ignored"
    <3>1. snap.local[q] \in AllFiles
      BY <2>1, FileOf
    <3> QED
      BY <3>1 DEF Flagged, AllFiles
  <2> QED
    BY <2>2, <2>3 DEF ps
<1> HIDE DEF late
\* What is there and not hidden is on record.
<1>11. sure(p) /\ SeenAt(disk, ignored, p) =>
         /\ RightAt(disk, ignored, p, f) /\ ~f.deleted /\ f.flag \in {"none", localFlags} /\ f.item.kind = disk[p].kind
  BY <1>4, NotedIs
<1>12. p \notin ignored => ~HiddenAt(disk, ignored, p)
  BY DEF HiddenAt
<1>13. ASSUME hidden, ~delayed
       PROVE  /\ DOMAIN files = {p} /\ LocalFile(files[p], disk[p], clock, known[p])
              /\ sure(p) => RightAt(disk, ignored, p, files[p])
  <2>1. {p} \subseteq Paths /\ \A q \in {p} : snap.local[q] # NoFile
    BY <1>4, <1>6
  <2>2. /\ DOMAIN AllIgnored({p}) = {p} /\ AllIgnored({p})[p] = Flagged(f, "ignored")
        /\ LocalFile(AllIgnored({p})[p], disk[p], clock, known[p])
    BY <2>1, AllIgnoredIs
  <2>3. Flagged(f, "ignored").flag = "ignored"
    BY <1>5 DEF Flagged, AllFiles, LocalFile
  <2>4. files = AllIgnored({p})
    BY <1>13
  <2>5. sure(p) => HiddenAt(disk, ignored, p) \/ disk[p] = Absent
    <3>1. ~HiddenAt(disk, ignored, p) => disk[p] = Directory /\ SeenAt(disk, ignored, p)
      BY <1>4, <1>13, SeenIgnored
    <3>2. Directory.kind = "dir"
      BY DEF Directory, Item
    <3> QED
      BY <1>11, <1>13, <3>1, <3>2
  <2> HIDE DEF files
  <2> QED
    BY <2>2, <2>3, <2>4, <2>5, IgnoredRight
<1>14. ASSUME looked, ~stays
       PROVE  /\ DOMAIN files = {p} /\ LocalFile(files[p], disk[p], clock, known[p]) /\ disk[p] = Absent
              /\ RightAt(disk, ignored, p, files[p])
  <2>1. files = Just(p, Gone(f)) /\ p \notin ignored /\ disk[p] = Absent
    BY <1>8, <1>14
  <2>2. LocalFile(Gone(f), disk[p], clock, known[p]) /\ Gone(f).deleted
    BY <1>5, <1>6, GoneIs
  <2> HIDE DEF files
  <2>3. DOMAIN files = {p} /\ files[p] = Gone(f)
    BY <2>1 DEF Just
  <2> QED
    BY <2>1, <2>2, <2>3, GoneRight
<1>15. ASSUME ~hidden, ~looked, p \notin ignored, f.flag = "receiveonly"
       PROVE  /\ DOMAIN files \subseteq {p} /\ \A q \in DOMAIN files : LocalFile(files[q], disk[q], clock, known[q])
              /\ sure(p) => disk[p] = Absent /\ \A q \in DOMAIN files : RightAt(disk, ignored, q, files[q])
  <2>1. files = OwnDeletion(p) /\ f.deleted
    BY <1>15
  <2>2. sure(p) => disk[p] = Absent
    BY <1>11, <1>12, <1>15, <2>1 DEF SeenAt
  <2> HIDE DEF files
  <2>3. /\ DOMAIN files \subseteq {p} 
        /\ \A q \in DOMAIN files : LocalFile(files[q], disk[q], clock, known[q]) /\ files[q].deleted
    BY <1>4, <1>6, <1>15, <2>1, OwnDeletionIs
  <2> QED
    BY <1>15, <2>2, <2>3, GoneRight
<1>16. files = NoChanges \/ (hidden /\ ~delayed) \/ (looked /\ ~stays) \/ (~hidden /\ ~looked /\ p \notin ignored /\ f.flag = "receiveonly")
  OBVIOUS
<1>17. /\ DOMAIN files \subseteq {p} /\ \A q \in DOMAIN files : LocalFile(files[q], disk[q], clock, known[q])
       /\ sure(p) => \A q \in DOMAIN files : RightAt(disk, ignored, q, files[q])
  <2>1. files = NoChanges => DOMAIN files = {}
    BY DEF NoChanges
  <2> HIDE DEF files, hidden, delayed, looked, stays
  <2> QED
    BY <1>13, <1>14, <1>15, <1>16, <2>1
\* What is seen and not ignored stays as it is, and so does what is right.
<1>18. sure(p) /\ SeenAt(disk, ignored, p) /\ p \notin ignored => p \notin DOMAIN files /\ stays
  <2>1. ASSUME sure(p), SeenAt(disk, ignored, p), p \notin ignored PROVE p \notin DOMAIN files /\ stays
    <3>1. stays
      BY <1>8, <1>11, <2>1 DEF SeenAt
    <3>2. files = NoChanges
      BY <2>1, <3>1
    <3> HIDE DEF files
    <3> QED
      BY <3>1, <3>2 DEF NoChanges
  <2> QED
    BY <2>1
<1>19. ASSUME sure(p), p \notin DOMAIN files, ~delayed PROVE RightAt(disk, ignored, p, f)
  <2>1. CASE SeenAt(disk, ignored, p)
    BY <1>11, <1>19, <2>1
  <2>2. CASE ~SeenAt(disk, ignored, p)
    <3>1. HiddenAt(disk, ignored, p) \/ disk[p] = Absent
      BY <2>2 DEF SeenAt
    <3>2. CASE p \in ignored
      <4>1. f.flag = "ignored"
        BY <1>13, <1>19, <3>2
      <4> QED
        BY <3>1, <4>1, IgnoredRight
    <3>3. CASE p \notin ignored
      <4>1. disk[p] = Absent
        BY <1>12, <3>1, <3>3
      <4>2. ~stays
        BY <1>8, <4>1
      <4>3. f.deleted
        BY <1>14, <1>19, <3>3, <4>2
      <4> QED
        BY <3>3, <4>1, <4>3, GoneRight
    <3> QED
      BY <3>2, <3>3
  <2> QED
    BY <2>1, <2>2
<1> HIDE DEF files
<1>20. DOMAIN all = DOMAIN files \cup DOMAIN late /\ \A q \in DOMAIN all : all[q] = IF q \in DOMAIN files THEN files[q] ELSE late[q]
  BY DEF Upon
<1>21. UpdateBatch(all)
  BY <1>1
<1> HIDE DEF all
<1>22. DOMAIN all \subseteq Paths /\ \A q \in DOMAIN all : LocalFile(all[q], disk[q], clock, known[q])
  BY <1>4, <1>5, <1>10, <1>17, <1>20
<1>23. ASSUME NEW q \in DOMAIN all, sure(q) PROVE RightAt(disk, ignored, q, all[q])
  <2>1. CASE q \in DOMAIN files
    BY <1>17, <1>20, <1>23, <2>1
  <2>2. CASE q \notin DOMAIN files
    <3>1. q \in DOMAIN late /\ all[q] = late[q] /\ left /\ q \in toIgnore
      BY <1>10, <1>20, <2>2
    <3>2. HiddenAt(disk, ignored, q) /\ late[q].flag = "ignored"
      BY <1>9, <1>10, <1>23, <3>1
    <3> QED
      BY <3>1, <3>2, IgnoredRight
  <2> QED
    BY <2>1, <2>2
<1>24. /\ \A q \in Paths : Sure(ignored, subs, clean, checked, q) =>
                /\ q \in DOMAIN batch' => RightAt(disk, ignored, q, batch'[q])
                /\ q \in removals' => RightAt(disk, ignored, q, NoFile)
       /\ DOMAIN batch \subseteq DOMAIN batch' /\ removals \subseteq removals'
       /\ \A q \in DOMAIN all : q \in DOMAIN batch' \/ q \in removals'
       /\ Type # "receiveonly" => \A q \in DOMAIN batch' : \/ q \in DOMAIN all /\ batch'[q] = all[q]
                                                           \/ q \in DOMAIN batch /\ batch'[q] = batch[q]
  BY <1>21, <1>22, <1>23, UpdateRight
<1>25. PendingRight'
  BY <1>24 DEF Seen, PendingRight
<1>26. CheckedRight' /\ CheckedData'
  BY DEF Seen, Read, CheckedRight, CheckedData
<1>27. ListRight'
  <2>1. ignoredParent' \in {Root, p, ignoredParent} /\ (ignoredParent' = p => p \in ignored \/ p = Root \/ p = ignoredParent)
    BY <1>1
  <2> QED
    BY <1>4, <1>6, <1>7, <2>1 DEF Seen, ListRight
<1>28. Walked' /\ Noted'
  BY DEF Seen, Walked, Noted
\* Directories go on waiting as long as the pass has not left them.
<1>29. ASSUME NEW t \in toIgnore'
       PROVE  ~stays /\ ((~left /\ t \in toIgnore /\ ignoredParent' = ignoredParent) \/ (delayed /\ t = p))
  <2>1. ~stays /\ ((~left /\ t \in toIgnore) \/ (delayed /\ t = p))
    BY <1>1, <1>29
  <2>2. t \in toIgnore => ignoredParent # Root
    BY <1>5, <1>7 DEF Seen, Waiting, Chain
  <2> QED
    BY <1>1, <2>1, <2>2
<1>30. Waiting'
  <2> SUFFICES ASSUME NEW t \in toIgnore'
               PROVE  /\ t \in ignored /\ CoveredBy(subs, t) /\ snap.local[t].item.kind = "dir"
                      /\ ignoredParent' \in Chain(t) /\ Passed(row + 1, t)
                      /\ sure(t) => \A q \in Below(t) : q \notin ignored /\ disk[q] # Absent => ~Passed(row + 1, q)
    BY DEF Waiting
  <2>1. CASE ~left /\ t \in toIgnore /\ ignoredParent' = ignoredParent
    <3>1. t \in Paths /\ t \in ignored /\ CoveredBy(subs, t) /\ snap.local[t].item.kind = "dir" /\ ignoredParent \in Chain(t) /\ Passed(row, t)
      BY <1>5, <2>1 DEF Seen, Waiting
    <3>2. ASSUME sure(t), NEW q \in Below(t), q \notin ignored, disk[q] # Absent PROVE ~Passed(row + 1, q)
      <4>1. q \in Paths /\ sure(q) /\ ~Passed(row, q)
        BY <2>1, <3>1, <3>2, SureBelow DEF Seen, Waiting
      <4>2. SeenAt(disk, ignored, q)
        BY <3>2 DEF SeenAt, HiddenAt
      <4>3. q # p
        BY <1>18, <1>29, <3>2, <4>1, <4>2
      <4> QED
        BY <1>3, <4>1, <4>3
    <3> QED
      BY <1>3, <2>1, <3>1, <3>2
  <2>2. CASE delayed /\ t = p
    <3>1. t \in ignored /\ CoveredBy(subs, t) /\ snap.local[t].item.kind = "dir" /\ Passed(row + 1, t)
      BY <1>3, <1>4, <1>6, <2>2
    <3>2. ignoredParent' \in Chain(t)
      BY <1>1, <1>29, <2>2 DEF Chain
    <3>3. ASSUME NEW q \in Below(t) PROVE ~Passed(row + 1, q)
      <4>1. q \in Paths /\ Before(p, q)
        BY <2>2, Nested DEF Below
      <4> QED
        BY <1>3, <4>1
    <3> QED
      BY <3>1, <3>2, <3>3
  <2> QED
    BY <1>29, <2>1, <2>2
<1>31. Settled'
  <2> SUFFICES ASSUME clean, NEW q \in Paths, Meant(ignored, q), CoveredBy(subs, q), Passed(row + 1, q)
               PROVE  q \in toIgnore' \/ q \in DOMAIN batch' \/ q \in removals' \/ SettledAt(disk, ignored, q, db[q])
    BY DEF Settled
  <2>1. sure(q) /\ (db[q] = snap.local[q] \/ RightAt(disk, ignored, q, db[q]))
    BY DEF Sure, Seen, PendingRight
  <2>2. CASE q = p
    <3>1. delayed => ~stays /\ q \in toIgnore'
      BY <1>1, <2>2
    <3>2. CASE q \in DOMAIN files
      BY <1>20, <1>24, <3>2
    <3>3. CASE q \notin DOMAIN files /\ ~delayed
      BY <1>19, <2>1, <2>2, <3>3, RightIsSettled
    <3> QED
      BY <3>1, <3>2, <3>3
  <2>3. CASE q # p
    <3>1. q \in toIgnore \/ q \in DOMAIN batch \/ q \in removals \/ SettledAt(disk, ignored, q, db[q])
      BY <1>3, <2>3 DEF Seen, Settled
    <3>2. CASE q \in toIgnore /\ left
      BY <1>10, <1>20, <1>24, <3>2
    <3>3. CASE q \in toIgnore /\ ~left /\ ~stays
      BY <1>1, <3>3
    <3>4. CASE q \in toIgnore /\ ~left /\ stays
      <4> DEFINE a == ignoredParent
      <4>1. q \in ignored /\ a \in Chain(q) /\ snap.local[q].item.kind = "dir"
        BY <3>4 DEF Seen, Waiting
      <4>2. a # Root /\ a \in Above[p] /\ a \in ignored
        BY <1>7, <3>4, <4>1 DEF Chain, Seen, ListRight
      <4>3. ~HiddenAt(disk, ignored, a)
        BY <1>4, <1>8, <3>4, <4>2 DEF HiddenAt, Below
      <4>4. CASE HiddenAt(disk, ignored, q)
        <5>1. a \in Above[q]
          BY <4>1, <4>3, <4>4 DEF Chain
        <5> QED
          BY <2>1, <4>1, <4>2, <4>3, <4>4, <5>1 DEF SettledAt
      <4>5. CASE ~HiddenAt(disk, ignored, q)
        <5>1. SeenAt(disk, ignored, q)
          BY <4>1, <4>5, SeenIgnored
        <5>2. RightAt(disk, ignored, q, snap.local[q])
          BY <2>1, <5>1, NotedIs
        <5> QED
          BY <2>1, <5>2, RightIsSettled
      <4> QED
        BY <4>4, <4>5
    <3> QED
      BY <1>24, <3>1, <3>2, <3>3, <3>4
  <2> QED
    BY <2>2, <2>3
<1>32. ForcingRight'
  BY DEF Read, ForcingRight
<1>33. Type # "receiveonly" => DataRight'
  <2> SUFFICES ASSUME Type # "receiveonly", NEW q \in Paths, ReadAt(disk, ignored, q)
               PROVE  /\ <<q, "data">> \in checked \/ (clean /\ q \in forcing) =>
                           /\ \A r \in found : r[1] = q => r[2].item.data = disk[q].data
                           /\ q \in DOMAIN batch' => batch'[q].item.data = disk[q].data
                      /\ clean /\ q \in forcing => db[q].item.data = disk[q].data
    BY DEF DataRight
  <2>1. ASSUME <<q, "data">> \in checked \/ (clean /\ q \in forcing)
        PROVE  /\ \A r \in found : r[1] = q => r[2].item.data = disk[q].data
               /\ q \in DOMAIN batch' => batch'[q].item.data = disk[q].data
    <3>1. /\ \A r \in found : r[1] = q => r[2].item.data = disk[q].data
          /\ q \in DOMAIN batch => batch[q].item.data = disk[q].data
      BY <2>1 DEF Read, DataRight
    <3>2. SeenAt(disk, ignored, q) /\ sure(q) /\ q \notin ignored
      BY <2>1, TheseArePlain DEF ReadAt, SeenAt, HiddenAt, Sure, Meant, Read, ForcingRight, CheckedData
    <3>3. q \notin DOMAIN files
      BY <1>17, <1>18, <3>2
    <3>4. q \notin DOMAIN late
      BY <1>10, <3>2 DEF Seen, Waiting
    <3> QED
      BY <1>20, <1>24, <3>1, <3>3, <3>4
  <2> QED
    BY <2>1 DEF Read, DataRight
<1> QED
  BY <1>25, <1>26, <1>27, <1>28, <1>30, <1>31, <1>32, <1>33 DEF Seen, Read

\* The pass comes to the next item.
LEMMA CheckNextSeen == ASSUME Configured, Basic, Basic', Seen, Read, CheckNext PROVE Seen' /\ Read'
<1> DEFINE p == Order[row]
<1>1. /\ pc = "delete" /\ row <= Len(Order) /\ row' = row + 1
      /\ UNCHANGED <<disk, ignored, checked, pc, subs, snap, forcing, listed, hashing, found, db, clean>>
      /\ IF snap.local[p] # NoFile /\ Covered(p) THEN Check(p) ELSE UNCHANGED <<batch, removals, toIgnore, ignoredParent>>
  BY DEF CheckNext, outside, scope
<1>2. Covered(p) <=> CoveredBy(subs, p)
  BY DEF Covered, CoveredBy, Chain
<1> QED
  BY <1>1, <1>2, CheckSeen, PassOverSeen

\* What is left to be ignored.
LEMMA CheckLastSeen == ASSUME Configured, Basic, Basic', Seen, Read, CheckLast PROVE Seen' /\ Read'
<1> DEFINE files == AllIgnored(toIgnore)
           sure(q) == Sure(ignored, subs, clean, checked, q)
<1>1. /\ pc = "delete" /\ row > Len(Order) /\ UpdateBatch(files) /\ toIgnore' = {}
      /\ UNCHANGED <<disk, ignored, checked, pc, subs, snap, forcing, ignoredParent, listed, hashing, found, row, db, clean>>
  BY DEF CheckLast, outside, walking, scope
<1>2. toIgnore \subseteq Paths /\ \A q \in toIgnore : snap.local[q] # NoFile
  BY DEF Basic, Types, Resting
<1>3. \A q \in Paths : Passed(row, q)
  <2>1. row \in Nat /\ row > Len(Order)
    BY <1>1 DEF Basic, Types
  <2> QED
    BY <2>1, NamesInOrder DEF Passed
<1>4. /\ DOMAIN files = toIgnore /\ \A q \in toIgnore : files[q] = Flagged(snap.local[q], "ignored")
      /\ \A q \in toIgnore : LocalFile(files[q], disk[q], clock, known[q])
  BY <1>2, AllIgnoredIs
<1>5. UpdateBatch(files)
  BY <1>1
<1> HIDE DEF files
<1>6. ASSUME NEW q \in toIgnore PROVE files[q].flag = "ignored"
  <2>1. snap.local[q] \in AllFiles
    BY <1>2, FileOf
  <2> QED
    BY <1>4, <2>1 DEF Flagged, AllFiles
<1>7. ASSUME NEW q \in toIgnore, sure(q) PROVE RightAt(disk, ignored, q, files[q])
  <2>1. HiddenAt(disk, ignored, q)
    BY <1>3, <1>7 DEF HiddenAt, Below, Seen, Waiting
  <2> QED
    BY <1>6, <2>1, IgnoredRight
<1>8. /\ \A q \in Paths : Sure(ignored, subs, clean, checked, q) =>
                /\ q \in DOMAIN batch' => RightAt(disk, ignored, q, batch'[q])
                /\ q \in removals' => RightAt(disk, ignored, q, NoFile)
      /\ DOMAIN batch \subseteq DOMAIN batch' /\ removals \subseteq removals'
      /\ \A q \in DOMAIN files : q \in DOMAIN batch' \/ q \in removals'
      /\ Type # "receiveonly" => \A q \in DOMAIN batch' : \/ q \in DOMAIN files /\ batch'[q] = files[q]
                                                          \/ q \in DOMAIN batch /\ batch'[q] = batch[q]
  BY <1>1, <1>2, <1>4, <1>5, <1>7, UpdateRight
<1>9. PendingRight'
  BY <1>1, <1>8 DEF Seen, PendingRight
<1>10. CheckedRight' /\ CheckedData' /\ ListRight'
  BY <1>1 DEF Seen, Read, CheckedRight, CheckedData, ListRight
<1>11. Walked' /\ Noted' /\ Waiting'
  BY <1>1 DEF Seen, Walked, Noted, Waiting
<1>12. Settled'
  BY <1>1, <1>4, <1>8 DEF Seen, Settled
<1>13. ForcingRight'
  BY <1>1 DEF Read, ForcingRight
<1>14. Type # "receiveonly" => DataRight'
  <2> SUFFICES ASSUME Type # "receiveonly", NEW q \in Paths, ReadAt(disk, ignored, q)
               PROVE  /\ <<q, "data">> \in checked \/ (clean /\ q \in forcing) =>
                           /\ \A r \in found : r[1] = q => r[2].item.data = disk[q].data
                           /\ q \in DOMAIN batch' => batch'[q].item.data = disk[q].data
                      /\ clean /\ q \in forcing => db[q].item.data = disk[q].data
    BY <1>1 DEF DataRight
  <2>1. q \notin DOMAIN files
    BY <1>4 DEF ReadAt, Seen, Waiting
  <2> QED
    BY <1>1, <1>8, <2>1 DEF Read, DataRight
<1> QED
  BY <1>9, <1>10, <1>11, <1>12, <1>13, <1>14 DEF Seen, Read

-----------------------------------------------------------------------------
(* Everything a scan has covered is right *)

\* At first nothing has been seen.
LEMMA InitSeen == ASSUME Configured, Init PROVE Seen /\ Read
<1>1. /\ pc = "idle" /\ listed = {} /\ ignoredParent = Root /\ hashing = {} /\ found = {} /\ DOMAIN batch = {} /\ removals = {}
      /\ row = 1 /\ toIgnore = {} /\ forcing = {} /\ clean = FALSE /\ checked = {}
  BY DEF Init, NoChanges
<1>2. PendingRight /\ CheckedRight /\ ListRight /\ Walked /\ Noted /\ Waiting /\ Settled
  BY <1>1 DEF PendingRight, CheckedRight, ListRight, Walked, Noted, Waiting, Settled
<1>3. ForcingRight /\ CheckedData /\ DataRight
  BY <1>1 DEF ForcingRight, CheckedData, DataRight
<1> QED
  BY <1>2, <1>3 DEF Seen, Read

\* Every step keeps what has been seen.
LEMMA NextSeen == ASSUME Configured, Basic, Basic', Seen, Read, [Next]_vars PROVE Seen' /\ Read'
<1>1. ASSUME NEW p \in Paths,
             \/ Write(p) \/ MakeDirectory(p) \/ Delete(p) \/ Corrupt(p) \/ ChangeRemote(p) \/ TakeRemote(p)
             \/ Recheck(p) \/ ScheduleForceRescan(p)
      PROVE  Seen' /\ Read'
  BY <1>1, OutsideSeen
<1>2. ASSUME NEW p \in Paths, NEW q \in Paths, Rename(p, q) PROVE Seen' /\ Read'
  BY <1>2, OutsideSeen
<1>3. ASSUME NEW p \in Paths, ChangePatterns(p) \/ StartScan({p}) \/ Visit(p) \/ VisitFails(p) \/ Pull(p) PROVE Seen' /\ Read'
  BY <1>3, LetGoSeen, StartScanSeen, VisitSeen, VisitFailsSeen, PullSeen
<1>4. CASE StartScan({}) \/ BeginScan \/ ScanFails \/ FlushIfFull \/ Stop \/ EndWalk \/ CheckNext \/ CheckLast \/ EndScan
  BY <1>4, StartScanSeen, BeginScanSeen, FailsSeen, FlushIfFullSeen, EndWalkSeen, CheckNextSeen, CheckLastSeen, EndScanSeen
<1>5. CASE ChangeHealth \/ UNCHANGED vars
  <2>1. UNCHANGED <<disk, ignored, db, checked, clean, scanning>>
    BY <1>5 DEF ChangeHealth, vars, outside
  <2> QED
    BY <2>1, SameSeen
<1>6. CASE HandleForcedRescans \/ Revert
  <2>1. checked' = {} /\ pc = "idle"
    BY <1>6 DEF HandleForcedRescans, Revert
  <2>2. CASE \E p \in Paths : TRUE
    BY <1>6, <2>2, LetGoSeen
  <2>3. CASE ~ \E p \in Paths : TRUE
    <3>1. CheckedRight' /\ CheckedData'
      BY <2>1 DEF CheckedRight, CheckedData
    <3>2. ignoredParent' = Root /\ row' = 1
      BY <1>6, <2>1 DEF HandleForcedRescans, Revert, scanning, walking, passing, Seen, ListRight
    <3>3. pc' \in {"idle", "begin"} /\ (pc' = "begin" => forcing' = {})
      BY <1>6, <2>1, <2>3 DEF HandleForcedRescans, Revert, scanning, scope, Basic, Types
    <3> QED
      BY <3>1, <3>2, <3>3, IdleSeen
  <2> QED
    BY <2>2, <2>3
<1>7. ASSUME NEW r \in hashing, Hash(r) PROVE Seen' /\ Read'
  BY <1>7, HashSeen
<1>8. ASSUME NEW r \in found, Consume(r) PROVE Seen' /\ Read'
  BY <1>8, ConsumeSeen
<1> QED
  BY <1>1, <1>2, <1>3, <1>4, <1>5, <1>6, <1>7, <1>8 DEF Next

\* What has been checked is on record.
LEMMA SeenIs ==
    ASSUME Basic, Seen, Read
    PROVE  ScanFindsAll /\ (Type # "receiveonly" => RescanRepairs)
<1>1. \A p \in Paths : Hidden(p) <=> HiddenAt(disk, ignored, p)
  BY DEF Hidden, HiddenAt
<1>2. ASSUME NEW p \in Paths, <<p, "stat">> \in checked, p \notin ignored \/ InOrder
      PROVE  IF Hidden(p) THEN db[p] = NoFile \/ db[p].flag = "ignored" \/ Spared(p)
             ELSE IF disk[p] = Absent THEN db[p] = NoFile \/ db[p].deleted \/ db[p].flag = "ignored"
             ELSE OnDisk(p, db[p]) /\ db[p].flag \in {"none", localFlags}
  <2>1. SettledAt(disk, ignored, p, db[p])
    BY <1>2 DEF Seen, CheckedRight, Meant
  <2>2. CASE RightAt(disk, ignored, p, db[p])
    BY <1>1, <2>2 DEF RightAt, OnDisk
  <2>3. CASE HiddenAt(disk, ignored, p) /\ db[p].item.kind = "dir" /\ \E q \in Above[p] : q \in ignored /\ ~HiddenAt(disk, ignored, q)
    <3>1. Spared(p)
      BY <2>3 DEF Spared, Hidden, HiddenAt
    <3> QED
      BY <1>1, <2>3, <3>1
  <2> QED
    BY <2>1, <2>2, <2>3 DEF SettledAt
<1>3. ScanFindsAll
  BY <1>2 DEF ScanFindsAll
<1>4. Type # "receiveonly" => RescanRepairs
  BY DEF RescanRepairs, Read, CheckedData, ReadAt
<1> QED
  BY <1>3, <1>4

\* In a folder of any size, with any patterns, changes on disk and by the other device, errors and
\* scans in any order: what a scan has covered while nothing changed is on record as it is on disk,
\* in a folder that sends a forced rescan has the blocks that are on disk, without renames files with
\* the size and time on record have the blocks on record, no valid item claims changes that it is not
\* based on as long as a rescan is asked for with the look at the database, and what is changed in a
\* receive-only folder stays there.
THEOREM ScanIsRight == ASSUME Configured PROVE Spec => []ScanRight
<1>1. Init => Basic /\ Seen /\ Read
  BY InitBasic, InitSeen
<1>2. Basic /\ Seen /\ Read /\ [Next]_vars => (Basic /\ Seen /\ Read)'
  <2> SUFFICES ASSUME Basic, Seen, Read, [Next]_vars PROVE Basic' /\ Seen' /\ Read'
    OBVIOUS
  <2>1. Basic'
    BY NextBasic
  <2> QED
    BY <2>1, NextSeen
<1>3. Basic /\ Seen /\ Read => ScanRight
  BY BasicIs, SeenIs DEF ScanRight
<1> QED
  BY <1>1, <1>2, <1>3, PTL DEF Spec
=============================================================================
