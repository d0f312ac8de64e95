---------------------------- MODULE PullerProofs ----------------------------
(***************************************************************************)
(* Proofs about Puller, for any items, any number of blocks and of copiers, *)
(* any limit on the pulls and any bound on the iterations, and about        *)
(* Replace, for any bounds on the user's changes and the crashes.           *)
(*                                                                         *)
(* The counters of a file say what is left for its routines only together  *)
(* with which routines run (Phases), which file each of them is with       *)
(* (Owners, NotBegun), and that no block is with two of them (Once); that  *)
(* each file is closed in the end of an iteration needs that one of them   *)
(* still has it (Alive), and that it is where the queue says (Queues).     *)
(***************************************************************************)
EXTENDS MCFolder, FiniteSetTheorems, SequenceTheorems, WellFoundedInduction, TLAPS

-----------------------------------------------------------------------------
(* The inductive invariant *)

Places == [queued : Seq(Files), progress : Seq(Files)]
Sharing == [on : BOOLEAN, err : BOOLEAN, copyNeeded : Int, pullNeeded : Int, closed : BOOLEAN,
            writer : BOOLEAN, reused : BOOLEAN]
Temporary == [exists : BOOLEAN, good : SUBSET Blocks]
Handling == [at : {"off", "idle", "start", "blocks", "pull", "out"}, file : Files \cup {NoFile},
             todo : SUBSET Blocks]
Pulling == [at : {"off", "idle", "take", "out"}, file : Files \cup {NoFile},
            block : Blocks \cup {NoBlock}]
Finishing == [at : {"off", "idle", "finish", "record"}, file : Files \cup {NoFile}]
Updating == [on : BOOLEAN, batch : SUBSET Items]

Shape ==
  /\ main \in {"idle", "need", "queue", "file", "closeCopy", "closePull", "closeFinisher",
               "delete"}
  /\ queue \in Places
  /\ pending \subseteq Items
  /\ state \in [Files -> Sharing]
  /\ temp \in [Files -> Temporary]
  /\ copier \in [Copiers -> Handling]
  /\ puller \in Pulling
  /\ pulls \in [Files -> [Blocks -> {"none", "request", "out"}]]
  /\ finisher \in Finishing
  /\ updater \in Updating
  /\ disk \in [Items -> {"old", "new", "torn"}]
  /\ recorded \subseteq Items

Idle(r) == r.at \in {"off", "idle"}
NoPulls == \A f \in Files, b \in Blocks : pulls[f][b] = "none"

\* Which routines run in which part of an iteration.
Phases ==
  /\ updater.on <=> main # "idle"
  /\ \A c \in Copiers :
       copier[c].at = "off" <=> main \in {"idle", "closePull", "closeFinisher", "delete"}
  /\ puller.at = "off" <=> main \in {"idle", "closeFinisher", "delete"}
  /\ finisher.at = "off" <=> main \in {"idle", "delete"}
  /\ main \in {"idle", "need", "closeFinisher", "delete"} =>
       /\ \A c \in Copiers : Idle(copier[c])
       /\ Idle(puller)
       /\ NoPulls
  /\ main \in {"idle", "need"} => Idle(finisher)
  /\ main = "need" => \A f \in Files : ~state[f].on
  /\ main = "idle" => pending = {} /\ queue = Empty /\ updater.batch = {}

\* A routine that is busy is so with a file that is on its way, and with one that is closed
\* if it is the finisher; no two copiers have the same one.
Owners ==
  /\ \A c \in Copiers :
       IF Idle(copier[c]) THEN copier[c].file = NoFile /\ copier[c].todo = {}
       ELSE /\ copier[c].file \in Files /\ state[copier[c].file].on
            /\ copier[c].at = "pull" => copier[c].todo # {}
  /\ \A c, d \in Copiers : copier[c].file = copier[d].file => c = d \/ Idle(copier[c])
  /\ IF Idle(puller) THEN puller.file = NoFile
     ELSE puller.file \in Files /\ state[puller.file].on /\ puller.block \in Blocks
  /\ \A f \in Files, b \in Blocks : pulls[f][b] # "none" => state[f].on
  /\ IF Idle(finisher) THEN finisher.file = NoFile
     ELSE /\ finisher.file \in Files /\ state[finisher.file].on
          /\ state[finisher.file].closed /\ ~state[finisher.file].err
  /\ \A f \in Files : state[f].writer => state[f].on /\ ~state[f].closed

\* A file that its copier has not begun with is with nobody else.
Begun(f) == \A c \in Copiers : copier[c].file = f => copier[c].at # "start"
NotBegun ==
  \A f \in Files : ~Begun(f) =>
    /\ ~state[f].closed /\ ~state[f].err /\ ~state[f].writer
    /\ puller.file # f
    /\ \A b \in Blocks : pulls[f][b] = "none"

\* What the counters of a file without an error say.
Waiting(f) == \E c \in Copiers : copier[c].file = f /\ copier[c].at = "pull"
Asked(f) == {b \in Blocks : pulls[f][b] = "request"}
Copied(f) == \A c \in Copiers : copier[c].file # f
CountsOf(f) ==
  state[f].on /\ ~state[f].err =>
    /\ \A c \in Copiers : copier[c].file = f =>
         /\ state[f].copyNeeded = Cardinality(copier[c].todo)
                                  - (IF copier[c].at = "pull" THEN 1 ELSE 0)
         /\ copier[c].at = "out" => copier[c].todo = {}
    /\ Copied(f) => state[f].copyNeeded = 0
    /\ state[f].pullNeeded = Cardinality(Asked(f)) + (IF puller.file = f THEN 1 ELSE 0)
                             + (IF Waiting(f) THEN 1 ELSE 0)
    /\ puller.file = f => puller.at = "take"
    /\ state[f].closed => state[f].copyNeeded = 0 /\ state[f].pullNeeded = 0
Counts == \A f \in Files : CountsOf(f)

\* No block is with two routines.
Once ==
  /\ \A c \in Copiers : \A b \in copier[c].todo :
       /\ pulls[copier[c].file][b] = "none"
       /\ puller.file = copier[c].file => puller.block # b
  /\ ~Idle(puller) => pulls[puller.file][puller.block] = "none"

\* A file that is not closed is with someone who will bring it to the finisher.
Alive ==
  \A f \in Files : state[f].on /\ ~state[f].closed =>
    ~Copied(f) \/ puller.file = f \/ \E b \in Blocks : pulls[f][b] # "none"

Distinct(s) == \A i, j \in DOMAIN s : s[i] = s[j] => i = j
Queues ==
  /\ Distinct(queue.queued) /\ Distinct(queue.progress)
  /\ \A f \in Files : Listed(queue.queued, f) =>
       /\ ~Listed(queue.progress, f) /\ ~state[f].on
       /\ main = "need" => f \notin pending
  /\ \A f \in Files : Listed(queue.progress, f) =>
       \/ state[f].on /\ ~state[f].closed
       \/ main = "file" /\ f = Popped
  /\ main = "file" => queue.progress # <<>> /\ ~state[Popped].on

IInv == Shape /\ Phases /\ Owners /\ NotBegun /\ Counts /\ Once /\ Alive /\ Queues

\* Each block of a file without an error is good in its temporary file, or someone has it
\* before him.
ContentOf(f) ==
  state[f].on /\ ~state[f].err =>
    /\ \A c \in Copiers : copier[c].file = f /\ copier[c].at = "start" =>
         copier[c].todo = Blocks \ (IF state[f].reused THEN temp[f].good ELSE {})
    /\ Begun(f) /\ ~state[f].closed =>
         /\ ~state[f].reused => Zeros \subseteq temp[f].good
         /\ \A b \in Blocks \ temp[f].good :
              \/ \E c \in Copiers : copier[c].file = f /\ b \in copier[c].todo
              \/ pulls[f][b] = "request"
              \/ puller.file = f /\ puller.block = b
    /\ finisher.file = f /\ finisher.at = "finish" => temp[f].good = Blocks
Content == \A f \in Files : ContentOf(f)

OnDisk ==
  /\ recorded \cup updater.batch \subseteq {i \in Items : disk[i] = "new"}
  /\ \A i \in Items :
       /\ disk[i] # "torn"
       /\ disk[i] = "new" => \/ i \in recorded \cup updater.batch
                             \/ finisher.at = "record" /\ finisher.file = i
  /\ finisher.at = "record" => disk[finisher.file] = "new"

CInv == IInv /\ Content /\ OnDisk

-----------------------------------------------------------------------------
(* The queue *)

\* A file that is pushed comes last.
LEMMA Pushed ==
  ASSUME NEW S, NEW s \in Seq(S), NEW f \in S, Distinct(s), ~Listed(s, f)
  PROVE  /\ Append(s, f) \in Seq(S) /\ Distinct(Append(s, f)) /\ Append(s, f) # <<>>
         /\ \A g : Listed(Append(s, f), g) <=> Listed(s, g) \/ g = f
         /\ Append(s, f)[Len(Append(s, f))] = f
<1>1. /\ Append(s, f) \in Seq(S) /\ Len(Append(s, f)) = Len(s) + 1
      /\ Append(s, f)[Len(s) + 1] = f
      /\ \A i \in 1..Len(s) : Append(s, f)[i] = s[i]
      /\ DOMAIN Append(s, f) = 1..(Len(s) + 1) /\ DOMAIN s = 1..Len(s) /\ Len(s) \in Nat
  OBVIOUS
<1>2. Distinct(Append(s, f))
  BY <1>1, SMT DEF Distinct, Listed
<1>3. ASSUME NEW g PROVE Listed(Append(s, f), g) <=> Listed(s, g) \/ g = f
  BY <1>1, SMT DEF Listed
<1> QED
  BY <1>1, <1>2, <1>3

\* The one that is popped was queued, and is not any more.
LEMMA Popping ==
  ASSUME NEW S, NEW s \in Seq(S), Distinct(s), s # <<>>
  PROVE  /\ Tail(s) \in Seq(S) /\ Distinct(Tail(s)) /\ Head(s) \in S /\ Listed(s, Head(s))
         /\ \A g : Listed(Tail(s), g) <=> Listed(s, g) /\ g # Head(s)
<1>1. /\ Tail(s) \in Seq(S) /\ Len(Tail(s)) = Len(s) - 1 /\ Head(s) = s[1] /\ Head(s) \in S
      /\ \A i \in 1..(Len(s) - 1) : Tail(s)[i] = s[i + 1]
      /\ DOMAIN Tail(s) = 1..(Len(s) - 1) /\ DOMAIN s = 1..Len(s)
      /\ Len(s) \in Nat /\ Len(s) > 0
  OBVIOUS
<1>2. Distinct(Tail(s))
  BY <1>1, SMT DEF Distinct
<1>3. ASSUME NEW g PROVE Listed(Tail(s), g) <=> Listed(s, g) /\ g # Head(s)
  <2>1. ASSUME Listed(Tail(s), g) PROVE Listed(s, g) /\ g # Head(s)
    BY <1>1, <2>1, SMT DEF Listed, Distinct
  <2>2. ASSUME Listed(s, g), g # Head(s) PROVE Listed(Tail(s), g)
    <3>1. PICK i \in 1..Len(s) : s[i] = g
      BY <1>1, <2>2 DEF Listed
    <3>2. i # 1 /\ i - 1 \in 1..(Len(s) - 1) /\ Tail(s)[i - 1] = g
      BY <1>1, <2>2, <3>1
    <3> QED
      BY <1>1, <3>2 DEF Listed
  <2> QED
    BY <2>1, <2>2
<1>4. Listed(s, Head(s))
  BY <1>1 DEF Listed
<1> QED
  BY <1>1, <1>2, <1>3, <1>4

\* Where a file is, there is it.
LEMMA Positioned ==
  ASSUME NEW S, NEW s \in Seq(S), NEW f, Distinct(s), Listed(s, f)
  PROVE  Position(s, f) \in 1..Len(s) /\ s[Position(s, f)] = f
<1>1. PICK i \in DOMAIN s : s[i] = f
  BY DEF Listed
<1>2. DOMAIN s = 1..Len(s) /\ Len(s) \in Nat
  OBVIOUS
<1>3. \A j \in 1..(i - 1) : s[j] # f
  BY <1>1, <1>2, SMT DEF Distinct
<1> QED
  BY <1>1, <1>2, <1>3 DEF Position

\* Without one of them the others are there as before, the last one last.
LEMMA WithoutOne ==
  ASSUME NEW S, NEW s \in Seq(S), NEW i \in 1..Len(s), Distinct(s)
  PROVE  /\ Without(s, i) \in Seq(S) /\ Distinct(Without(s, i))
         /\ \A g : Listed(Without(s, i), g) <=> Listed(s, g) /\ g # s[i]
         /\ i # Len(s) => /\ Without(s, i) # <<>>
                          /\ Without(s, i)[Len(Without(s, i))] = s[Len(s)]
<1> DEFINE n == Len(s)
           w == Without(s, i)
<1>1. n \in Nat /\ n > 0 /\ DOMAIN s = 1..n /\ i \in 1..n /\ \A j \in 1..n : s[j] \in S
  OBVIOUS
<1>2. DOMAIN w = 1..(n - 1) /\ \A j \in 1..(n - 1) : w[j] = IF j < i THEN s[j] ELSE s[j + 1]
  BY DEF Without
<1>3. w \in Seq(S) /\ Len(w) = n - 1
  <2>1. \A j \in 1..(n - 1) : w[j] \in S
    BY <1>1, <1>2, SMT
  <2>2. w \in [1..(n - 1) -> S]
    BY <2>1 DEF Without
  <2>3. n - 1 \in Nat
    BY <1>1
  <2> HIDE DEF w
  <2> QED
    BY <1>2, <2>2, <2>3
<1>4. Distinct(w)
  BY <1>1, <1>2, SMT DEF Distinct
<1>5. ASSUME NEW g PROVE Listed(w, g) <=> Listed(s, g) /\ g # s[i]
  <2>1. ASSUME Listed(w, g) PROVE Listed(s, g) /\ g # s[i]
    BY <1>1, <1>2, <2>1, SMT DEF Listed, Distinct
  <2>2. ASSUME Listed(s, g), g # s[i] PROVE Listed(w, g)
    <3>1. PICK j \in 1..n : s[j] = g
      BY <1>1, <2>2 DEF Listed
    <3>2. CASE j < i
      <4>1. j \in 1..(n - 1) /\ w[j] = g
        BY <1>1, <1>2, <3>1, <3>2
      <4> QED
        BY <1>2, <4>1 DEF Listed
    <3>3. CASE ~(j < i)
      <4>1. j - 1 \in 1..(n - 1) /\ w[j - 1] = g
        BY <1>1, <1>2, <2>2, <3>1, <3>3
      <4> QED
        BY <1>2, <4>1 DEF Listed
    <3> QED
      BY <3>2, <3>3
  <2> QED
    BY <2>1, <2>2
<1>6. i # n => w # <<>> /\ w[Len(w)] = s[n]
  <2>1. SUFFICES ASSUME i # n PROVE w # <<>> /\ w[Len(w)] = s[n]
    OBVIOUS
  <2>2. n - 1 \in 1..(n - 1) /\ ~(n - 1 < i) /\ n - 1 + 1 = n
    <3> HIDE DEF n
    <3> QED
      BY <1>1, <2>1
  <2>3. w[n - 1] = s[n]
    <3> HIDE DEF n, w
    <3> QED
      BY <1>2, <2>2
  <2> HIDE DEF n, w
  <2> QED
    BY <1>1, <1>3, <2>2, <2>3
<1> QED
  BY <1>3, <1>4, <1>5, <1>6

\* What is done is not in progress any more.
LEMMA IsDone ==
  ASSUME NEW q \in Places, NEW f, Distinct(q.progress)
  PROVE  /\ Done(q, f) \in Places
         /\ Done(q, f).queued = q.queued /\ Distinct(Done(q, f).progress)
         /\ \A g : Listed(Done(q, f).progress, g) <=> Listed(q.progress, g) /\ g # f
         /\ q.progress # <<>> /\ q.progress[Len(q.progress)] # f =>
              /\ Done(q, f).progress # <<>>
              /\ Done(q, f).progress[Len(Done(q, f).progress)] = q.progress[Len(q.progress)]
<1>1. CASE Listed(q.progress, f)
  <2> DEFINE i == Position(q.progress, f)
  <2>1. i \in 1..Len(q.progress) /\ q.progress[i] = f
    BY <1>1, Positioned DEF Places
  <2>2. Done(q, f) = [q EXCEPT !.progress = Without(q.progress, i)]
    BY <1>1 DEF Done
  <2> HIDE DEF i
  <2>3. /\ Without(q.progress, i) \in Seq(Files) /\ Distinct(Without(q.progress, i))
        /\ \A g : Listed(Without(q.progress, i), g) <=> Listed(q.progress, g) /\ g # q.progress[i]
        /\ i # Len(q.progress) =>
             /\ Without(q.progress, i) # <<>>
             /\ Without(q.progress, i)[Len(Without(q.progress, i))] = q.progress[Len(q.progress)]
    BY <2>1, WithoutOne DEF Places
  <2>4. /\ Done(q, f).progress = Without(q.progress, i) /\ Done(q, f).queued = q.queued
        /\ Done(q, f) \in Places
    BY <2>2, <2>3 DEF Places
  <2> QED
    BY <2>1, <2>3, <2>4
<1>2. CASE ~Listed(q.progress, f)
  BY <1>2 DEF Done
<1> QED
  BY <1>1, <1>2

\* What is brought to the front stays what is queued.
LEMMA ToTheFront ==
  ASSUME NEW q \in Places, NEW f \in Files,
         Distinct(q.queued)
  PROVE  /\ BringToFront(q, f) \in Places
         /\ BringToFront(q, f).progress = q.progress
         /\ Distinct(BringToFront(q, f).queued)
         /\ \A g : Listed(BringToFront(q, f).queued, g) <=> Listed(q.queued, g)
<1>1. CASE Listed(q.queued, f)
  <2> DEFINE i == Position(q.queued, f)
             w == Without(q.queued, i)
             s == <<f>> \o w
  <2>1. i \in 1..Len(q.queued) /\ q.queued[i] = f
    BY <1>1, Positioned DEF Places
  <2>2. BringToFront(q, f) = [q EXCEPT !.queued = s]
    BY <1>1 DEF BringToFront
  <2>3. /\ w \in Seq(Files) /\ Distinct(w)
        /\ \A g : Listed(w, g) <=> Listed(q.queued, g) /\ g # q.queued[i]
    <3> HIDE DEF i
    <3> QED
      BY <2>1, WithoutOne DEF Places
  <2> HIDE DEF w
  <2>4. /\ s \in Seq(Files) /\ DOMAIN s = 1..(Len(w) + 1) /\ s[1] = f
        /\ \A j \in 1..Len(w) : s[j + 1] = w[j]
        /\ DOMAIN w = 1..Len(w) /\ Len(w) \in Nat
    BY <2>3
  <2> HIDE DEF s
  <2>5. \A j \in DOMAIN s : j = 1 \/ (j - 1 \in DOMAIN w /\ s[j] = w[j - 1])
    BY <2>4, SMT
  <2>6. \A j \in DOMAIN w : w[j] # f
    BY <2>1, <2>3 DEF Listed
  <2>7. Distinct(s)
    BY <2>3, <2>4, <2>5, <2>6, SMT DEF Distinct
  <2>8. ASSUME NEW g PROVE Listed(s, g) <=> Listed(q.queued, g)
    <3>1. Listed(s, g) => Listed(w, g) \/ g = f
      BY <2>4, <2>5 DEF Listed
    <3>2. ASSUME Listed(w, g) PROVE Listed(s, g)
      <4>1. PICK j \in 1..Len(w) : w[j] = g
        BY <2>4, <3>2 DEF Listed
      <4>2. j + 1 \in DOMAIN s /\ s[j + 1] = g
        BY <2>4, <4>1
      <4> QED
        BY <4>2 DEF Listed
    <3>3. Listed(s, f)
      BY <2>4 DEF Listed
    <3> QED
      BY <1>1, <2>1, <2>3, <3>1, <3>2, <3>3
  <2> QED
    BY <2>2, <2>4, <2>7, <2>8 DEF Places
<1>2. CASE ~Listed(q.queued, f)
  BY <1>2 DEF BringToFront
<1> QED
  BY <1>1, <1>2

-----------------------------------------------------------------------------
(* Blocks *)

\* What the configurations have: some number of blocks, of which some are zeroes and some
\* may be there to begin with.
Settings ==
  /\ NumBlocks \in Nat
  /\ Zeros \subseteq Blocks
  /\ LeftOvers \subseteq SUBSET Blocks
  /\ NoFile \notin Files
  /\ Files \cap Shortcuts = {} /\ Files \cap Deletions = {} /\ Shortcuts \cap Deletions = {}

\* Blocks can be counted.
LEMMA Counted ==
  ASSUME Settings, NEW S \in SUBSET Blocks
  PROVE  IsFiniteSet(S) /\ Cardinality(S) \in Nat /\ (Cardinality(S) = 0 <=> S = {})
<1>1. IsFiniteSet(S)
  <2>1. 1 \in Int /\ NumBlocks \in Int
    BY DEF Settings
  <2>2. IsFiniteSet(Blocks)
    BY <2>1, FS_Interval DEF Blocks
  <2> QED
    BY <2>2, FS_Subset
<1> QED
  BY <1>1, FS_CardinalityType, FS_EmptySet

\* A block less is one less.
LEMMA OneLess ==
  ASSUME Settings, NEW S \in SUBSET Blocks, NEW b \in S
  PROVE  Cardinality(S \ {b}) = Cardinality(S) - 1
  BY Counted, FS_RemoveElement

\* A block more is one more.
LEMMA OneMore ==
  ASSUME Settings, NEW S \in SUBSET Blocks, NEW b \in Blocks, b \notin S
  PROVE  Cardinality(S \cup {b}) = Cardinality(S) + 1
  BY Counted, FS_AddElement

\* The zeroes are blocks.
LEMMA ZerosAreBlocks == ASSUME Settings PROVE Zeros \subseteq Blocks
  BY DEF Settings

\* There is a next block as long as there is any.
LEMMA HasNext ==
  ASSUME Settings, Shape, NEW c \in Copiers, copier[c].todo # {}
  PROVE  NextBlock(c) \in copier[c].todo
<1> DEFINE S == copier[c].todo
<1>1. S \subseteq Nat
  BY DEF Shape, Blocks, Settings, Handling
<1> HIDE DEF S
<1>2. PICK b \in S : \A y \in S : <<y, b>> \notin OpToRel(<, Nat)
  <2>1. IsWellFoundedOn(OpToRel(<, Nat), Nat) /\ S # {}
    BY NatLessThanWellFounded DEF S
  <2> QED
    BY <1>1, <2>1, WFMin
<1>3. \A y \in S : b <= y
  <2>1. \A y \in S : ~(y < b)
    BY <1>1, <1>2 DEF OpToRel
  <2> QED
    BY <1>1, <2>1
<1> QED
  BY <1>2, <1>3 DEF NextBlock, S

-----------------------------------------------------------------------------
(* Each step keeps each part *)

\* What is done to the shared state of a file leaves it one.
LEMMA SharingKept ==
  ASSUME NEW s \in [Files -> Sharing], NEW f \in Files, NEW t,
         \/ t = s
         \/ t = [s EXCEPT ![f] = Fail(s[f])]
         \/ t = [s EXCEPT ![f] = PullStarted(s[f])]
         \/ t = [s EXCEPT ![f].copyNeeded = s[f].copyNeeded - 1]
         \/ t = [s EXCEPT ![f].pullNeeded = s[f].pullNeeded - 1]
         \/ t = [s EXCEPT ![f].writer = TRUE]
         \/ t = [s EXCEPT ![f].closed = TRUE, ![f].writer = FALSE]
  PROVE  t \in [Files -> Sharing]
<1>1. [s EXCEPT ![f].copyNeeded = @ - 1] \in [Files -> Sharing]
  BY DEF Sharing
<1>2. PullStarted(s[f]) \in Sharing
  <2>1. [s[f] EXCEPT !.copyNeeded = @ - 1] \in Sharing
    BY DEF Sharing
  <2>2. s[f].pullNeeded + 1 \in Int
    BY DEF Sharing
  <2>3. ASSUME NEW r \in Sharing PROVE [r EXCEPT !.pullNeeded = s[f].pullNeeded + 1] \in Sharing
    BY <2>2 DEF Sharing
  <2>4. PullStarted(s[f])
        = [[s[f] EXCEPT !.copyNeeded = @ - 1] EXCEPT !.pullNeeded = s[f].pullNeeded + 1]
    BY DEF PullStarted
  <2> QED
    BY <2>1, <2>3, <2>4
<1>3. Fail(s[f]) \in Sharing
  <2>1. s[f] \in Sharing
    OBVIOUS
  <2>2. \A r \in Sharing : [r EXCEPT !.err = TRUE] \in Sharing
    BY DEF Sharing
  <2> QED
    BY <2>1, <2>2 DEF Fail
<1>4. [s EXCEPT ![f].pullNeeded = @ - 1] \in [Files -> Sharing]
  BY DEF Sharing
<1>5. [s EXCEPT ![f].writer = TRUE] \in [Files -> Sharing]
  BY DEF Sharing
<1>6. [s EXCEPT ![f].closed = TRUE, ![f].writer = FALSE] \in [Files -> Sharing]
  BY DEF Sharing
<1> QED
  BY <1>1, <1>2, <1>3, <1>4, <1>5, <1>6

\* The state of a file begins as one.
LEMMA SharingBegins ==
  ASSUME NEW n \in Int, NEW r \in BOOLEAN
  PROVE  /\ Unused \in Sharing
         /\ [Unused EXCEPT !.on = TRUE, !.copyNeeded = n, !.reused = r] \in Sharing
<1>1. Unused \in Sharing
  BY DEF Unused, Sharing
<1>2. [Unused EXCEPT !.on = TRUE] \in Sharing
  BY <1>1 DEF Sharing
<1>3. ASSUME NEW s \in Sharing PROVE [s EXCEPT !.copyNeeded = n] \in Sharing
  BY DEF Sharing
<1>4. ASSUME NEW s \in Sharing PROVE [s EXCEPT !.reused = r] \in Sharing
  BY DEF Sharing
<1>5. [Unused EXCEPT !.on = TRUE, !.copyNeeded = n, !.reused = r]
      = [[[Unused EXCEPT !.on = TRUE] EXCEPT !.copyNeeded = n] EXCEPT !.reused = r]
  OBVIOUS
<1> QED
  BY <1>1, <1>2, <1>3, <1>4, <1>5

\* What is done to a temporary file leaves it one.
LEMMA TemporaryKept ==
  ASSUME Settings, NEW s \in [Files -> Temporary], NEW f \in Files, NEW t,
         \/ t = s
         \/ \E e \in BOOLEAN, g \in {{}, Zeros} : t = [s EXCEPT ![f] = [exists |-> e, good |-> g]]
  PROVE  t \in [Files -> Temporary]
<1>1. ASSUME NEW e \in BOOLEAN, NEW g \in SUBSET Blocks,
             t = [s EXCEPT ![f] = [exists |-> e, good |-> g]]
      PROVE  t \in [Files -> Temporary]
  BY <1>1 DEF Temporary
<1> QED
  BY <1>1, ZerosAreBlocks

\* The variables keep their types.
LEMMA ShapeStep == ASSUME Settings, IInv, [Next]_vars PROVE Shape'
<1>t. Shape
  BY DEF IInv
<1>state. state \in [Files -> Sharing]
  BY <1>t DEF Shape
<1>temp. temp \in [Files -> Temporary]
  BY <1>t DEF Shape
<1>copier. copier \in [Copiers -> Handling]
  BY <1>t DEF Shape
<1>puller. puller \in Pulling
  BY <1>t DEF Shape
<1>pulls. pulls \in [Files -> [Blocks -> {"none", "request", "out"}]]
  BY <1>t DEF Shape
<1>finisher. finisher \in Finishing
  BY <1>t DEF Shape
<1>updater. updater \in Updating
  BY <1>t DEF Shape
<1>disk. disk \in [Items -> {"old", "new", "torn"}]
  BY <1>t DEF Shape
<1>queue. queue \in Places
  BY <1>t DEF Shape
<1>items. Files \cup Shortcuts \cup Deletions = Items
  BY DEF Items
<1>1. CASE BeginIteration
  <2>1. copier' \in [Copiers -> Handling]
    BY <1>1, <1>copier DEF BeginIteration, Handling, IdleCopier
  <2>2. puller' \in Pulling
    BY <1>1, <1>puller DEF BeginIteration, Pulling, IdlePuller, NoBlock
  <2>3. finisher' \in Finishing
    BY <1>1, <1>finisher DEF BeginIteration, Finishing, IdleFinisher
  <2>4. updater' \in Updating
    BY <1>1, <1>updater DEF BeginIteration, Updating
  <2>5. state' \in [Files -> Sharing]
    BY <1>1, <1>state DEF BeginIteration, Sharing, Unused
  <2> QED
    BY <1>1, <1>t, <2>1, <2>2, <2>3, <2>4, <2>5 DEF BeginIteration, Shape
<1>2. CASE ProcessQueue
  BY <1>2, <1>t DEF ProcessQueue, Shape
<1>3. CASE PopFile
  <2>q. Distinct(queue.queued) /\ Distinct(queue.progress)
    BY DEF IInv, Queues
  <2>1. queue' \in Places
    BY <1>3, <1>queue, <2>q, Popping DEF PopFile, Places, Pop, CanPop
  <2> QED
    BY <1>3, <1>t, <2>1 DEF PopFile, Shape
<1>4. CASE GiveUpFile
  <2>q. Distinct(queue.queued) /\ Distinct(queue.progress)
    BY DEF IInv, Queues
  <2>1. queue' \in Places
    BY <1>4, <1>queue, <2>q, IsDone DEF GiveUpFile, Places, Abandon
  <2> QED
    BY <1>4, <1>t, <2>1 DEF GiveUpFile, Shape
<1>5. CASE CloseCopyChan
  BY <1>5, <1>t DEF CloseCopyChan, Shape
<1>6. CASE ClosePullChan
  <2>1. copier' \in [Copiers -> Handling]
    BY <1>6, <1>copier DEF ClosePullChan, Handling, IdleCopier
  <2> QED
    BY <1>6, <1>t, <2>1 DEF ClosePullChan, Shape
<1>7. CASE CloseFinisherChan
  <2>1. puller' \in Pulling
    BY <1>7, <1>puller DEF CloseFinisherChan, Pulling, IdlePuller, NoBlock
  <2> QED
    BY <1>7, <1>t, <2>1 DEF CloseFinisherChan, Shape
<1>8. CASE FinisherDone
  <2>1. finisher' \in Finishing
    BY <1>8, <1>finisher DEF FinisherDone, Finishing, IdleFinisher
  <2> QED
    BY <1>8, <1>t, <2>1 DEF FinisherDone, Shape
<1>9. CASE EndIteration
  <2>1. updater' \in Updating
    BY <1>9, <1>updater DEF EndIteration, Updating
  <2>2. queue' \in Places
    BY <1>9, <1>queue DEF EndIteration, Places, Empty
  <2> QED
    BY <1>9, <1>t, <2>1, <2>2 DEF EndIteration, Shape, LastBatch, Updating
<1>10. ASSUME NEW f \in Files, NeedFile(f) PROVE Shape'
  <2>q. Distinct(queue.queued) /\ ~Listed(queue.queued, f)
    BY <1>10 DEF NeedFile, IInv, Queues
  <2>1. queue' \in Places
    BY <1>10, <1>queue, <2>q, Pushed DEF NeedFile, Places, Push
  <2> QED
    BY <1>10, <1>t, <2>1 DEF NeedFile, Shape
<1>11. ASSUME NEW i \in Shortcuts, NeedShortcut(i) PROVE Shape'
  <2>1. disk' \in [Items -> {"old", "new", "torn"}]
    BY <1>11, <1>disk, <1>items DEF NeedShortcut
  <2>2. updater' \in Updating
    BY <1>11, <1>updater, <1>items DEF NeedShortcut, Updating, Record
  <2> QED
    BY <1>11, <1>t, <2>1, <2>2 DEF NeedShortcut, Shape
<1>12. ASSUME NEW i \in Deletions, DeleteFile(i) PROVE Shape'
  <2>1. disk' \in [Items -> {"old", "new", "torn"}]
    BY <1>12, <1>disk, <1>items DEF DeleteFile
  <2>2. updater' \in Updating
    BY <1>12, <1>updater, <1>items DEF DeleteFile, Updating, Record
  <2> QED
    BY <1>12, <1>t, <2>1, <2>2 DEF DeleteFile, Shape
<1>13. ASSUME NEW i \in Deletions, RenameFile(i) PROVE Shape'
  <2>p. Popped \in Files
    BY <1>13, <1>queue DEF RenameFile, IInv, Queues, Popped, Places
  <2>q. Distinct(queue.queued) /\ Distinct(queue.progress)
    BY DEF IInv, Queues
  <2>1. disk' \in [Items -> {"old", "new", "torn"}]
    BY <1>13, <1>disk, <1>items DEF RenameFile
  <2>2. updater' \in Updating
    BY <1>13, <1>updater, <1>items, <2>p DEF RenameFile, Updating
  <2>3. queue' \in Places
    BY <1>13, <1>queue, <2>q, IsDone DEF RenameFile, Places
  <2> QED
    BY <1>13, <1>t, <2>1, <2>2, <2>3 DEF RenameFile, Shape
<1>14. ASSUME NEW x \in Copiers, HandleFile(x) PROVE Shape'
  <2>p. Popped \in Files
    BY <1>14, <1>queue DEF HandleFile, IInv, Queues, Popped, Places
  <2>r. Reused(Popped) \in SUBSET Blocks
    BY <2>p, <1>temp DEF Reused, Temporary
  <2>c. Cardinality(Blocks \ Reused(Popped)) \in Int
    BY <2>r, Counted
  <2>s. state' = [state EXCEPT ![Popped] =
              [Unused EXCEPT !.on = TRUE, !.copyNeeded = Cardinality(Blocks \ Reused(Popped)),
                             !.reused = (Reused(Popped) # {})]]
    BY <1>14 DEF HandleFile
  <2>1. state' \in [Files -> Sharing]
    BY <2>s, <1>state, <2>p, <2>c, SharingBegins
  <2>2. copier' \in [Copiers -> Handling]
    BY <1>14, <1>copier, <2>p, <2>r DEF HandleFile, Handling
  <2>3. temp' \in [Files -> Temporary]
    BY <1>14, <1>temp, <2>p DEF HandleFile, Temporary
  <2> QED
    BY <1>14, <1>t, <2>1, <2>2, <2>3 DEF HandleFile, Shape
<1>15. ASSUME NEW x \in Copiers, StartCopy(x) PROVE Shape'
  <2>o. copier[x].file \in Files
    BY <1>15 DEF StartCopy, IInv, Owners, Idle
  <2>s. \/ state' = [state EXCEPT ![copier[x].file].writer = TRUE]
         \/ state' = [state EXCEPT ![copier[x].file] = Fail(state[copier[x].file])]
    BY <1>15 DEF StartCopy, OpenTemp, OpenShortTemp, OpenFails
  <2>1. state' \in [Files -> Sharing]
    BY <2>s, <1>state, <2>o, SharingKept
  <2>v. \/ temp' = temp
         \/ \E e \in BOOLEAN, g \in {{}, Zeros} :
              temp' = [temp EXCEPT ![copier[x].file] = [exists |-> e, good |-> g]]
    BY <1>15 DEF StartCopy, OpenTemp, OpenShortTemp, OpenFails
  <2>2. temp' \in [Files -> Temporary]
    BY <2>v, <1>temp, <2>o, TemporaryKept
  <2>3. copier' \in [Copiers -> Handling]
    BY <1>15, <1>copier DEF StartCopy, OpenTemp, OpenShortTemp, OpenFails, Handling
  <2> QED
    BY <1>15, <1>t, <2>1, <2>2, <2>3 DEF StartCopy, OpenTemp, OpenShortTemp, OpenFails, Shape
<1>16. ASSUME NEW x \in Copiers, CopyBlock(x) PROVE Shape'
  <2>o. copier[x].file \in Files
    BY <1>16 DEF CopyBlock, IInv, Owners, Idle
  <2>n. NextBlock(x) \in Blocks
    BY <1>16, <1>t, <1>copier, HasNext DEF CopyBlock, Handling
  <2>s. \/ state' = [state EXCEPT ![copier[x].file].copyNeeded =
                                          state[copier[x].file].copyNeeded - 1]
         \/ state' = [state EXCEPT ![copier[x].file] = Fail(state[copier[x].file])]
    BY <1>16 DEF CopyBlock, CopyFails, Fail
  <2>1. state' \in [Files -> Sharing]
    BY <2>s, <1>state, <2>o, SharingKept
  <2>2. temp' \in [Files -> Temporary]
    BY <1>16, <1>temp, <2>o, <2>n, ZerosAreBlocks DEF CopyBlock, CopyFails, Written, Temporary
  <2>3. copier' \in [Copiers -> Handling]
    BY <1>16, <1>copier DEF CopyBlock, CopyFails, Written, Handling
  <2> QED
    BY <1>16, <1>t, <2>1, <2>2, <2>3 DEF CopyBlock, CopyFails, Written, Shape
<1>17. ASSUME NEW x \in Copiers, BeginPull(x) PROVE Shape'
  <2>o. copier[x].file \in Files
    BY <1>17 DEF BeginPull, IInv, Owners, Idle
  <2>s. state' = [state EXCEPT ![copier[x].file] = PullStarted(state[copier[x].file])]
    BY <1>17 DEF BeginPull
  <2>1. state' \in [Files -> Sharing]
    BY <2>s, <1>state, <2>o, SharingKept
  <2>2. copier' \in [Copiers -> Handling]
    BY <1>17, <1>copier DEF BeginPull, PullStarted, Handling
  <2> QED
    BY <1>17, <1>t, <2>1, <2>2 DEF BeginPull, PullStarted, Shape
<1>18. ASSUME NEW x \in Copiers, SendPull(x) PROVE Shape'
  <2>o. copier[x].file \in Files
    BY <1>18 DEF SendPull, IInv, Owners, Idle
  <2>m. copier[x].todo # {}
    BY <1>18 DEF SendPull, IInv, Owners, Idle
  <2>n. NextBlock(x) \in Blocks
    BY <1>18, <1>t, <1>copier, HasNext, <2>m DEF SendPull, Handling
  <2>1. copier' \in [Copiers -> Handling]
    BY <1>18, <1>copier DEF SendPull, Handling
  <2>2. puller' \in Pulling
    BY <1>18, <1>puller, <2>o, <2>n DEF SendPull, Pulling
  <2> QED
    BY <1>18, <1>t, <2>1, <2>2 DEF SendPull, Shape
<1>19. ASSUME NEW x \in Copiers, CopierDone(x) PROVE Shape'
  <2>1. copier' \in [Copiers -> Handling]
    BY <1>19, <1>copier DEF CopierDone, Handling
  <2> QED
    BY <1>19, <1>t, <2>1 DEF CopierDone, Shape
<1>20. ASSUME NEW x \in Copiers, ReceiveFromCopier(x) PROVE Shape'
  <2>o. copier[x].file \in Files
    BY <1>20 DEF ReceiveFromCopier, IInv, Owners, Idle
  <2>q. Distinct(queue.queued) /\ Distinct(queue.progress)
    BY DEF IInv, Queues
  <2>s. \/ state' = state
         \/ state' = [state EXCEPT ![copier[x].file].closed = TRUE, ![copier[x].file].writer = FALSE]
    BY <1>20 DEF ReceiveFromCopier, FinalClose
  <2>1. state' \in [Files -> Sharing]
    BY <2>s, <1>state, <2>o, SharingKept
  <2>2. copier' \in [Copiers -> Handling]
    BY <1>20, <1>copier DEF ReceiveFromCopier, FinalClose, Handling, IdleCopier
  <2>3. queue' \in Places
    BY <1>20, <1>queue, <2>q, IsDone DEF ReceiveFromCopier, FinalClose, Places
  <2>4. finisher' \in Finishing
    BY <1>20, <1>finisher, <2>o DEF ReceiveFromCopier, FinalClose, Finishing
  <2> QED
    BY <1>20, <1>t, <2>1, <2>2, <2>3, <2>4 DEF ReceiveFromCopier, FinalClose, Shape
<1>21. CASE StartPull
  <2>o. puller.file \in Files
    BY <1>21 DEF StartPull, IInv, Owners, Idle
  <2>b. puller.block \in Blocks
    BY <1>21 DEF StartPull, IInv, Owners, Idle
  <2>s. state' = state \/ state' = [state EXCEPT ![puller.file] = Fail(state[puller.file])]
    BY <1>21 DEF StartPull
  <2>1. state' \in [Files -> Sharing]
    BY <2>s, <1>state, <2>o, SharingKept
  <2>2. pulls' \in [Files -> [Blocks -> {"none", "request", "out"}]]
    BY <1>21, <1>pulls, <2>o, <2>b DEF StartPull
  <2>3. puller' \in Pulling
    BY <1>21, <1>puller DEF StartPull, Pulling, IdlePuller, NoBlock
  <2> QED
    BY <1>21, <1>t, <2>1, <2>2, <2>3 DEF StartPull, Shape
<1>22. CASE ReceiveFromPuller
  <2>o. puller.file \in Files
    BY <1>22 DEF ReceiveFromPuller, IInv, Owners, Idle
  <2>q. Distinct(queue.queued) /\ Distinct(queue.progress)
    BY DEF IInv, Queues
  <2>s. \/ state' = state
         \/ state' = [state EXCEPT ![puller.file].closed = TRUE, ![puller.file].writer = FALSE]
    BY <1>22 DEF ReceiveFromPuller, FinalClose
  <2>1. state' \in [Files -> Sharing]
    BY <2>s, <1>state, <2>o, SharingKept
  <2>2. puller' \in Pulling
    BY <1>22, <1>puller DEF ReceiveFromPuller, FinalClose, Pulling, IdlePuller, NoBlock
  <2>3. queue' \in Places
    BY <1>22, <1>queue, <2>q, IsDone DEF ReceiveFromPuller, FinalClose, Places
  <2>4. finisher' \in Finishing
    BY <1>22, <1>finisher, <2>o DEF ReceiveFromPuller, FinalClose, Finishing
  <2> QED
    BY <1>22, <1>t, <2>1, <2>2, <2>3, <2>4 DEF ReceiveFromPuller, FinalClose, Shape
<1>23. ASSUME NEW f \in Files, NEW b \in Blocks, PullBlock(f, b) PROVE Shape'
  <2>s. \/ state' = [state EXCEPT ![f].pullNeeded = state[f].pullNeeded - 1]
         \/ state' = [state EXCEPT ![f] = Fail(state[f])]
    BY <1>23 DEF PullBlock, PullFailed, Fail
  <2>1. state' \in [Files -> Sharing]
    BY <2>s, <1>state, <1>23, SharingKept
  <2>2. pulls' \in [Files -> [Blocks -> {"none", "request", "out"}]]
    BY <1>23, <1>pulls DEF PullBlock, PullFailed, Written
  <2>3. temp' \in [Files -> Temporary]
    BY <1>23, <1>temp, ZerosAreBlocks DEF PullBlock, PullFailed, Written, Temporary
  <2> QED
    BY <1>23, <1>t, <2>1, <2>2, <2>3 DEF PullBlock, PullFailed, Written, Shape
<1>24. ASSUME NEW f \in Files, NEW b \in Blocks, ReceiveFromPull(f, b) PROVE Shape'
  <2>q. Distinct(queue.queued) /\ Distinct(queue.progress)
    BY DEF IInv, Queues
  <2>s. \/ state' = state
         \/ state' = [state EXCEPT ![f].closed = TRUE, ![f].writer = FALSE]
    BY <1>24 DEF ReceiveFromPull, FinalClose
  <2>1. state' \in [Files -> Sharing]
    BY <2>s, <1>state, SharingKept, <1>24
  <2>2. pulls' \in [Files -> [Blocks -> {"none", "request", "out"}]]
    BY <1>24, <1>pulls DEF ReceiveFromPull, FinalClose
  <2>3. queue' \in Places
    BY <1>24, <1>queue, <2>q, IsDone DEF ReceiveFromPull, FinalClose, Places
  <2>4. finisher' \in Finishing
    BY <1>24, <1>finisher DEF ReceiveFromPull, FinalClose, Finishing
  <2> QED
    BY <1>24, <1>t, <2>1, <2>2, <2>3, <2>4 DEF ReceiveFromPull, FinalClose, Shape
<1>25. CASE Finish
  <2>o. finisher.file \in Files
    BY <1>25 DEF Finish, IInv, Owners, Idle
  <2>1. disk' \in [Items -> {"old", "new", "torn"}]
    BY <1>25, <1>disk, <2>o, <1>items DEF Finish
  <2>v. \/ temp' = temp
         \/ \E e \in BOOLEAN, g \in {{}, Zeros} :
              temp' = [temp EXCEPT ![finisher.file] = [exists |-> e, good |-> g]]
    BY <1>25 DEF Finish
  <2>2. temp' \in [Files -> Temporary]
    BY <2>v, <1>temp, <2>o, TemporaryKept
  <2>3. finisher' \in Finishing
    BY <1>25, <1>finisher DEF Finish, Finishing, IdleFinisher
  <2> QED
    BY <1>25, <1>t, <2>1, <2>2, <2>3 DEF Finish, Shape
<1>26. CASE FinishRecord
  <2>o. finisher.file \in Files
    BY <1>26 DEF FinishRecord, IInv, Owners, Idle
  <2>1. updater' \in Updating
    BY <1>26, <1>updater, <2>o, <1>items DEF FinishRecord, Updating, Record
  <2>2. finisher' \in Finishing
    BY <1>26, <1>finisher DEF FinishRecord, Finishing, IdleFinisher
  <2> QED
    BY <1>26, <1>t, <2>1, <2>2 DEF FinishRecord, Shape
<1>27. CASE Flush
  <2>1. updater' \in Updating
    BY <1>27, <1>updater DEF Flush, Updating
  <2> QED
    BY <1>27, <1>t, <2>1 DEF Flush, Shape, Updating
<1>28. CASE Stop
  BY <1>28, <1>t DEF Stop, Shape
<1>29. ASSUME NEW f \in Files, MoveToFront(f) PROVE Shape'
  <2>q. Distinct(queue.queued) /\ Distinct(queue.progress)
    BY DEF IInv, Queues
  <2>1. queue' \in Places
    BY <1>29, <1>queue, <2>q, ToTheFront DEF MoveToFront, Places
  <2> QED
    BY <1>29, <1>t, <2>1 DEF MoveToFront, Shape
<1>30. CASE UNCHANGED vars
  BY <1>30, <1>t DEF vars, Shape
<1> QED
  BY <1>1, <1>2, <1>3, <1>4, <1>5, <1>6, <1>7, <1>8, <1>9, <1>10, <1>11, <1>12, <1>13,
     <1>14, <1>15, <1>16, <1>17, <1>18, <1>19, <1>20, <1>21, <1>22, <1>23, <1>24, <1>25,
     <1>26, <1>27, <1>28, <1>29, <1>30 DEF Next, Main, Copy, Pull, PullOne

\* Which routines run follows the main one.
LEMMA PhasesStep == ASSUME Settings, IInv, Shape', [Next]_vars PROVE Phases'
<1>t. Shape /\ Shape'
  BY DEF IInv
<1>p. Phases
  BY DEF IInv
<1> USE DEF Phases, Idle, NoPulls
<1>1. CASE BeginIteration
  BY <1>1, <1>t, <1>p DEF BeginIteration, IdleCopier, IdlePuller, IdleFinisher, Unused, Shape, Handling, Pulling, Finishing, Updating
<1>2. CASE ProcessQueue
  BY <1>2, <1>t, <1>p DEF ProcessQueue, Shape, Handling, Pulling, Finishing, Updating
<1>3. CASE PopFile
  BY <1>3, <1>t, <1>p DEF PopFile, Shape, Handling, Pulling, Finishing, Updating
<1>4. CASE GiveUpFile
  BY <1>4, <1>t, <1>p DEF GiveUpFile, Shape, Handling, Pulling, Finishing, Updating
<1>5. CASE CloseCopyChan
  BY <1>5, <1>t, <1>p DEF CloseCopyChan, Shape, Handling, Pulling, Finishing, Updating
<1>6. CASE ClosePullChan
  BY <1>6, <1>t, <1>p DEF ClosePullChan, CopiersDone, IdleCopier, Shape, Handling, Pulling, Finishing, Updating
<1>7. CASE CloseFinisherChan
  <2>1. NoPulls
    <3>1. \A f \in Files, b \in Blocks : <<f, b>> \notin Running
      BY <1>7 DEF CloseFinisherChan, PullsDone
    <3> QED
      BY <3>1 DEF Running
  <2> QED
    BY <1>7, <1>t, <1>p, <2>1 DEF CloseFinisherChan, PullsDone, IdlePuller, Shape
<1>8. CASE FinisherDone
  BY <1>8, <1>t, <1>p DEF FinisherDone, IdleFinisher, Shape, Handling, Pulling, Finishing, Updating
<1>9. CASE EndIteration
  BY <1>9, <1>t, <1>p DEF EndIteration, Shape, Handling, Pulling, Finishing, Updating
<1>10. ASSUME NEW f \in Files, NeedFile(f) PROVE Phases'
  BY <1>10, <1>t, <1>p DEF NeedFile, Shape, Handling, Pulling, Finishing, Updating
<1>11. ASSUME NEW i \in Shortcuts, NeedShortcut(i) PROVE Phases'
  BY <1>11, <1>t, <1>p DEF NeedShortcut, Record, Shape, Handling, Pulling, Finishing, Updating
<1>12. ASSUME NEW i \in Deletions, DeleteFile(i) PROVE Phases'
  BY <1>12, <1>t, <1>p DEF DeleteFile, Record, Shape, Handling, Pulling, Finishing, Updating
<1>13. ASSUME NEW i \in Deletions, RenameFile(i) PROVE Phases'
  BY <1>13, <1>t, <1>p DEF RenameFile, Shape, Handling, Pulling, Finishing, Updating
<1>14. ASSUME NEW x \in Copiers, HandleFile(x) PROVE Phases'
  BY <1>14, <1>t, <1>p DEF HandleFile, Shape, Handling, Pulling, Finishing, Updating
<1>15. ASSUME NEW x \in Copiers, StartCopy(x) PROVE Phases'
  BY <1>15, <1>t, <1>p DEF StartCopy, OpenTemp, OpenShortTemp, OpenFails, Fail, Shape, Handling, Pulling, Finishing, Updating
<1>16. ASSUME NEW x \in Copiers, CopyBlock(x) PROVE Phases'
  <2>1. /\ copier[x].at = "blocks" /\ main' = main /\ puller' = puller /\ finisher' = finisher
        /\ pulls' = pulls /\ queue' = queue /\ updater' = updater /\ pending' = pending
        /\ main # "need"
    BY <1>16, <1>p DEF CopyBlock
  <2>2. /\ \A c \in Copiers \ {x} : copier'[c] = copier[c]
        /\ copier'[x].at \in {"blocks", "out"}
    BY <1>16, <1>t DEF CopyBlock, Shape, Handling
  <2> QED
    BY <1>t, <1>p, <2>1, <2>2 DEF Shape
<1>17. ASSUME NEW x \in Copiers, BeginPull(x) PROVE Phases'
  BY <1>17, <1>t, <1>p DEF BeginPull, PullStarted, Shape, Handling, Pulling, Finishing, Updating
<1>18. ASSUME NEW x \in Copiers, SendPull(x) PROVE Phases'
  BY <1>18, <1>t, <1>p DEF SendPull, Shape, Handling, Pulling, Finishing, Updating
<1>19. ASSUME NEW x \in Copiers, CopierDone(x) PROVE Phases'
  BY <1>19, <1>t, <1>p DEF CopierDone, Shape, Handling, Pulling, Finishing, Updating
<1>20. ASSUME NEW x \in Copiers, ReceiveFromCopier(x) PROVE Phases'
  BY <1>20, <1>t, <1>p DEF ReceiveFromCopier, FinalClose, IdleCopier, Shape, Handling, Pulling, Finishing, Updating
<1>21. CASE StartPull
  BY <1>21, <1>t, <1>p DEF StartPull, IdlePuller, Fail, Shape, Handling, Pulling, Finishing, Updating
<1>22. CASE ReceiveFromPuller
  BY <1>22, <1>t, <1>p DEF ReceiveFromPuller, FinalClose, IdlePuller, Shape, Handling, Pulling, Finishing, Updating
<1>23. ASSUME NEW f \in Files, NEW b \in Blocks, PullBlock(f, b) PROVE Phases'
  BY <1>23, <1>t, <1>p DEF PullBlock, PullFailed, Fail, Shape, Handling, Pulling, Finishing, Updating
<1>24. ASSUME NEW f \in Files, NEW b \in Blocks, ReceiveFromPull(f, b) PROVE Phases'
  BY <1>24, <1>t, <1>p DEF ReceiveFromPull, FinalClose, Shape, Handling, Pulling, Finishing, Updating
<1>25. CASE Finish
  BY <1>25, <1>t, <1>p DEF Finish, IdleFinisher, Shape, Handling, Pulling, Finishing, Updating
<1>26. CASE FinishRecord
  BY <1>26, <1>t, <1>p DEF FinishRecord, IdleFinisher, Record, Shape, Handling, Pulling, Finishing, Updating
<1>27. CASE Flush
  BY <1>27, <1>t, <1>p DEF Flush, Shape, Handling, Pulling, Finishing, Updating
<1>28. CASE Stop
  BY <1>28, <1>t, <1>p DEF Stop, Shape, Handling, Pulling, Finishing, Updating
<1>29. ASSUME NEW f \in Files, MoveToFront(f) PROVE Phases'
  <2>1. main # "idle"
    BY <1>29, <1>p DEF MoveToFront, BringToFront, Empty, Listed
  <2> QED
    BY <1>29, <1>p, <2>1 DEF MoveToFront
<1>30. CASE UNCHANGED vars
  BY <1>30, <1>t, <1>p DEF vars, Shape, Handling, Pulling, Finishing, Updating
<1> QED
  BY <1>1, <1>2, <1>3, <1>4, <1>5, <1>6, <1>7, <1>8, <1>9, <1>10, <1>11, <1>12, <1>13,
     <1>14, <1>15, <1>16, <1>17, <1>18, <1>19, <1>20, <1>21, <1>22, <1>23, <1>24, <1>25,
     <1>26, <1>27, <1>28, <1>29, <1>30 DEF Next, Main, Copy, Pull, PullOne

\* The counters of a file without an error come to zero when nothing of it is left to do.
LEMMA NothingLeft ==
  ASSUME Settings, IInv, NEW f \in Files, state[f].on, ~state[f].err,
         state[f].pullNeeded + state[f].copyNeeded = 0 \/ state[f].closed
  PROVE  /\ \A c \in Copiers : copier[c].file = f => copier[c].todo = {} /\ copier[c].at # "pull"
         /\ puller.file # f
         /\ Asked(f) = {}
         /\ state[f].copyNeeded = 0 /\ state[f].pullNeeded = 0
<1>1. \A c \in Copiers : copier[c].todo \in SUBSET Blocks
  BY DEF IInv, Shape, Handling
<1>2. Asked(f) \in SUBSET Blocks
  BY DEF Asked
<1>3. /\ Cardinality(Asked(f)) \in Nat /\ (Cardinality(Asked(f)) = 0 => Asked(f) = {})
      /\ \A c \in Copiers : /\ Cardinality(copier[c].todo) \in Nat
                            /\ Cardinality(copier[c].todo) = 0 <=> copier[c].todo = {}
  BY <1>1, <1>2, Counted
<1>4. \A c \in Copiers : copier[c].file = f /\ copier[c].at = "pull" => copier[c].todo # {}
  BY DEF IInv, Owners, Idle
<1>5. state[f].pullNeeded = Cardinality(Asked(f)) + (IF puller.file = f THEN 1 ELSE 0)
                            + (IF Waiting(f) THEN 1 ELSE 0)
  BY DEF IInv, Counts, CountsOf
<1>6. \A c \in Copiers : copier[c].file = f =>
        state[f].copyNeeded = Cardinality(copier[c].todo)
                              - (IF copier[c].at = "pull" THEN 1 ELSE 0)
  BY DEF IInv, Counts, CountsOf
<1>7. state[f].copyNeeded \in Nat /\ state[f].pullNeeded \in Nat
  <2>1. CASE Copied(f)
    BY <1>3, <1>5, <2>1 DEF IInv, Counts, CountsOf
  <2>2. CASE ~Copied(f)
    <3>1. PICK c \in Copiers : copier[c].file = f
      BY <2>2 DEF Copied
    <3> QED
      BY <1>3, <1>4, <1>5, <1>6, <3>1
  <2> QED
    BY <2>1, <2>2
<1>8. state[f].copyNeeded = 0 /\ state[f].pullNeeded = 0
  <2>1. CASE state[f].closed
    BY <2>1 DEF IInv, Counts, CountsOf
  <2> QED
    BY <1>7, <2>1
<1>9. ~Waiting(f) /\ puller.file # f /\ Asked(f) = {}
  BY <1>3, <1>5, <1>8
<1> QED
  BY <1>3, <1>6, <1>8, <1>9 DEF Waiting

-----------------------------------------------------------------------------
(* What the steps do to the file that they are with *)

\* All but the work that is left is as it was with a file.
SameFile(f) ==
  /\ state'[f].on = state[f].on /\ state'[f].closed = state[f].closed
  /\ state'[f].reused = state[f].reused
OthersSame(f) == \A g \in Files : g # f => state'[g] = state[g]
SameCounts(f) ==
  state'[f].copyNeeded = state[f].copyNeeded /\ state'[f].pullNeeded = state[f].pullNeeded

\* handleFile begins a state for the file, and hands it to the copier.
LEMMA HandleDoes ==
  ASSUME Settings, IInv, NEW x \in Copiers, HandleFile(x)
  PROVE  /\ Popped \in Files /\ ~state[Popped].on
         /\ main = "file" /\ main' = "queue" /\ Idle(copier[x])
         /\ OthersSame(Popped)
         /\ state'[Popped].on /\ ~state'[Popped].err /\ ~state'[Popped].closed
         /\ ~state'[Popped].writer /\ state'[Popped].pullNeeded = 0
         /\ state'[Popped].copyNeeded = Cardinality(Blocks \ Reused(Popped))
         /\ state'[Popped].reused = (Reused(Popped) # {})
         /\ \A c \in Copiers : c # x => copier'[c] = copier[c]
         /\ copier'[x] = [at |-> "start", file |-> Popped, todo |-> Blocks \ Reused(Popped)]
<1>1. Popped \in Files /\ ~state[Popped].on
  BY DEF HandleFile, IInv, Queues, Popped, Shape, Places
<1>2. state \in [Files -> Sharing] /\ copier \in [Copiers -> Handling]
  BY DEF IInv, Shape
<1>3. state' = [state EXCEPT ![Popped] =
              [Unused EXCEPT !.on = TRUE, !.copyNeeded = Cardinality(Blocks \ Reused(Popped)),
                             !.reused = (Reused(Popped) # {})]]
  BY DEF HandleFile
<1>4. OthersSame(Popped) /\ state'[Popped] =
              [Unused EXCEPT !.on = TRUE, !.copyNeeded = Cardinality(Blocks \ Reused(Popped)),
                             !.reused = (Reused(Popped) # {})]
  BY <1>1, <1>2, <1>3 DEF OthersSame
<1>5. /\ state'[Popped].on /\ ~state'[Popped].err /\ ~state'[Popped].closed
      /\ ~state'[Popped].writer /\ state'[Popped].pullNeeded = 0
      /\ state'[Popped].copyNeeded = Cardinality(Blocks \ Reused(Popped))
      /\ state'[Popped].reused = (Reused(Popped) # {})
  BY <1>4 DEF Unused
<1>6. /\ main = "file" /\ main' = "queue" /\ Idle(copier[x])
      /\ \A c \in Copiers : c # x => copier'[c] = copier[c]
      /\ copier'[x] = [at |-> "start", file |-> Popped, todo |-> Blocks \ Reused(Popped)]
  BY <1>2 DEF HandleFile, Idle
<1> QED
  BY <1>1, <1>4, <1>5, <1>6

\* The copier opens the temporary file, or the file has failed.
LEMMA StartDoes ==
  ASSUME Settings, IInv, NEW x \in Copiers, StartCopy(x)
  PROVE  LET f == copier[x].file IN
         /\ f \in Files /\ OthersSame(f) /\ SameFile(f) /\ SameCounts(f)
         /\ \A c \in Copiers : c # x => copier'[c] = copier[c]
         /\ copier[x].at = "start"
         /\ copier'[x].file = f /\ copier'[x].todo = copier[x].todo
         /\ \A g \in Files : g # f => temp'[g] = temp[g]
         /\ \/ /\ copier'[x].at = "blocks" /\ state'[f].err = state[f].err /\ state'[f].writer
               /\ ~TruncateFails /\ state[f].reused => temp'[f] = temp[f]
               /\ ~TruncateFails /\ ~state[f].reused => temp'[f].good = Zeros
            \/ /\ copier'[x].at = "out" /\ state'[f].err /\ state'[f].writer = state[f].writer
<1> DEFINE f == copier[x].file
<1>1. f \in Files
  BY DEF StartCopy, IInv, Owners, Idle
<1>2. state \in [Files -> Sharing] /\ copier \in [Copiers -> Handling] /\ temp \in [Files -> Temporary]
  BY DEF IInv, Shape
<1>3. CASE copier' = [copier EXCEPT ![x].at = "blocks"] /\ state' = [state EXCEPT ![f].writer = TRUE]
  <2>1. \/ temp' = temp /\ state[f].reused
        \/ ~state[f].reused /\ temp' = [temp EXCEPT ![f] = [exists |-> TRUE, good |-> Zeros]]
        \/ TruncateFails /\ temp' = [temp EXCEPT ![f] = [exists |-> TRUE, good |-> {}]]
    BY <1>2, <1>3 DEF StartCopy, OpenTemp, OpenShortTemp, OpenFails, Handling
  <2>2. OthersSame(f) /\ SameFile(f) /\ SameCounts(f) /\ state'[f].err = state[f].err /\ state'[f].writer
    BY <1>1, <1>2, <1>3 DEF Sharing, OthersSame, SameFile, SameCounts
  <2>3. /\ \A g \in Files : g # f => temp'[g] = temp[g]
        /\ ~TruncateFails /\ state[f].reused => temp'[f] = temp[f]
        /\ ~TruncateFails /\ ~state[f].reused => temp'[f].good = Zeros
    BY <1>1, <1>2, <2>1 DEF Temporary
  <2> QED
    BY <1>1, <1>2, <1>3, <2>2, <2>3 DEF Handling, StartCopy
<1>4. CASE copier' = [copier EXCEPT ![x].at = "out"] /\ state' = [state EXCEPT ![f].err = TRUE]
  <2>1. \A g \in Files : g # f => temp'[g] = temp[g]
    BY <1>1, <1>2 DEF StartCopy, OpenTemp, OpenShortTemp, OpenFails, Temporary
  <2>2. OthersSame(f) /\ SameFile(f) /\ SameCounts(f) /\ state'[f].err /\ state'[f].writer = state[f].writer
    BY <1>1, <1>2, <1>4 DEF Sharing, OthersSame, SameFile, SameCounts
  <2> QED
    BY <1>1, <1>2, <1>4, <2>1, <2>2 DEF Handling, StartCopy
<1> QED
  BY <1>3, <1>4 DEF StartCopy, OpenTemp, OpenShortTemp, OpenFails, Fail

\* The copier has one block less to do, or the file has failed.
LEMMA CopyDoes ==
  ASSUME Settings, IInv, NEW x \in Copiers, CopyBlock(x)
  PROVE  LET f == copier[x].file
             b == NextBlock(x)
         IN
         /\ f \in Files /\ OthersSame(f) /\ SameFile(f) /\ b \in copier[x].todo
         /\ state'[f].writer = state[f].writer /\ state'[f].pullNeeded = state[f].pullNeeded
         /\ \A c \in Copiers : c # x => copier'[c] = copier[c]
         /\ copier[x].at = "blocks"
         /\ copier'[x].file = f
         /\ \A g \in Files : g # f => temp'[g] = temp[g]
         /\ temp[f].good \subseteq temp'[f].good
         /\ temp'[f].good # temp[f].good => ~state[f].closed
         /\ \/ /\ copier'[x].at = "blocks" /\ copier'[x].todo = copier[x].todo \ {b}
               /\ state'[f].err = state[f].err
               /\ state'[f].copyNeeded = state[f].copyNeeded - 1
               /\ b \in temp'[f].good \/ (b \in Zeros /\ ~state[f].reused)
            \/ /\ copier'[x].at = "out" /\ copier'[x].todo = copier[x].todo
               /\ state'[f].err
<1> DEFINE f == copier[x].file
           b == NextBlock(x)
<1>1. f \in Files
  BY DEF CopyBlock, IInv, Owners, Idle
<1>2. state \in [Files -> Sharing] /\ copier \in [Copiers -> Handling] /\ temp \in [Files -> Temporary]
  BY DEF IInv, Shape
<1>3. b \in copier[x].todo
  BY HasNext DEF CopyBlock, IInv
<1>4. \/ temp' = temp
      \/ ~state[f].closed /\ temp' = Written(f, b)
  BY DEF CopyBlock
<1>5. /\ \A g \in Files : g # f => temp'[g] = temp[g]
      /\ temp[f].good \subseteq temp'[f].good
      /\ temp'[f].good # temp[f].good => ~state[f].closed
      /\ temp' = Written(f, b) => b \in temp'[f].good
  BY <1>1, <1>2, <1>4 DEF Written, Temporary
<1>6. CASE /\ copier' = [copier EXCEPT ![x].todo = @ \ {b}]
           /\ state' = [state EXCEPT ![f].copyNeeded = state[f].copyNeeded - 1]
  <2>1. temp' = Written(f, b) \/ (b \in Zeros /\ ~state[f].reused)
    <3>1. copier'[x].at = "blocks" /\ copier'[x] # [copier[x] EXCEPT !.at = "out"]
      BY <1>2, <1>6 DEF CopyBlock, Handling
    <3>2. copier' # [copier EXCEPT ![x].at = "out"]
      BY <1>2, <3>1
    <3>3. \/ copier' = [copier EXCEPT ![x].at = "out"]
          \/ temp' = Written(f, b)
          \/ b \in Zeros /\ ~state[f].reused
      BY DEF CopyBlock
    <3> QED
      BY <3>2, <3>3
  <2>2. /\ OthersSame(f) /\ SameFile(f) /\ state'[f].err = state[f].err
        /\ state'[f].writer = state[f].writer /\ state'[f].pullNeeded = state[f].pullNeeded
        /\ state'[f].copyNeeded = state[f].copyNeeded - 1
    BY <1>1, <1>2, <1>6 DEF Sharing, OthersSame, SameFile
  <2>3. /\ \A c \in Copiers : c # x => copier'[c] = copier[c]
        /\ copier[x].at = "blocks" /\ copier'[x].at = "blocks"
        /\ copier'[x].file = f /\ copier'[x].todo = copier[x].todo \ {b}
    BY <1>2, <1>6 DEF Handling, CopyBlock
  <2> HIDE DEF f, b
  <2> QED
    BY <1>1, <1>3, <1>5, <2>1, <2>2, <2>3 DEF f, b
<1>7. CASE /\ copier' = [copier EXCEPT ![x].at = "out"]
           /\ state' = [state EXCEPT ![f].err = TRUE]
  <2>2. /\ OthersSame(f) /\ SameFile(f) /\ state'[f].err
        /\ state'[f].writer = state[f].writer /\ state'[f].pullNeeded = state[f].pullNeeded
    BY <1>1, <1>2, <1>7 DEF Sharing, OthersSame, SameFile
  <2>3. /\ \A c \in Copiers : c # x => copier'[c] = copier[c]
        /\ copier[x].at = "blocks" /\ copier'[x].at = "out"
        /\ copier'[x].file = f /\ copier'[x].todo = copier[x].todo
    BY <1>2, <1>7 DEF Handling, CopyBlock
  <2> HIDE DEF f, b
  <2> QED
    BY <1>1, <1>3, <1>5, <2>2, <2>3 DEF f, b
<1> QED
  BY <1>6, <1>7 DEF CopyBlock, CopyFails, Fail

\* A block that was to be copied is to be pulled.
LEMMA BeginPullDoes ==
  ASSUME Settings, IInv, NEW x \in Copiers, BeginPull(x)
  PROVE  LET f == copier[x].file IN
         /\ f \in Files /\ OthersSame(f) /\ SameFile(f)
         /\ state'[f].writer = state[f].writer /\ state'[f].err = state[f].err /\ ~state[f].err
         /\ state'[f].copyNeeded = state[f].copyNeeded - 1
         /\ state'[f].pullNeeded = state[f].pullNeeded + 1
         /\ \A c \in Copiers : c # x => copier'[c] = copier[c]
         /\ copier[x].at = "blocks" /\ copier'[x].at = "pull"
         /\ copier'[x].file = f /\ copier'[x].todo = copier[x].todo /\ copier[x].todo # {}
<1> DEFINE f == copier[x].file
<1>1. f \in Files
  BY DEF BeginPull, IInv, Owners, Idle
<1>2. state \in [Files -> Sharing] /\ copier \in [Copiers -> Handling]
  BY DEF IInv, Shape
<1>3. state' = [state EXCEPT ![f] = PullStarted(state[f])] /\ ~state[f].err
  BY DEF BeginPull
<1>4. OthersSame(f) /\ state'[f] = PullStarted(state[f])
  BY <1>1, <1>2, <1>3 DEF OthersSame
<1>5. /\ SameFile(f)
      /\ state'[f].writer = state[f].writer /\ state'[f].err = state[f].err
      /\ state'[f].copyNeeded = state[f].copyNeeded - 1
      /\ state'[f].pullNeeded = state[f].pullNeeded + 1
  BY <1>1, <1>2, <1>4 DEF PullStarted, Sharing, SameFile
<1>6. /\ \A c \in Copiers : c # x => copier'[c] = copier[c]
      /\ copier[x].at = "blocks" /\ copier'[x].at = "pull"
      /\ copier'[x].file = f /\ copier'[x].todo = copier[x].todo /\ copier[x].todo # {}
  BY <1>2 DEF BeginPull, Handling
<1> QED
  BY <1>1, <1>3, <1>4, <1>5, <1>6

\* The block is with the puller and no more with the copier.
LEMMA SendDoes ==
  ASSUME Settings, IInv, NEW x \in Copiers, SendPull(x)
  PROVE  LET f == copier[x].file
             b == NextBlock(x)
         IN
         /\ f \in Files /\ b \in copier[x].todo
         /\ \A c \in Copiers : c # x => copier'[c] = copier[c]
         /\ copier[x].at = "pull" /\ copier'[x].at = "blocks"
         /\ copier'[x].file = f /\ copier'[x].todo = copier[x].todo \ {b}
         /\ puller.at = "idle" /\ puller' = [at |-> "take", file |-> f, block |-> b]
<1> DEFINE f == copier[x].file
<1>1. f \in Files /\ copier[x].todo # {}
  BY DEF SendPull, IInv, Owners, Idle
<1>2. copier \in [Copiers -> Handling] /\ Shape
  BY DEF IInv, Shape
<1>3. NextBlock(x) \in copier[x].todo
  BY <1>1, <1>2, HasNext
<1>4. /\ \A c \in Copiers : c # x => copier'[c] = copier[c]
      /\ copier[x].at = "pull" /\ copier'[x].at = "blocks"
      /\ copier'[x].file = f /\ copier'[x].todo = copier[x].todo \ {NextBlock(x)}
      /\ puller.at = "idle" /\ puller' = [at |-> "take", file |-> f, block |-> NextBlock(x)]
  BY <1>2 DEF SendPull, Handling
<1> QED
  BY <1>1, <1>3, <1>4

\* The block has a routine that asks for it, or the file has failed.
LEMMA StartPullDoes ==
  ASSUME Settings, IInv, StartPull
  PROVE  LET f == puller.file
             b == puller.block
         IN
         /\ f \in Files /\ b \in Blocks /\ OthersSame(f) /\ SameFile(f) /\ SameCounts(f)
         /\ state'[f].writer = state[f].writer /\ puller.at = "take"
         /\ \A g \in Files, d \in Blocks : g # f \/ d # b => pulls'[g][d] = pulls[g][d]
         /\ \/ /\ ~state[f].err /\ ~state'[f].err /\ pulls'[f][b] = "request"
               /\ puller' = IdlePuller
            \/ /\ state'[f].err /\ pulls' = pulls
               /\ puller'.at = "out" /\ puller'.file = f /\ puller'.block = b
<1> DEFINE f == puller.file
           b == puller.block
<1>1. f \in Files /\ b \in Blocks
  BY DEF StartPull, IInv, Owners, Idle
<1>2. /\ state \in [Files -> Sharing] /\ puller \in Pulling
      /\ pulls \in [Files -> [Blocks -> {"none", "request", "out"}]]
  BY DEF IInv, Shape
<1>3. CASE ~state[f].err /\ state' = state /\ puller' = IdlePuller /\ pulls' = [pulls EXCEPT ![f][b] = "request"]
  <2>1. OthersSame(f) /\ SameFile(f) /\ SameCounts(f) /\ state'[f].writer = state[f].writer
    BY <1>3 DEF OthersSame, SameFile, SameCounts
  <2>2. /\ \A g \in Files, d \in Blocks : g # f \/ d # b => pulls'[g][d] = pulls[g][d]
        /\ pulls'[f][b] = "request"
    BY <1>1, <1>2, <1>3
  <2> QED
    BY <1>1, <1>3, <2>1, <2>2 DEF StartPull
<1>4. CASE state' = [state EXCEPT ![f].err = TRUE] /\ puller' = [puller EXCEPT !.at = "out"] /\ pulls' = pulls
  <2>1. OthersSame(f) /\ SameFile(f) /\ SameCounts(f) /\ state'[f].writer = state[f].writer /\ state'[f].err
    BY <1>1, <1>2, <1>4 DEF OthersSame, SameFile, SameCounts, Sharing
  <2>2. puller'.at = "out" /\ puller'.file = f /\ puller'.block = b
    BY <1>2, <1>4 DEF Pulling
  <2> QED
    BY <1>1, <1>4, <2>1, <2>2 DEF StartPull
<1> QED
  BY <1>3, <1>4 DEF StartPull, Fail

\* The block is written, or the file has failed.
LEMMA PullBlockDoes ==
  ASSUME Settings, IInv, NEW f \in Files, NEW b \in Blocks, PullBlock(f, b)
  PROVE  /\ OthersSame(f) /\ SameFile(f)
         /\ state'[f].writer = state[f].writer /\ state'[f].copyNeeded = state[f].copyNeeded
         /\ \A g \in Files, d \in Blocks : g # f \/ d # b => pulls'[g][d] = pulls[g][d]
         /\ pulls[f][b] = "request" /\ pulls'[f][b] = "out"
         /\ \A g \in Files : g # f => temp'[g] = temp[g]
         /\ temp[f].good \subseteq temp'[f].good
         /\ \/ /\ state'[f].pullNeeded = state[f].pullNeeded - 1 /\ b \in temp'[f].good
               /\ state'[f].err = state[f].err /\ ~state[f].closed
            \/ state'[f].err /\ temp' = temp
<1>1. /\ state \in [Files -> Sharing] /\ temp \in [Files -> Temporary]
      /\ pulls \in [Files -> [Blocks -> {"none", "request", "out"}]]
  BY DEF IInv, Shape
<1>2. /\ \A g \in Files, d \in Blocks : g # f \/ d # b => pulls'[g][d] = pulls[g][d]
      /\ pulls[f][b] = "request" /\ pulls'[f][b] = "out"
  BY <1>1 DEF PullBlock
<1>3. CASE /\ state' = [state EXCEPT ![f].pullNeeded = state[f].pullNeeded - 1]
           /\ temp' = Written(f, b) /\ ~state[f].closed
  <2>1. /\ OthersSame(f) /\ SameFile(f) /\ state'[f].pullNeeded = state[f].pullNeeded - 1
        /\ state'[f].writer = state[f].writer /\ state'[f].copyNeeded = state[f].copyNeeded
        /\ state'[f].err = state[f].err
    BY <1>1, <1>3 DEF OthersSame, SameFile, Sharing
  <2>2. /\ \A g \in Files : g # f => temp'[g] = temp[g]
        /\ temp[f].good \subseteq temp'[f].good /\ b \in temp'[f].good
    BY <1>1, <1>3 DEF Written, Temporary
  <2> QED
    BY <1>2, <1>3, <2>1, <2>2
<1>4. CASE state' = [state EXCEPT ![f].err = TRUE] /\ temp' = temp
  <2>1. /\ OthersSame(f) /\ SameFile(f) /\ state'[f].err
        /\ state'[f].writer = state[f].writer /\ state'[f].copyNeeded = state[f].copyNeeded
    BY <1>1, <1>4 DEF OthersSame, SameFile, Sharing
  <2> QED
    BY <1>2, <1>4, <2>1
<1> QED
  BY <1>3, <1>4 DEF PullBlock, PullFailed, Fail

\* The first who finds nothing left to do, or an error, closes the file; the others leave
\* everything as it is.
Stays(f) ==
  /\ state[f].closed \/ ~MayClose(state[f])
  /\ state' = state /\ finisher' = finisher /\ queue' = queue
Closes(f) ==
  /\ OthersSame(f) /\ SameCounts(f) /\ MayClose(state[f])
  /\ state'[f].on = state[f].on /\ state'[f].err = state[f].err
  /\ state'[f].reused = state[f].reused
  /\ ~state[f].closed /\ state'[f].closed /\ ~state'[f].writer
  /\ queue' = Done(queue, f)
  /\ IF state[f].err THEN finisher' = finisher ELSE finisher' = [at |-> "finish", file |-> f]

\* Whoever comes to the finisher leaves everything as it is, or closes the file.
LEMMA CloseDoes ==
  ASSUME IInv, NEW f \in Files, FinalClose(f)
  PROVE  Stays(f) \/ Closes(f)
<1>1. state \in [Files -> Sharing]
  BY DEF IInv, Shape
<1>2. CASE /\ ~state[f].closed /\ MayClose(state[f]) /\ queue' = Done(queue, f)
           /\ state' = [state EXCEPT ![f].closed = TRUE, ![f].writer = FALSE]
  <2>1. /\ OthersSame(f) /\ SameCounts(f)
        /\ state'[f].on = state[f].on /\ state'[f].err = state[f].err
        /\ state'[f].reused = state[f].reused
        /\ state'[f].closed /\ ~state'[f].writer
    BY <1>1, <1>2 DEF OthersSame, SameCounts, Sharing
  <2>2. IF state[f].err THEN finisher' = finisher ELSE finisher' = [at |-> "finish", file |-> f]
    BY <1>2 DEF FinalClose
  <2> QED
    BY <1>2, <2>1, <2>2 DEF Closes
<1> QED
  BY <1>2 DEF FinalClose, Stays

\* Routines that are busy stay so with files that are on their way.
LEMMA OwnersStep == ASSUME Settings, IInv, Shape', Phases', [Next]_vars PROVE Owners'
<1>t. Shape /\ Shape'
  BY DEF IInv
<1>p. Phases /\ Phases'
  BY DEF IInv
<1>o. Owners
  BY DEF IInv
<1>f. ~Idle(finisher) => LET f == finisher.file IN
        /\ f \in Files /\ state[f].on /\ state[f].closed /\ ~state[f].err
        /\ \A c \in Copiers : copier[c].file = f => copier[c].todo = {} /\ copier[c].at # "pull"
        /\ \A c \in Copiers : copier[c].file = f => copier[c].at # "start"
        /\ puller.file # f
        /\ \A b \in Blocks : pulls[f][b] # "request"
  BY <1>o, NothingLeft DEF Owners, Asked, IInv, NotBegun, Begun
<1>n. NoFile \notin Files
  BY DEF Settings
<1>b. \A c \in Copiers : copier[c].at = "start" =>
        LET f == copier[c].file IN ~state[f].closed /\ ~state[f].err /\ ~state[f].writer
  BY <1>o DEF Owners, Idle, IInv, NotBegun, Begun
<1>c. copier \in [Copiers -> Handling] /\ pulls \in [Files -> [Blocks -> {"none", "request", "out"}]]
  BY <1>t DEF Shape
<1>d. \A c \in Copiers : copier[c].todo \subseteq Blocks
  BY <1>c DEF Handling
<1> USE DEF Owners, Idle
<1>1. CASE BeginIteration
  BY <1>1, <1>t, <1>p, <1>n DEF BeginIteration, IdleCopier, IdlePuller, IdleFinisher, Unused, Phases, Shape, NoPulls
<1>2. CASE ProcessQueue
  BY <1>2, <1>t, <1>p, <1>o, <1>f, <1>n DEF ProcessQueue, Shape, Handling, Pulling, Finishing, Sharing, Phases
<1>3. CASE PopFile
  BY <1>3, <1>t, <1>p, <1>o, <1>f, <1>n DEF PopFile, Shape, Handling, Pulling, Finishing, Sharing, Phases
<1>4. CASE GiveUpFile
  BY <1>4, <1>t, <1>p, <1>o, <1>f, <1>n DEF GiveUpFile, Shape, Handling, Pulling, Finishing, Sharing, Phases
<1>5. CASE CloseCopyChan
  BY <1>5, <1>t, <1>p, <1>o, <1>f, <1>n DEF CloseCopyChan, Shape, Handling, Pulling, Finishing, Sharing, Phases
<1>6. CASE ClosePullChan
  BY <1>6, <1>t, <1>p, <1>o, <1>f, <1>n DEF ClosePullChan, CopiersDone, IdleCopier, Shape, Handling, Pulling, Finishing, Sharing, Phases
<1>7. CASE CloseFinisherChan
  BY <1>7, <1>t, <1>p, <1>o, <1>f, <1>n DEF CloseFinisherChan, IdlePuller, Shape, Handling, Pulling, Finishing, Sharing, Phases
<1>8. CASE FinisherDone
  BY <1>8, <1>t, <1>p, <1>o, <1>f, <1>n DEF FinisherDone, IdleFinisher, Shape, Handling, Pulling, Finishing, Sharing, Phases
<1>9. CASE EndIteration
  BY <1>9, <1>t, <1>p, <1>o, <1>f, <1>n DEF EndIteration, Shape, Handling, Pulling, Finishing, Sharing, Phases
<1>10. ASSUME NEW f \in Files, NeedFile(f) PROVE Owners'
  BY <1>10, <1>t, <1>p, <1>o, <1>f, <1>n DEF NeedFile, Shape, Handling, Pulling, Finishing, Sharing, Phases
<1>11. ASSUME NEW i \in Shortcuts, NeedShortcut(i) PROVE Owners'
  BY <1>11, <1>t, <1>p, <1>o, <1>f, <1>n DEF NeedShortcut, Record, Shape, Handling, Pulling, Finishing, Sharing, Phases
<1>12. ASSUME NEW i \in Deletions, DeleteFile(i) PROVE Owners'
  BY <1>12, <1>t, <1>p, <1>o, <1>f, <1>n DEF DeleteFile, Record, Shape, Handling, Pulling, Finishing, Sharing, Phases
<1>13. ASSUME NEW i \in Deletions, RenameFile(i) PROVE Owners'
  BY <1>13, <1>t, <1>p, <1>o, <1>f, <1>n DEF RenameFile, Shape, Handling, Pulling, Finishing, Sharing, Phases
<1>14. ASSUME NEW x \in Copiers, HandleFile(x) PROVE Owners'
  <2>1. puller' = puller /\ pulls' = pulls /\ finisher' = finisher
    BY <1>14 DEF HandleFile
  <2>2. Popped \in Files /\ \A c \in Copiers : copier[c].file # Popped
    BY <1>14, <1>o, <1>n, HandleDoes
  <2> QED
    BY <1>14, <2>1, <2>2, <1>o, <1>f, <1>n, <1>b, HandleDoes DEF SameFile, OthersSame
<1>15. ASSUME NEW x \in Copiers, StartCopy(x) PROVE Owners'
  BY <1>15, <1>o, <1>f, <1>n, <1>b, StartDoes DEF SameFile, OthersSame, StartCopy
<1>16. ASSUME NEW x \in Copiers, CopyBlock(x) PROVE Owners'
  <2>1. copier[x].todo # {}
    BY <1>16 DEF CopyBlock
  <2>2. puller' = puller /\ pulls' = pulls /\ finisher' = finisher
    BY <1>16 DEF CopyBlock
  <2> QED
    BY <1>16, <2>1, <2>2, <1>o, <1>f, <1>n, <1>b, CopyDoes DEF SameFile, OthersSame
<1>17. ASSUME NEW x \in Copiers, BeginPull(x) PROVE Owners'
  <2>1. puller' = puller /\ pulls' = pulls /\ finisher' = finisher
    BY <1>17 DEF BeginPull
  <2> QED
    BY <1>17, <2>1, <1>o, <1>f, <1>n, <1>b, <1>d, BeginPullDoes DEF SameFile, OthersSame
<1>18. ASSUME NEW x \in Copiers, SendPull(x) PROVE Owners'
  <2>1. state' = state /\ pulls' = pulls /\ finisher' = finisher
    BY <1>18 DEF SendPull
  <2> QED
    BY <1>18, <2>1, <1>o, <1>f, <1>n, <1>b, <1>d, SendDoes DEF SameFile, OthersSame
<1>19. ASSUME NEW x \in Copiers, CopierDone(x) PROVE Owners'
  BY <1>19, <1>t, <1>p, <1>o, <1>f, <1>n DEF CopierDone, Shape, Handling, Pulling, Finishing, Sharing, Phases
<1>20. ASSUME NEW x \in Copiers, ReceiveFromCopier(x) PROVE Owners'
  <2>1. copier[x].file \in Files /\ Idle(finisher) /\ pulls' = pulls /\ puller' = puller
        /\ copier' = [copier EXCEPT ![x] = IdleCopier]
    BY <1>20, <1>t, <1>o DEF ReceiveFromCopier
  <2>2. Stays(copier[x].file) \/ Closes(copier[x].file)
    BY <1>20, <2>1, CloseDoes DEF ReceiveFromCopier
  <2>3. \A g \in Files : state'[g].on = state[g].on /\ (state[g].closed => state'[g].closed)
    BY <2>2 DEF Stays, Closes, OthersSame
  <2>4. \A g \in Files : state'[g].writer => state[g].writer /\ state'[g].closed = state[g].closed
    BY <2>2 DEF Stays, Closes, OthersSame
  <2>5. \/ finisher' = finisher
        \/ finisher' = [at |-> "finish", file |-> copier[x].file] /\ ~state'[copier[x].file].err /\ state'[copier[x].file].closed
    BY <2>2 DEF Stays, Closes
  <2> QED
    BY <2>1, <2>3, <2>4, <2>5, <1>o, <1>f, <1>n, <1>c DEF IdleCopier
<1>21. CASE StartPull
  <2>1. copier' = copier /\ finisher' = finisher
    BY <1>21 DEF StartPull
  <2> QED
    BY <1>21, <2>1, <1>o, <1>f, <1>n, <1>b, StartPullDoes DEF SameFile, OthersSame, IdlePuller
<1>22. CASE ReceiveFromPuller
  <2>1. puller.file \in Files /\ Idle(finisher) /\ pulls' = pulls /\ puller' = IdlePuller
        /\ copier' = copier
    BY <1>22, <1>t, <1>o DEF ReceiveFromPuller
  <2>2. Stays(puller.file) \/ Closes(puller.file)
    BY <1>22, <2>1, CloseDoes DEF ReceiveFromPuller
  <2>3. \A g \in Files : state'[g].on = state[g].on /\ (state[g].closed => state'[g].closed)
    BY <2>2 DEF Stays, Closes, OthersSame
  <2>4. \A g \in Files : state'[g].writer => state[g].writer /\ state'[g].closed = state[g].closed
    BY <2>2 DEF Stays, Closes, OthersSame
  <2>5. \/ finisher' = finisher
        \/ finisher' = [at |-> "finish", file |-> puller.file] /\ ~state'[puller.file].err /\ state'[puller.file].closed
    BY <2>2 DEF Stays, Closes
  <2> QED
    BY <2>1, <2>3, <2>4, <2>5, <1>o, <1>f, <1>n DEF IdlePuller
<1>23. ASSUME NEW f \in Files, NEW b \in Blocks, PullBlock(f, b) PROVE Owners'
  <2>1. copier' = copier /\ finisher' = finisher /\ puller' = puller
    BY <1>23 DEF PullBlock
  <2> QED
    BY <1>23, <2>1, <1>o, <1>f, <1>n, <1>b, PullBlockDoes DEF SameFile, OthersSame
<1>24. ASSUME NEW f \in Files, NEW b \in Blocks, ReceiveFromPull(f, b) PROVE Owners'
  <2>1. f \in Files /\ Idle(finisher) /\ puller' = puller /\ copier' = copier
        /\ pulls' = [pulls EXCEPT ![f][b] = "none"] /\ state[f].on
    BY <1>24, <1>t, <1>o DEF ReceiveFromPull
  <2>2. Stays(f) \/ Closes(f)
    BY <1>24, <2>1, CloseDoes DEF ReceiveFromPull
  <2>3. \A g \in Files : state'[g].on = state[g].on /\ (state[g].closed => state'[g].closed)
    BY <2>2 DEF Stays, Closes, OthersSame
  <2>4. \A g \in Files : state'[g].writer => state[g].writer /\ state'[g].closed = state[g].closed
    BY <2>2 DEF Stays, Closes, OthersSame
  <2>5. \/ finisher' = finisher
        \/ finisher' = [at |-> "finish", file |-> f] /\ ~state'[f].err /\ state'[f].closed
    BY <2>2 DEF Stays, Closes
  <2> QED
    BY <2>1, <2>3, <2>4, <2>5, <1>o, <1>f, <1>n, <1>c
<1>25. CASE Finish
  BY <1>25, <1>t, <1>p, <1>o, <1>f, <1>n DEF Finish, IdleFinisher, Shape, Handling, Pulling, Finishing, Sharing, Phases
<1>26. CASE FinishRecord
  BY <1>26, <1>t, <1>p, <1>o, <1>f, <1>n DEF FinishRecord, IdleFinisher, Record, Shape, Handling, Pulling, Finishing, Sharing, Phases
<1>27. CASE Flush
  BY <1>27, <1>t, <1>p, <1>o, <1>f, <1>n DEF Flush, Shape, Handling, Pulling, Finishing, Sharing, Phases
<1>28. CASE Stop
  BY <1>28, <1>t, <1>p, <1>o, <1>f, <1>n DEF Stop, Shape, Handling, Pulling, Finishing, Sharing, Phases
<1>29. ASSUME NEW f \in Files, MoveToFront(f) PROVE Owners'
  BY <1>29, <1>t, <1>p, <1>o, <1>f, <1>n DEF MoveToFront, Shape, Handling, Pulling, Finishing, Sharing, Phases
<1>30. CASE UNCHANGED vars
  BY <1>30, <1>t, <1>p, <1>o, <1>f, <1>n DEF vars, Shape, Handling, Pulling, Finishing, Sharing, Phases
<1> QED
  BY <1>1, <1>2, <1>3, <1>4, <1>5, <1>6, <1>7, <1>8, <1>9, <1>10, <1>11, <1>12, <1>13,
     <1>14, <1>15, <1>16, <1>17, <1>18, <1>19, <1>20, <1>21, <1>22, <1>23, <1>24, <1>25,
     <1>26, <1>27, <1>28, <1>29, <1>30 DEF Next, Main, Copy, Pull, PullOne

\* A file that its copier has not begun with stays with nobody else.
LEMMA NotBegunStep ==
  ASSUME Settings, IInv, Shape', Phases', Owners', [Next]_vars PROVE NotBegun'
<1>t. Shape /\ Shape'
  BY DEF IInv
<1>c. copier \in [Copiers -> Handling] /\ pulls \in [Files -> [Blocks -> {"none", "request", "out"}]]
  BY <1>t DEF Shape
<1>o. /\ \A c \in Copiers : IF Idle(copier[c]) THEN copier[c].file = NoFile
                            ELSE copier[c].file \in Files /\ state[copier[c].file].on
      /\ \A c, d \in Copiers : copier[c].file = copier[d].file => c = d \/ Idle(copier[c])
      /\ \A c \in Copiers : copier[c].at = "start" => ~Idle(copier[c])
      /\ IF Idle(puller) THEN puller.file = NoFile
         ELSE puller.file \in Files /\ state[puller.file].on /\ puller.block \in Blocks
      /\ \A f \in Files, b \in Blocks : pulls[f][b] # "none" => state[f].on
  BY DEF IInv, Owners, Idle
<1>n. NoFile \notin Files
  BY DEF Settings
<1>b. \A c \in Copiers : copier[c].at = "start" => LET f == copier[c].file IN
        /\ ~state[f].closed /\ ~state[f].err /\ ~state[f].writer
        /\ puller.file # f
        /\ \A b \in Blocks : pulls[f][b] = "none"
  BY <1>o DEF IInv, NotBegun, Begun
<1> DEFINE Fresh == \A c \in Copiers : copier'[c].at = "start" => LET f == copier'[c].file IN
        /\ ~state'[f].closed /\ ~state'[f].err /\ ~state'[f].writer
        /\ puller'.file # f
        /\ \A b \in Blocks : pulls'[f][b] = "none"
<1>z. Fresh => NotBegun'
  BY DEF NotBegun, Begun
<1>1. ASSUME BeginIteration PROVE Fresh
  BY <1>1 DEF BeginIteration, IdleCopier
<1>2. ASSUME ProcessQueue PROVE Fresh
  BY <1>2, <1>b DEF ProcessQueue
<1>3. ASSUME PopFile PROVE Fresh
  BY <1>3, <1>b DEF PopFile
<1>4. ASSUME GiveUpFile PROVE Fresh
  BY <1>4, <1>b DEF GiveUpFile
<1>5. ASSUME CloseCopyChan PROVE Fresh
  BY <1>5, <1>b DEF CloseCopyChan
<1>6. ASSUME ClosePullChan PROVE Fresh
  BY <1>6 DEF ClosePullChan, IdleCopier
<1>7. ASSUME CloseFinisherChan PROVE Fresh
  BY <1>7, <1>b, <1>n, <1>o DEF CloseFinisherChan, IdlePuller
<1>8. ASSUME FinisherDone PROVE Fresh
  BY <1>8, <1>b DEF FinisherDone
<1>9. ASSUME EndIteration PROVE Fresh
  BY <1>9, <1>b DEF EndIteration
<1>10. ASSUME NEW f \in Files, NeedFile(f) PROVE Fresh
  BY <1>10, <1>b DEF NeedFile
<1>11. ASSUME NEW i \in Shortcuts, NeedShortcut(i) PROVE Fresh
  BY <1>11, <1>b DEF NeedShortcut
<1>12. ASSUME NEW i \in Deletions, DeleteFile(i) PROVE Fresh
  BY <1>12, <1>b DEF DeleteFile
<1>13. ASSUME NEW i \in Deletions, RenameFile(i) PROVE Fresh
  BY <1>13, <1>b DEF RenameFile
<1>14. ASSUME NEW x \in Copiers, HandleFile(x) PROVE Fresh
  <2>1. puller' = puller /\ pulls' = pulls
    BY <1>14 DEF HandleFile
  <2>2. /\ Popped \in Files /\ \A c \in Copiers : copier[c].at = "start" => copier[c].file # Popped
        /\ puller.file # Popped /\ \A b \in Blocks : pulls[Popped][b] = "none"
    BY <1>14, <1>o, <1>n, HandleDoes
  <2> QED
    BY <1>14, <2>1, <2>2, <1>o, <1>n, <1>b, HandleDoes DEF OthersSame
<1>15. ASSUME NEW x \in Copiers, StartCopy(x) PROVE Fresh
  <2>1. puller' = puller /\ pulls' = pulls
    BY <1>15 DEF StartCopy
  <2>2. \A c \in Copiers \ {x} : copier[c].at = "start" => copier[c].file # copier[x].file
    BY <1>15, <1>o, StartDoes DEF Idle
  <2> QED
    BY <1>15, <2>1, <2>2, <1>o, <1>n, <1>b, StartDoes DEF SameFile, OthersSame
<1>16. ASSUME NEW x \in Copiers, CopyBlock(x) PROVE Fresh
  <2>1. puller' = puller /\ pulls' = pulls
    BY <1>16 DEF CopyBlock
  <2>2. \A c \in Copiers \ {x} : copier[c].at = "start" => copier[c].file # copier[x].file
    BY <1>16, <1>o, CopyDoes DEF Idle
  <2> QED
    BY <1>16, <2>1, <2>2, <1>o, <1>n, <1>b, CopyDoes DEF SameFile, OthersSame
<1>17. ASSUME NEW x \in Copiers, BeginPull(x) PROVE Fresh
  <2>1. puller' = puller /\ pulls' = pulls
    BY <1>17 DEF BeginPull
  <2>2. \A c \in Copiers \ {x} : copier[c].at = "start" => copier[c].file # copier[x].file
    BY <1>17, <1>o, BeginPullDoes DEF Idle
  <2> QED
    BY <1>17, <2>1, <2>2, <1>o, <1>n, <1>b, BeginPullDoes DEF SameFile, OthersSame
<1>18. ASSUME NEW x \in Copiers, SendPull(x) PROVE Fresh
  <2>1. state' = state /\ pulls' = pulls
    BY <1>18 DEF SendPull
  <2>2. \A c \in Copiers \ {x} : copier[c].at = "start" => copier[c].file # copier[x].file
    BY <1>18, <1>o, SendDoes DEF Idle
  <2> QED
    BY <1>18, <2>1, <2>2, <1>o, <1>n, <1>b, SendDoes DEF SameFile, OthersSame
<1>19. ASSUME NEW x \in Copiers, CopierDone(x) PROVE Fresh
  BY <1>19, <1>b, <1>c DEF CopierDone, Handling
<1>20. ASSUME NEW x \in Copiers, ReceiveFromCopier(x) PROVE Fresh
  <2>1. /\ copier[x].file \in Files /\ pulls' = pulls /\ puller' = puller
        /\ \A c \in Copiers : copier'[c].at = "start" =>
             copier'[c] = copier[c] /\ copier[c].file # copier[x].file
    BY <1>20, <1>c, <1>o, <1>b DEF ReceiveFromCopier, Idle, IdleCopier, Handling
  <2>2. Stays(copier[x].file) \/ Closes(copier[x].file)
    BY <1>20, <2>1, CloseDoes DEF ReceiveFromCopier
  <2> QED
    BY <2>1, <2>2, <1>o, <1>n, <1>b DEF Stays, Closes, OthersSame
<1>21. ASSUME StartPull PROVE Fresh
  <2>1. copier' = copier
    BY <1>21 DEF StartPull
  <2> QED
    BY <1>21, <2>1, <1>o, <1>n, <1>b, StartPullDoes DEF SameFile, OthersSame, IdlePuller
<1>22. ASSUME ReceiveFromPuller PROVE Fresh
  <2>1. /\ puller.file \in Files /\ pulls' = pulls /\ puller' = IdlePuller
        /\ \A c \in Copiers : copier'[c].at = "start" =>
             copier'[c] = copier[c] /\ copier[c].file # puller.file
    BY <1>22, <1>c, <1>o, <1>b DEF ReceiveFromPuller, Idle
  <2>2. Stays(puller.file) \/ Closes(puller.file)
    BY <1>22, <2>1, CloseDoes DEF ReceiveFromPuller
  <2> QED
    BY <2>1, <2>2, <1>o, <1>n, <1>b DEF Stays, Closes, OthersSame, IdlePuller
<1>23. ASSUME NEW f \in Files, NEW b \in Blocks, PullBlock(f, b) PROVE Fresh
  <2>1. copier' = copier /\ puller' = puller
    BY <1>23 DEF PullBlock
  <2> QED
    BY <1>23, <2>1, <1>o, <1>n, <1>b, PullBlockDoes DEF SameFile, OthersSame
<1>24. ASSUME NEW f \in Files, NEW b \in Blocks, ReceiveFromPull(f, b) PROVE Fresh
  <2>1. /\ f \in Files /\ puller' = puller
        /\ pulls' = [pulls EXCEPT ![f][b] = "none"]
        /\ \A c \in Copiers : copier'[c].at = "start" =>
             copier'[c] = copier[c] /\ copier[c].file # f
    BY <1>24, <1>c, <1>o, <1>b DEF ReceiveFromPull, Idle
  <2>2. Stays(f) \/ Closes(f)
    BY <1>24, <2>1, CloseDoes DEF ReceiveFromPull
  <2> QED
    BY <2>1, <2>2, <1>o, <1>n, <1>b, <1>c DEF Stays, Closes, OthersSame
<1>25. ASSUME Finish PROVE Fresh
  BY <1>25, <1>b DEF Finish
<1>26. ASSUME FinishRecord PROVE Fresh
  BY <1>26, <1>b DEF FinishRecord
<1>27. ASSUME Flush PROVE Fresh
  BY <1>27, <1>b DEF Flush
<1>28. ASSUME Stop PROVE Fresh
  BY <1>28, <1>b DEF Stop
<1>29. ASSUME NEW f \in Files, MoveToFront(f) PROVE Fresh
  BY <1>29, <1>b DEF MoveToFront
<1>30. ASSUME UNCHANGED vars PROVE Fresh
  BY <1>30, <1>b DEF vars
<1> QED
  BY <1>z, <1>1, <1>2, <1>3, <1>4, <1>5, <1>6, <1>7, <1>8, <1>9, <1>10, <1>11, <1>12, <1>13,
     <1>14, <1>15, <1>16, <1>17, <1>18, <1>19, <1>20, <1>21, <1>22, <1>23, <1>24, <1>25,
     <1>26, <1>27, <1>28, <1>29, <1>30 DEF Next, Main, Copy, Pull, PullOne

\* As long as something is left to do there is one who does it.
LEMMA SomeoneLeft ==
  ASSUME Settings, IInv, NEW f \in Files, state[f].on, ~state[f].err,
         state[f].pullNeeded + state[f].copyNeeded # 0
  PROVE  \/ \E c \in Copiers : copier[c].file = f /\ copier[c].at # "out"
         \/ puller.file = f /\ puller.at = "take"
         \/ \E b \in Blocks : pulls[f][b] = "request"
<1>1. SUFFICES ASSUME \A c \in Copiers : copier[c].file = f => copier[c].at = "out",
                      puller.file # f, \A b \in Blocks : pulls[f][b] # "request"
               PROVE  FALSE
  BY DEF IInv, Counts, CountsOf
<1>2. state[f].pullNeeded = Cardinality(Asked(f)) + (IF puller.file = f THEN 1 ELSE 0)
                            + (IF Waiting(f) THEN 1 ELSE 0)
  BY DEF IInv, Counts, CountsOf
<1>3. Asked(f) = {} /\ ~Waiting(f)
  BY <1>1 DEF Asked, Waiting
<1>4. state[f].pullNeeded = 0
  BY <1>1, <1>2, <1>3, FS_EmptySet
<1>5. state[f].copyNeeded = 0
  <2>1. CASE Copied(f)
    BY <2>1 DEF IInv, Counts, CountsOf
  <2>2. CASE ~Copied(f)
    <3>1. PICK c \in Copiers : copier[c].file = f
      BY <2>2 DEF Copied
    <3>2. copier[c].at = "out" /\ copier[c].todo = {}
      BY <1>1, <3>1 DEF IInv, Counts, CountsOf
    <3>3. state[f].copyNeeded = Cardinality(copier[c].todo)
                                - (IF copier[c].at = "pull" THEN 1 ELSE 0)
      BY <3>1 DEF IInv, Counts, CountsOf
    <3> QED
      BY <3>2, <3>3, FS_EmptySet
  <2> QED
    BY <2>1, <2>2
<1> QED
  BY <1>1, <1>4, <1>5

\* A file that is not closed stays with someone who brings it to the finisher.
LEMMA AliveStep ==
  ASSUME Settings, IInv, Shape', Phases', Owners', [Next]_vars PROVE Alive'
<1>t. Shape /\ Shape'
  BY DEF IInv
<1>c. copier \in [Copiers -> Handling] /\ pulls \in [Files -> [Blocks -> {"none", "request", "out"}]]
  BY <1>t DEF Shape
<1>o. /\ \A c \in Copiers : IF Idle(copier[c]) THEN copier[c].file = NoFile
                            ELSE copier[c].file \in Files /\ state[copier[c].file].on
      /\ \A c, d \in Copiers : copier[c].file = copier[d].file => c = d \/ Idle(copier[c])
      /\ IF Idle(puller) THEN puller.file = NoFile
         ELSE puller.file \in Files /\ state[puller.file].on /\ puller.block \in Blocks
  BY DEF IInv, Owners
<1>n. NoFile \notin Files
  BY DEF Settings
<1>a. \A f \in Files : state[f].on /\ ~state[f].closed =>
        \/ \E c \in Copiers : copier[c].file = f
        \/ puller.file = f
        \/ \E b \in Blocks : pulls[f][b] # "none"
  BY DEF IInv, Alive, Copied
<1> DEFINE Held == \A f \in Files : state'[f].on /\ ~state'[f].closed =>
        \/ \E c \in Copiers : copier'[c].file = f
        \/ puller'.file = f
        \/ \E b \in Blocks : pulls'[f][b] # "none"
<1>z. Held => Alive'
  BY DEF Alive, Copied
<1>1. ASSUME BeginIteration PROVE Held
  BY <1>1 DEF BeginIteration, Unused
<1>2. ASSUME ProcessQueue PROVE Held
  BY <1>2, <1>a DEF ProcessQueue
<1>3. ASSUME PopFile PROVE Held
  BY <1>3, <1>a DEF PopFile
<1>4. ASSUME GiveUpFile PROVE Held
  BY <1>4, <1>a DEF GiveUpFile
<1>5. ASSUME CloseCopyChan PROVE Held
  BY <1>5, <1>a DEF CloseCopyChan
<1>6. ASSUME ClosePullChan PROVE Held
  BY <1>6, <1>a, <1>n, <1>o DEF ClosePullChan, CopiersDone, Idle
<1>7. ASSUME CloseFinisherChan PROVE Held
  BY <1>7, <1>a, <1>n, <1>o DEF CloseFinisherChan, PullsDone, IdlePuller, Idle
<1>8. ASSUME FinisherDone PROVE Held
  BY <1>8, <1>a DEF FinisherDone
<1>9. ASSUME EndIteration PROVE Held
  BY <1>9, <1>a DEF EndIteration
<1>10. ASSUME NEW f \in Files, NeedFile(f) PROVE Held
  BY <1>10, <1>a DEF NeedFile
<1>11. ASSUME NEW i \in Shortcuts, NeedShortcut(i) PROVE Held
  BY <1>11, <1>a DEF NeedShortcut
<1>12. ASSUME NEW i \in Deletions, DeleteFile(i) PROVE Held
  BY <1>12, <1>a DEF DeleteFile
<1>13. ASSUME NEW i \in Deletions, RenameFile(i) PROVE Held
  BY <1>13, <1>a DEF RenameFile
<1>14. ASSUME NEW x \in Copiers, HandleFile(x) PROVE Held
  <2>1. puller' = puller /\ pulls' = pulls
    BY <1>14 DEF HandleFile
  <2>2. copier[x].file = NoFile
    BY <1>14, <1>o, HandleDoes
  <2> QED
    BY <1>14, <2>1, <2>2, <1>a, <1>n, HandleDoes DEF OthersSame
<1>15. ASSUME NEW x \in Copiers, StartCopy(x) PROVE Held
  <2>1. puller' = puller /\ pulls' = pulls
    BY <1>15 DEF StartCopy
  <2> QED
    BY <1>15, <2>1, <1>a, <1>n, StartDoes DEF SameFile, OthersSame
<1>16. ASSUME NEW x \in Copiers, CopyBlock(x) PROVE Held
  <2>1. puller' = puller /\ pulls' = pulls
    BY <1>16 DEF CopyBlock
  <2> QED
    BY <1>16, <2>1, <1>a, <1>n, CopyDoes DEF SameFile, OthersSame
<1>17. ASSUME NEW x \in Copiers, BeginPull(x) PROVE Held
  <2>1. puller' = puller /\ pulls' = pulls
    BY <1>17 DEF BeginPull
  <2> QED
    BY <1>17, <2>1, <1>a, <1>n, BeginPullDoes DEF SameFile, OthersSame
<1>18. ASSUME NEW x \in Copiers, SendPull(x) PROVE Held
  <2>1. state' = state /\ pulls' = pulls
    BY <1>18 DEF SendPull
  <2> QED
    BY <1>18, <2>1, <1>a, <1>n, <1>o, SendDoes DEF SameFile, OthersSame, Idle
<1>19. ASSUME NEW x \in Copiers, CopierDone(x) PROVE Held
  BY <1>19, <1>a, <1>c DEF CopierDone, Handling
<1>20. ASSUME NEW x \in Copiers, ReceiveFromCopier(x) PROVE Held
  <2>1. copier[x].file \in Files
    BY <1>20, <1>o DEF ReceiveFromCopier, Idle
  <2>2. Stays(copier[x].file) \/ Closes(copier[x].file)
    BY <1>20, <2>1, CloseDoes DEF ReceiveFromCopier
  <2>3. pulls' = pulls /\ puller' = puller /\ copier[x].at = "out"
        /\ \A c \in Copiers \ {x} : copier'[c] = copier[c]
    BY <1>20, <1>c, <1>o DEF ReceiveFromCopier, Handling
  <2>4. state[copier[x].file].on /\ ~state'[copier[x].file].closed =>
          \/ \E c \in Copiers : copier[c].file = copier[x].file /\ copier[c].at # "out"
          \/ puller.file = copier[x].file /\ puller.at = "take"
          \/ \E d \in Blocks : pulls[copier[x].file][d] = "request"
    BY <2>1, <2>2, SomeoneLeft DEF Stays, Closes, MayClose
  <2> QED
    BY <1>20, <2>1, <2>2, <2>3, <2>4, <1>a, <1>n DEF Stays, Closes, OthersSame, Idle
<1>21. ASSUME StartPull PROVE Held
  <2>1. copier' = copier
    BY <1>21 DEF StartPull
  <2>2. \A g \in Files, d \in Blocks : pulls[g][d] # "none" => pulls'[g][d] # "none"
    BY <1>21, StartPullDoes
  <2> QED
    BY <1>21, <2>1, <2>2, <1>a, <1>n, StartPullDoes DEF SameFile, OthersSame, IdlePuller
<1>22. ASSUME ReceiveFromPuller PROVE Held
  <2>1. puller.file \in Files
    BY <1>22, <1>o DEF ReceiveFromPuller, Idle
  <2>2. Stays(puller.file) \/ Closes(puller.file)
    BY <1>22, <2>1, CloseDoes DEF ReceiveFromPuller
  <2>3. pulls' = pulls /\ copier' = copier /\ puller.at = "out"
    BY <1>22, <1>c, <1>o DEF ReceiveFromPuller
  <2>4. state[puller.file].on /\ ~state'[puller.file].closed =>
          \/ \E c \in Copiers : copier[c].file = puller.file /\ copier[c].at # "out"
          \/ puller.file = puller.file /\ puller.at = "take"
          \/ \E d \in Blocks : pulls[puller.file][d] = "request"
    BY <2>1, <2>2, SomeoneLeft DEF Stays, Closes, MayClose
  <2> QED
    BY <1>22, <2>1, <2>2, <2>3, <2>4, <1>a, <1>n DEF Stays, Closes, OthersSame, Idle
<1>23. ASSUME NEW f \in Files, NEW b \in Blocks, PullBlock(f, b) PROVE Held
  <2>1. copier' = copier /\ puller' = puller
    BY <1>23 DEF PullBlock
  <2>2. \A g \in Files, d \in Blocks : pulls[g][d] # "none" => pulls'[g][d] # "none"
    BY <1>23, PullBlockDoes
  <2> QED
    BY <1>23, <2>1, <2>2, <1>a, <1>n, PullBlockDoes DEF SameFile, OthersSame
<1>24. ASSUME NEW f \in Files, NEW b \in Blocks, ReceiveFromPull(f, b) PROVE Held
  <2>1. f \in Files
    BY <1>24, <1>o DEF ReceiveFromPull, Idle
  <2>2. Stays(f) \/ Closes(f)
    BY <1>24, <2>1, CloseDoes DEF ReceiveFromPull
  <2>3. copier' = copier /\ puller' = puller /\ pulls[f][b] = "out"
        /\ \A g \in Files, d \in Blocks : g # f \/ d # b => pulls'[g][d] = pulls[g][d]
    BY <1>24, <1>c, <1>o DEF ReceiveFromPull
  <2>4. state[f].on /\ ~state'[f].closed =>
          \/ \E c \in Copiers : copier[c].file = f /\ copier[c].at # "out"
          \/ puller.file = f /\ puller.at = "take"
          \/ \E d \in Blocks : pulls[f][d] = "request"
    BY <2>1, <2>2, SomeoneLeft DEF Stays, Closes, MayClose
  <2> QED
    BY <1>24, <2>1, <2>2, <2>3, <2>4, <1>a, <1>n DEF Stays, Closes, OthersSame, Idle
<1>25. ASSUME Finish PROVE Held
  BY <1>25, <1>a DEF Finish
<1>26. ASSUME FinishRecord PROVE Held
  BY <1>26, <1>a DEF FinishRecord
<1>27. ASSUME Flush PROVE Held
  BY <1>27, <1>a DEF Flush
<1>28. ASSUME Stop PROVE Held
  BY <1>28, <1>a DEF Stop
<1>29. ASSUME NEW f \in Files, MoveToFront(f) PROVE Held
  BY <1>29, <1>a DEF MoveToFront
<1>30. ASSUME UNCHANGED vars PROVE Held
  BY <1>30, <1>a DEF vars
<1> QED
  BY <1>z, <1>1, <1>2, <1>3, <1>4, <1>5, <1>6, <1>7, <1>8, <1>9, <1>10, <1>11, <1>12, <1>13,
     <1>14, <1>15, <1>16, <1>17, <1>18, <1>19, <1>20, <1>21, <1>22, <1>23, <1>24, <1>25,
     <1>26, <1>27, <1>28, <1>29, <1>30 DEF Next, Main, Copy, Pull, PullOne

\* A file stays in one place, once: queued, in progress, or out of the queue.
LEMMA QueuesStep ==
  ASSUME Settings, IInv, Shape', Phases', Owners', [Next]_vars PROVE Queues'
<1>t. Shape /\ Shape'
  BY DEF IInv
<1>u. /\ queue \in Places /\ queue.queued \in Seq(Files) /\ queue.progress \in Seq(Files)
      /\ queue' \in Places /\ queue'.queued \in Seq(Files) /\ queue'.progress \in Seq(Files)
  BY <1>t DEF Shape, Places
<1>o. /\ \A c \in Copiers : ~Idle(copier[c]) => copier[c].file \in Files /\ state[copier[c].file].on
      /\ ~Idle(puller) => puller.file \in Files /\ state[puller.file].on
      /\ \A f \in Files, b \in Blocks : pulls[f][b] # "none" => state[f].on
  BY DEF IInv, Owners
<1>p. main \in {"idle", "need"} => Idle(puller) /\ NoPulls /\ \A c \in Copiers : Idle(copier[c])
  BY DEF IInv, Phases
<1>i. /\ main = "idle" => queue = Empty
      /\ main = "need" => \A f \in Files : ~state[f].on
  BY DEF IInv, Phases
<1>q. /\ Distinct(queue.queued) /\ Distinct(queue.progress)
      /\ \A f \in Files : Listed(queue.queued, f) =>
           /\ ~Listed(queue.progress, f) /\ ~state[f].on
           /\ main = "need" => f \notin pending
      /\ \A f \in Files : Listed(queue.progress, f) =>
           \/ state[f].on /\ ~state[f].closed
           \/ main = "file" /\ f = Popped
      /\ main = "file" => queue.progress # <<>> /\ ~state[Popped].on
  BY DEF IInv, Queues
<1>l. main = "file" => Popped \in Files /\ Listed(queue.progress, Popped)
  BY <1>q, <1>u DEF Popped, Listed
<1>e. Distinct(<<>>) /\ \A f : ~Listed(<<>>, f)
  BY DEF Distinct, Listed
<1>1. CASE BeginIteration
  <2>1. queue'.queued = <<>> /\ queue'.progress = <<>> /\ main' = "need"
    BY <1>1, <1>i DEF BeginIteration, Empty
  <2> QED
    BY <2>1, <1>e DEF Queues
<1>2. CASE ProcessQueue
  BY <1>2, <1>q DEF ProcessQueue, Queues, Popped
<1>3. CASE PopFile
  <2>1. /\ queue.queued # <<>> /\ queue'.queued = Tail(queue.queued)
        /\ queue'.progress = Append(queue.progress, Head(queue.queued))
        /\ main = "queue" /\ main' = "file" /\ state' = state
    BY <1>3, <1>u DEF PopFile, CanPop, Pop, Places
  <2> DEFINE h == Head(queue.queued)
  <2>2. /\ Distinct(queue'.queued) /\ h \in Files /\ Listed(queue.queued, h)
        /\ \A g : Listed(queue'.queued, g) <=> Listed(queue.queued, g) /\ g # h
    BY <1>u, <1>q, <2>1, Popping
  <2> HIDE DEF h
  <2>3. ~Listed(queue.progress, h) /\ ~state[h].on /\ queue'.progress = Append(queue.progress, h)
    BY <1>q, <2>1, <2>2 DEF h
  <2>4. /\ Distinct(queue'.progress) /\ queue'.progress # <<>> /\ Popped' = h
        /\ \A g : Listed(queue'.progress, g) <=> Listed(queue.progress, g) \/ g = h
    BY <1>u, <1>q, <2>2, <2>3, Pushed DEF Popped
  <2> QED
    BY <1>q, <2>1, <2>2, <2>3, <2>4 DEF Queues
<1>4. CASE GiveUpFile
  <2>1. /\ queue' = Done(queue, Popped) /\ main = "file" /\ main' = "queue"
        /\ state' = state
    BY <1>4 DEF GiveUpFile, Abandon
  <2>2. /\ queue'.queued = queue.queued /\ Distinct(queue'.progress)
        /\ \A g : Listed(queue'.progress, g) <=> Listed(queue.progress, g) /\ g # Popped
    BY <1>u, <1>q, <2>1, IsDone
  <2> QED
    BY <1>q, <2>1, <2>2 DEF Queues
<1>5. CASE CloseCopyChan
  BY <1>5, <1>q DEF CloseCopyChan, Queues, Popped
<1>6. CASE ClosePullChan
  BY <1>6, <1>q DEF ClosePullChan, Queues, Popped
<1>7. CASE CloseFinisherChan
  BY <1>7, <1>q DEF CloseFinisherChan, Queues, Popped
<1>8. CASE FinisherDone
  BY <1>8, <1>q DEF FinisherDone, Queues, Popped
<1>9. CASE EndIteration
  <2>1. queue'.queued = <<>> /\ queue'.progress = <<>> /\ main' = "idle"
    BY <1>9 DEF EndIteration, Empty
  <2> QED
    BY <2>1, <1>e DEF Queues
<1>10. ASSUME NEW f \in Files, NeedFile(f) PROVE Queues'
  <2>1. /\ queue'.queued = Append(queue.queued, f) /\ queue'.progress = queue.progress
        /\ main = "need" /\ main' = "need" /\ state' = state /\ f \in pending
        /\ pending' = pending \ {f}
    BY <1>10, <1>u DEF NeedFile, Push, Places
  <2>2. Distinct(queue.queued) /\ ~Listed(queue.queued, f)
    BY <1>q, <2>1
  <2>3. /\ Distinct(queue'.queued)
        /\ \A g : Listed(queue'.queued, g) <=> Listed(queue.queued, g) \/ g = f
    BY <1>u, <2>1, <2>2, Pushed
  <2>4. \A g \in Files : ~Listed(queue.progress, g) /\ ~state[g].on
    BY <1>q, <1>i, <2>1
  <2> QED
    BY <1>q, <2>1, <2>3, <2>4 DEF Queues
<1>11. ASSUME NEW i \in Shortcuts, NeedShortcut(i) PROVE Queues'
  BY <1>11, <1>q DEF NeedShortcut, Queues, Popped
<1>12. ASSUME NEW i \in Deletions, DeleteFile(i) PROVE Queues'
  BY <1>12, <1>q DEF DeleteFile, Queues, Popped
<1>13. ASSUME NEW i \in Deletions, RenameFile(i) PROVE Queues'
  <2>1. /\ queue' = Done(queue, Popped) /\ main = "file" /\ main' = "queue"
        /\ state' = state
    BY <1>13 DEF RenameFile
  <2>2. /\ queue'.queued = queue.queued /\ Distinct(queue'.progress)
        /\ \A g : Listed(queue'.progress, g) <=> Listed(queue.progress, g) /\ g # Popped
    BY <1>u, <1>q, <2>1, IsDone
  <2> QED
    BY <1>q, <2>1, <2>2 DEF Queues
<1>14. ASSUME NEW x \in Copiers, HandleFile(x) PROVE Queues'
  <2>1. queue' = queue
    BY <1>14 DEF HandleFile
  <2> QED
    BY <1>14, <2>1, <1>q, <1>l, HandleDoes DEF Queues, OthersSame
<1>15. ASSUME NEW x \in Copiers, StartCopy(x) PROVE Queues'
  <2>1. queue' = queue /\ main' = main /\ pending' = pending
    BY <1>15 DEF StartCopy
  <2>2. \A g \in Files : state'[g].on = state[g].on /\ state'[g].closed = state[g].closed
    BY <1>15, StartDoes DEF SameFile, OthersSame
  <2> QED
    BY <2>1, <2>2, <1>q, <1>l DEF Queues, Popped
<1>16. ASSUME NEW x \in Copiers, CopyBlock(x) PROVE Queues'
  <2>1. queue' = queue /\ main' = main /\ pending' = pending
    BY <1>16 DEF CopyBlock
  <2>2. \A g \in Files : state'[g].on = state[g].on /\ state'[g].closed = state[g].closed
    BY <1>16, CopyDoes DEF SameFile, OthersSame
  <2> QED
    BY <2>1, <2>2, <1>q, <1>l DEF Queues, Popped
<1>17. ASSUME NEW x \in Copiers, BeginPull(x) PROVE Queues'
  <2>1. queue' = queue /\ main' = main /\ pending' = pending
    BY <1>17 DEF BeginPull
  <2>2. \A g \in Files : state'[g].on = state[g].on /\ state'[g].closed = state[g].closed
    BY <1>17, BeginPullDoes DEF SameFile, OthersSame
  <2> QED
    BY <2>1, <2>2, <1>q, <1>l DEF Queues, Popped
<1>18. ASSUME NEW x \in Copiers, SendPull(x) PROVE Queues'
  BY <1>18, <1>q DEF SendPull, Queues, Popped
<1>19. ASSUME NEW x \in Copiers, CopierDone(x) PROVE Queues'
  BY <1>19, <1>q DEF CopierDone, Queues, Popped
<1>20. ASSUME NEW x \in Copiers, ReceiveFromCopier(x) PROVE Queues'
  <2>1. /\ copier[x].file \in Files /\ state[copier[x].file].on /\ main' = main /\ pending' = pending
        /\ main # "need"
    BY <1>20, <1>o, <1>p DEF ReceiveFromCopier, Idle, NoPulls
  <2>2. CASE Stays(copier[x].file)
    BY <1>q, <2>1, <2>2 DEF Stays, Queues, Popped
  <2>3. CASE Closes(copier[x].file)
    <3>1. queue' = Done(queue, copier[x].file) /\ (main = "file" => Popped # copier[x].file)
      BY <1>q, <2>1, <2>3 DEF Closes
    <3>2. /\ queue'.queued = queue.queued /\ Distinct(queue'.progress)
          /\ \A g : Listed(queue'.progress, g) <=> Listed(queue.progress, g) /\ g # copier[x].file
      BY <1>u, <1>q, <3>1, IsDone
    <3>3. main = "file" => queue'.progress # <<>> /\ Popped' = Popped
      BY <1>u, <1>q, <3>1, IsDone DEF Popped
    <3>4. \A g \in Files : /\ state'[g].on = state[g].on
                           /\ g # copier[x].file => state'[g].closed = state[g].closed
      BY <2>3 DEF Closes, OthersSame
    <3> QED
      BY <1>q, <1>l, <2>1, <3>2, <3>3, <3>4 DEF Queues
  <2> QED
    BY <1>20, <2>1, <2>2, <2>3, CloseDoes DEF ReceiveFromCopier
<1>21. CASE StartPull
  <2>1. queue' = queue /\ main' = main /\ pending' = pending
    BY <1>21 DEF StartPull
  <2>2. \A g \in Files : state'[g].on = state[g].on /\ state'[g].closed = state[g].closed
    BY <1>21, StartPullDoes DEF SameFile, OthersSame
  <2> QED
    BY <2>1, <2>2, <1>q, <1>l DEF Queues, Popped
<1>22. CASE ReceiveFromPuller
  <2>1. /\ puller.file \in Files /\ state[puller.file].on /\ main' = main /\ pending' = pending
        /\ main # "need"
    BY <1>22, <1>o, <1>p DEF ReceiveFromPuller, Idle, NoPulls
  <2>2. CASE Stays(puller.file)
    BY <1>q, <2>1, <2>2 DEF Stays, Queues, Popped
  <2>3. CASE Closes(puller.file)
    <3>1. queue' = Done(queue, puller.file) /\ (main = "file" => Popped # puller.file)
      BY <1>q, <2>1, <2>3 DEF Closes
    <3>2. /\ queue'.queued = queue.queued /\ Distinct(queue'.progress)
          /\ \A g : Listed(queue'.progress, g) <=> Listed(queue.progress, g) /\ g # puller.file
      BY <1>u, <1>q, <3>1, IsDone
    <3>3. main = "file" => queue'.progress # <<>> /\ Popped' = Popped
      BY <1>u, <1>q, <3>1, IsDone DEF Popped
    <3>4. \A g \in Files : /\ state'[g].on = state[g].on
                           /\ g # puller.file => state'[g].closed = state[g].closed
      BY <2>3 DEF Closes, OthersSame
    <3> QED
      BY <1>q, <1>l, <2>1, <3>2, <3>3, <3>4 DEF Queues
  <2> QED
    BY <1>22, <2>1, <2>2, <2>3, CloseDoes DEF ReceiveFromPuller
<1>23. ASSUME NEW f \in Files, NEW b \in Blocks, PullBlock(f, b) PROVE Queues'
  <2>1. queue' = queue /\ main' = main /\ pending' = pending
    BY <1>23 DEF PullBlock
  <2>2. \A g \in Files : state'[g].on = state[g].on /\ state'[g].closed = state[g].closed
    BY <1>23, PullBlockDoes DEF SameFile, OthersSame
  <2> QED
    BY <2>1, <2>2, <1>q, <1>l DEF Queues, Popped
<1>24. ASSUME NEW f \in Files, NEW b \in Blocks, ReceiveFromPull(f, b) PROVE Queues'
  <2>1. /\ f \in Files /\ state[f].on /\ main' = main /\ pending' = pending
        /\ main # "need"
    BY <1>24, <1>o, <1>p DEF ReceiveFromPull, Idle, NoPulls
  <2>2. CASE Stays(f)
    BY <1>q, <2>1, <2>2 DEF Stays, Queues, Popped
  <2>3. CASE Closes(f)
    <3>1. queue' = Done(queue, f) /\ (main = "file" => Popped # f)
      BY <1>q, <2>1, <2>3 DEF Closes
    <3>2. /\ queue'.queued = queue.queued /\ Distinct(queue'.progress)
          /\ \A g : Listed(queue'.progress, g) <=> Listed(queue.progress, g) /\ g # f
      BY <1>u, <1>q, <3>1, IsDone
    <3>3. main = "file" => queue'.progress # <<>> /\ Popped' = Popped
      BY <1>u, <1>q, <3>1, IsDone DEF Popped
    <3>4. \A g \in Files : /\ state'[g].on = state[g].on
                           /\ g # f => state'[g].closed = state[g].closed
      BY <2>3 DEF Closes, OthersSame
    <3> QED
      BY <1>q, <1>l, <2>1, <3>2, <3>3, <3>4 DEF Queues
  <2> QED
    BY <1>24, <2>1, <2>2, <2>3, CloseDoes DEF ReceiveFromPull
<1>25. CASE Finish
  BY <1>25, <1>q DEF Finish, Queues, Popped
<1>26. CASE FinishRecord
  BY <1>26, <1>q DEF FinishRecord, Queues, Popped
<1>27. CASE Flush
  BY <1>27, <1>q DEF Flush, Queues, Popped
<1>28. CASE Stop
  BY <1>28, <1>q DEF Stop, Queues, Popped
<1>29. ASSUME NEW f \in Files, MoveToFront(f) PROVE Queues'
  <2>1. queue' = BringToFront(queue, f) /\ state' = state /\ main' = main /\ pending' = pending
    BY <1>29 DEF MoveToFront
  <2>2. /\ queue'.progress = queue.progress /\ Distinct(queue'.queued)
        /\ \A g : Listed(queue'.queued, g) <=> Listed(queue.queued, g)
    BY <1>u, <1>q, <2>1, ToTheFront
  <2> QED
    BY <1>q, <2>1, <2>2 DEF Queues, Popped
<1>30. CASE UNCHANGED vars
  BY <1>30, <1>q DEF vars, Queues, Popped
<1> QED
  BY <1>1, <1>2, <1>3, <1>4, <1>5, <1>6, <1>7, <1>8, <1>9, <1>10, <1>11, <1>12, <1>13,
     <1>14, <1>15, <1>16, <1>17, <1>18, <1>19, <1>20, <1>21, <1>22, <1>23, <1>24, <1>25,
     <1>26, <1>27, <1>28, <1>29, <1>30 DEF Next, Main, Copy, Pull, PullOne

\* A block goes from one routine to the next.
LEMMA OnceStep ==
  ASSUME Settings, IInv, Shape', Phases', Owners', [Next]_vars PROVE Once'
<1>t. Shape /\ Shape'
  BY DEF IInv
<1>c. copier \in [Copiers -> Handling] /\ pulls \in [Files -> [Blocks -> {"none", "request", "out"}]]
  BY <1>t DEF Shape
<1>o. /\ \A c \in Copiers : IF Idle(copier[c]) THEN copier[c].file = NoFile /\ copier[c].todo = {}
                            ELSE copier[c].file \in Files /\ state[copier[c].file].on
      /\ \A c, d \in Copiers : copier[c].file = copier[d].file => c = d \/ Idle(copier[c])
      /\ IF Idle(puller) THEN puller.file = NoFile
         ELSE puller.file \in Files /\ state[puller.file].on /\ puller.block \in Blocks
      /\ \A f \in Files, b \in Blocks : pulls[f][b] # "none" => state[f].on
  BY DEF IInv, Owners
<1>n. NoFile \notin Files
  BY DEF Settings
<1>d. \A c \in Copiers : copier[c].todo \subseteq Blocks
  BY <1>c DEF Handling
<1>y. Once
  BY DEF IInv
<1>1. CASE BeginIteration
  BY <1>1 DEF BeginIteration, Once, Idle, IdleCopier, IdlePuller
<1>2. CASE ProcessQueue
  BY <1>2, <1>y DEF ProcessQueue, Once
<1>3. CASE PopFile
  BY <1>3, <1>y DEF PopFile, Once
<1>4. CASE GiveUpFile
  BY <1>4, <1>y DEF GiveUpFile, Once
<1>5. CASE CloseCopyChan
  BY <1>5, <1>y DEF CloseCopyChan, Once
<1>6. CASE ClosePullChan
  BY <1>6, <1>y DEF ClosePullChan, Once, IdleCopier
<1>7. CASE CloseFinisherChan
  BY <1>7, <1>y, <1>o, <1>n DEF CloseFinisherChan, Once, IdlePuller, Idle
<1>8. CASE FinisherDone
  BY <1>8, <1>y DEF FinisherDone, Once
<1>9. CASE EndIteration
  BY <1>9, <1>y DEF EndIteration, Once
<1>10. ASSUME NEW f \in Files, NeedFile(f) PROVE Once'
  BY <1>10, <1>y DEF NeedFile, Once
<1>11. ASSUME NEW i \in Shortcuts, NeedShortcut(i) PROVE Once'
  BY <1>11, <1>y DEF NeedShortcut, Once
<1>12. ASSUME NEW i \in Deletions, DeleteFile(i) PROVE Once'
  BY <1>12, <1>y DEF DeleteFile, Once
<1>13. ASSUME NEW i \in Deletions, RenameFile(i) PROVE Once'
  BY <1>13, <1>y DEF RenameFile, Once
<1>14. ASSUME NEW x \in Copiers, HandleFile(x) PROVE Once'
  <2>1. puller' = puller /\ pulls' = pulls
    BY <1>14 DEF HandleFile
  <2>2. puller.file # Popped /\ \A b \in Blocks : pulls[Popped][b] = "none"
    BY <1>14, <1>o, <1>n, HandleDoes
  <2> QED
    BY <1>14, <2>1, <2>2, <1>y, HandleDoes DEF Once
<1>15. ASSUME NEW x \in Copiers, StartCopy(x) PROVE Once'
  <2>1. puller' = puller /\ pulls' = pulls
    BY <1>15 DEF StartCopy
  <2> QED
    BY <1>15, <2>1, <1>y, StartDoes DEF Once
<1>16. ASSUME NEW x \in Copiers, CopyBlock(x) PROVE Once'
  <2>1. puller' = puller /\ pulls' = pulls
    BY <1>16 DEF CopyBlock
  <2> QED
    BY <1>16, <2>1, <1>y, CopyDoes DEF Once
<1>17. ASSUME NEW x \in Copiers, BeginPull(x) PROVE Once'
  <2>1. puller' = puller /\ pulls' = pulls
    BY <1>17 DEF BeginPull
  <2> QED
    BY <1>17, <2>1, <1>y, BeginPullDoes DEF Once
<1>18. ASSUME NEW x \in Copiers, SendPull(x) PROVE Once'
  <2>1. pulls' = pulls
    BY <1>18 DEF SendPull
  <2>2. \A c \in Copiers \ {x} : copier[c].todo # {} => copier[c].file # copier[x].file
    BY <1>18, <1>o, SendDoes DEF Idle
  <2> QED
    BY <1>18, <2>1, <2>2, <1>y, SendDoes DEF Once
<1>19. ASSUME NEW x \in Copiers, CopierDone(x) PROVE Once'
  BY <1>19, <1>c, <1>y DEF CopierDone, Once, Handling
<1>20. ASSUME NEW x \in Copiers, ReceiveFromCopier(x) PROVE Once'
  <2>1. pulls' = pulls /\ puller' = puller /\ copier' = [copier EXCEPT ![x] = IdleCopier]
    BY <1>20 DEF ReceiveFromCopier
  <2> QED
    BY <2>1, <1>c, <1>y DEF Once, IdleCopier
<1>21. CASE StartPull
  <2>1. copier' = copier /\ ~Idle(puller)
    BY <1>21 DEF StartPull, Idle
  <2> QED
    BY <1>21, <2>1, <1>d, <1>n, <1>o, <1>y, StartPullDoes DEF Once, Idle, IdlePuller
<1>22. CASE ReceiveFromPuller
  <2>1. pulls' = pulls /\ puller' = IdlePuller /\ copier' = copier
    BY <1>22 DEF ReceiveFromPuller
  <2>2. \A c \in Copiers : copier[c].todo # {} => copier[c].file # NoFile
    BY <1>o, <1>n
  <2> QED
    BY <2>1, <2>2, <1>y DEF Once, IdlePuller, Idle
<1>23. ASSUME NEW f \in Files, NEW b \in Blocks, PullBlock(f, b) PROVE Once'
  <2>1. copier' = copier /\ puller' = puller
    BY <1>23 DEF PullBlock
  <2> QED
    BY <1>23, <2>1, <1>d, <1>o, <1>y, PullBlockDoes DEF Once
<1>24. ASSUME NEW f \in Files, NEW b \in Blocks, ReceiveFromPull(f, b) PROVE Once'
  <2>1. copier' = copier /\ puller' = puller
        /\ \A g \in Files, d \in Blocks : pulls[g][d] = "none" => pulls'[g][d] = "none"
    BY <1>24, <1>c DEF ReceiveFromPull
  <2> QED
    BY <2>1, <1>d, <1>o, <1>y DEF Once
<1>25. CASE Finish
  BY <1>25, <1>y DEF Finish, Once
<1>26. CASE FinishRecord
  BY <1>26, <1>y DEF FinishRecord, Once
<1>27. CASE Flush
  BY <1>27, <1>y DEF Flush, Once
<1>28. CASE Stop
  BY <1>28, <1>y DEF Stop, Once
<1>29. ASSUME NEW f \in Files, MoveToFront(f) PROVE Once'
  BY <1>29, <1>y DEF MoveToFront, Once
<1>30. CASE UNCHANGED vars
  BY <1>30, <1>y DEF vars, Once
<1> QED
  BY <1>1, <1>2, <1>3, <1>4, <1>5, <1>6, <1>7, <1>8, <1>9, <1>10, <1>11, <1>12, <1>13,
     <1>14, <1>15, <1>16, <1>17, <1>18, <1>19, <1>20, <1>21, <1>22, <1>23, <1>24, <1>25,
     <1>26, <1>27, <1>28, <1>29, <1>30 DEF Next, Main, Copy, Pull, PullOne

\* A file that no step touches keeps its counts.
Untouched(f) ==
  /\ state'[f] = state[f]
  /\ \A c \in Copiers : copier[c].file = f \/ copier'[c].file = f => copier'[c] = copier[c]
  /\ puller.file = f \/ puller'.file = f => puller' = puller
  /\ \A b \in Blocks : pulls'[f][b] = "request" <=> pulls[f][b] = "request"

\* A file that no step touches keeps its counters and its routines.
LEMMA UntouchedCounts ==
  ASSUME NEW f, Untouched(f), CountsOf(f) PROVE CountsOf(f)'
<1>1. Asked(f)' = Asked(f)
  BY DEF Untouched, Asked
<1>2. /\ Waiting(f)' <=> Waiting(f)
      /\ Copied(f)' <=> Copied(f)
  BY DEF Untouched, Waiting, Copied
<1> QED
  BY <1>1, <1>2 DEF Untouched, CountsOf

\* The counters follow the work that is left.
LEMMA CountsStep ==
  ASSUME Settings, IInv, Shape', Phases', Owners', [Next]_vars PROVE Counts'
<1>t. Shape /\ Shape'
  BY DEF IInv
<1>c. copier \in [Copiers -> Handling] /\ pulls \in [Files -> [Blocks -> {"none", "request", "out"}]]
  BY <1>t DEF Shape
<1>o. /\ \A c \in Copiers : IF Idle(copier[c]) THEN copier[c].file = NoFile /\ copier[c].todo = {}
                            ELSE copier[c].file \in Files /\ state[copier[c].file].on
      /\ \A c, d \in Copiers : copier[c].file = copier[d].file => c = d \/ Idle(copier[c])
      /\ IF Idle(puller) THEN puller.file = NoFile
         ELSE puller.file \in Files /\ state[puller.file].on /\ puller.block \in Blocks
      /\ \A f \in Files, b \in Blocks : pulls[f][b] # "none" => state[f].on
  BY DEF IInv, Owners
<1>n. NoFile \notin Files
  BY DEF Settings
<1>y. \A f \in Files : CountsOf(f)
  BY DEF IInv, Counts
<1>z. \A f \in Files : Untouched(f) => CountsOf(f)'
  BY <1>y, UntouchedCounts
<1>x. \A c \in Copiers : copier[c].todo \in SUBSET Blocks
  BY <1>c DEF Handling
<1> SUFFICES ASSUME NEW e \in Files PROVE CountsOf(e)'
  BY DEF Counts
<1>u. state' = state /\ copier' = copier /\ puller' = puller /\ pulls' = pulls => CountsOf(e)'
  BY <1>z DEF Untouched
<1>1. CASE BeginIteration
  BY <1>1 DEF BeginIteration, CountsOf, Unused
<1>2. CASE ProcessQueue
  BY <1>2, <1>u DEF ProcessQueue
<1>3. CASE PopFile
  BY <1>3, <1>u DEF PopFile
<1>4. CASE GiveUpFile
  BY <1>4, <1>u DEF GiveUpFile
<1>5. CASE CloseCopyChan
  BY <1>5, <1>u DEF CloseCopyChan
<1>6. CASE ClosePullChan
  BY <1>6, <1>z, <1>o, <1>n DEF ClosePullChan, CopiersDone, Idle, IdleCopier, Untouched
<1>7. CASE CloseFinisherChan
  BY <1>7, <1>z, <1>o, <1>n DEF CloseFinisherChan, PullsDone, Idle, IdlePuller, Untouched
<1>8. CASE FinisherDone
  BY <1>8, <1>u DEF FinisherDone
<1>9. CASE EndIteration
  BY <1>9, <1>u DEF EndIteration
<1>10. ASSUME NEW f \in Files, NeedFile(f) PROVE CountsOf(e)'
  BY <1>10, <1>u DEF NeedFile
<1>11. ASSUME NEW i \in Shortcuts, NeedShortcut(i) PROVE CountsOf(e)'
  BY <1>11, <1>u DEF NeedShortcut
<1>12. ASSUME NEW i \in Deletions, DeleteFile(i) PROVE CountsOf(e)'
  BY <1>12, <1>u DEF DeleteFile
<1>13. ASSUME NEW i \in Deletions, RenameFile(i) PROVE CountsOf(e)'
  BY <1>13, <1>u DEF RenameFile
<1>14. ASSUME NEW x \in Copiers, HandleFile(x) PROVE CountsOf(e)'
  <2>1. puller' = puller /\ pulls' = pulls
    BY <1>14 DEF HandleFile
  <2>2. CASE e # Popped
    <3>1. Untouched(e)
      BY <1>14, <2>1, <2>2, <1>o, <1>n, HandleDoes DEF Untouched, OthersSame
    <3> QED
      BY <3>1, <1>z
  <2>3. CASE e = Popped
    <3>1. /\ puller'.file # e /\ \A d \in Blocks : pulls'[e][d] = "none"
          /\ \A c \in Copiers : copier'[c].file = e => c = x
      BY <1>14, <2>1, <2>3, <1>o, <1>n, HandleDoes
    <3>2. Asked(e)' = {} /\ ~Waiting(e)' /\ ~Copied(e)'
      BY <1>14, <2>3, <3>1, HandleDoes DEF Asked, Waiting, Copied
    <3>3. Cardinality(Asked(e)') = 0
      BY <3>2, FS_EmptySet
    <3>4. Cardinality(Blocks \ Reused(Popped)) \in Int
      BY Counted
    <3>5. /\ ~state'[e].closed /\ state'[e].pullNeeded = 0 /\ copier'[x].at = "start"
          /\ state'[e].copyNeeded = Cardinality(Blocks \ Reused(Popped))
          /\ copier'[x].todo = Blocks \ Reused(Popped)
      BY <1>14, <2>3, HandleDoes
    <3>6. state'[e].copyNeeded = Cardinality(copier'[x].todo) /\ state'[e].copyNeeded \in Int
      BY <3>4, <3>5
    <3>7. \A c \in Copiers : copier'[c].file = e =>
            /\ state'[e].copyNeeded = Cardinality(copier'[c].todo)
                                       - (IF copier'[c].at = "pull" THEN 1 ELSE 0)
            /\ copier'[c].at = "out" => copier'[c].todo = {}
      <4>1. /\ state'[e].copyNeeded = Cardinality(copier'[x].todo)
                                       - (IF copier'[x].at = "pull" THEN 1 ELSE 0)
            /\ copier'[x].at # "out"
        BY <3>1, <3>5, <3>6
      <4> QED
        BY <4>1, <3>1
    <3>8. state'[e].pullNeeded = Cardinality(Asked(e)') + (IF puller'.file = e THEN 1 ELSE 0)
                                + (IF Waiting(e)' THEN 1 ELSE 0)
      BY <3>1, <3>2, <3>3, <3>5
    <3> QED
      BY <3>1, <3>2, <3>5, <3>7, <3>8 DEF CountsOf
  <2> QED
    BY <2>2, <2>3
<1>15. ASSUME NEW x \in Copiers, StartCopy(x) PROVE CountsOf(e)'
  <2> DEFINE f == copier[x].file
  <2>1. puller' = puller /\ pulls' = pulls
    BY <1>15 DEF StartCopy
  <2>2. \A c \in Copiers \ {x} : copier[c].file # f
    BY <1>15, <1>o, <1>n, StartDoes DEF Idle
  <2>3. CASE e # f
    <3>1. Untouched(e)
      BY <1>15, <2>1, <2>3, <1>o, <1>n, StartDoes DEF Untouched, OthersSame, Idle
    <3> QED
      BY <3>1, <1>z
  <2>4. CASE e = f
    <3>1. Asked(e)' = Asked(e)
      BY <2>1 DEF Asked
    <3>2. /\ ~Waiting(e)' /\ ~Waiting(e) /\ ~Copied(e)' /\ ~Copied(e)
      BY <1>15, <2>2, <2>4, StartDoes DEF Waiting, Copied
    <3>3. /\ \A c \in Copiers : copier'[c].file = e => c = x
          /\ ~state'[e].err => copier'[x].at = "blocks" /\ ~state[e].err
      BY <1>15, <2>2, <2>4, StartDoes
    <3> QED
      BY <1>15, <1>y, <2>1, <2>4, <3>1, <3>2, <3>3, StartDoes DEF CountsOf, SameFile, SameCounts
  <2> QED
    BY <2>3, <2>4
<1>16. ASSUME NEW x \in Copiers, CopyBlock(x) PROVE CountsOf(e)'
  <2> DEFINE f == copier[x].file
  <2>1. puller' = puller /\ pulls' = pulls
    BY <1>16 DEF CopyBlock
  <2>2. \A c \in Copiers \ {x} : copier[c].file # f
    BY <1>16, <1>o, <1>n, CopyDoes DEF Idle
  <2>3. CASE e # f
    <3>1. Untouched(e)
      BY <1>16, <2>1, <2>3, <1>o, <1>n, CopyDoes DEF Untouched, OthersSame, Idle
    <3> QED
      BY <3>1, <1>z
  <2>4. CASE e = f
    <3> SUFFICES ASSUME state'[e].on, ~state'[e].err PROVE CountsOf(e)'
      BY DEF CountsOf
    <3>1. Asked(e)' = Asked(e)
      BY <2>1 DEF Asked
    <3>2. /\ ~Waiting(e)' /\ ~Waiting(e) /\ ~Copied(e)' /\ ~Copied(e)
      BY <1>16, <2>2, <2>4, CopyDoes DEF Waiting, Copied
    <3>3. /\ \A c \in Copiers : copier'[c].file = e => c = x
          /\ copier'[x].at = "blocks" /\ ~state[e].err /\ state[e].on
          /\ copier'[x].todo = copier[x].todo \ {NextBlock(x)}
          /\ state'[e].copyNeeded = state[e].copyNeeded - 1
      BY <1>16, <2>2, <2>4, CopyDoes DEF SameFile
    <3>4. ~state[e].closed
      BY <1>16, <2>4, <3>3, NothingLeft, CopyDoes
    <3>5. Cardinality(copier'[x].todo) = Cardinality(copier[x].todo) - 1
      BY <1>16, <1>x, <3>3, OneLess, CopyDoes
    <3>6. Cardinality(copier[x].todo) \in Nat
      BY <1>x, Counted
    <3>7. /\ copier[x].at = "blocks" /\ state[e].copyNeeded = Cardinality(copier[x].todo) - 0
          /\ state'[e].pullNeeded = state[e].pullNeeded /\ ~state'[e].closed
      BY <1>16, <1>y, <2>4, <3>3, <3>4, CopyDoes DEF CountsOf, SameFile
    <3>8. /\ state[e].pullNeeded = Cardinality(Asked(e)) + (IF puller.file = e THEN 1 ELSE 0)
                                   + (IF Waiting(e) THEN 1 ELSE 0)
          /\ puller.file = e => puller.at = "take"
      BY <1>y, <3>3 DEF CountsOf
    <3>9. /\ state'[e].copyNeeded = Cardinality(copier'[x].todo)
          /\ state'[e].copyNeeded \in Int
      BY <3>3, <3>5, <3>6, <3>7
    <3>10. \A c \in Copiers : copier'[c].file = e =>
            /\ state'[e].copyNeeded = Cardinality(copier'[c].todo)
                                       - (IF copier'[c].at = "pull" THEN 1 ELSE 0)
            /\ copier'[c].at = "out" => copier'[c].todo = {}
      <4>1. /\ state'[e].copyNeeded = Cardinality(copier'[x].todo)
                                       - (IF copier'[x].at = "pull" THEN 1 ELSE 0)
            /\ copier'[x].at # "out"
        BY <3>3, <3>9
      <4> QED
        BY <4>1, <3>3
    <3>11. state'[e].pullNeeded = Cardinality(Asked(e)') + (IF puller'.file = e THEN 1 ELSE 0)
                                + (IF Waiting(e)' THEN 1 ELSE 0)
      BY <2>1, <3>1, <3>2, <3>7, <3>8
    <3> QED
      BY <2>1, <3>2, <3>7, <3>8, <3>10, <3>11 DEF CountsOf
  <2> QED
    BY <2>3, <2>4
<1>17. ASSUME NEW x \in Copiers, BeginPull(x) PROVE CountsOf(e)'
  <2> DEFINE f == copier[x].file
  <2>1. puller' = puller /\ pulls' = pulls
    BY <1>17 DEF BeginPull
  <2>2. \A c \in Copiers \ {x} : copier[c].file # f
    BY <1>17, <1>o, <1>n, BeginPullDoes DEF Idle
  <2>3. CASE e # f
    <3>1. Untouched(e)
      BY <1>17, <2>1, <2>3, <1>o, <1>n, BeginPullDoes DEF Untouched, OthersSame, Idle
    <3> QED
      BY <3>1, <1>z
  <2>4. CASE e = f
    <3> SUFFICES ASSUME state'[e].on, ~state'[e].err PROVE CountsOf(e)'
      BY DEF CountsOf
    <3>1. Asked(e)' = Asked(e)
      BY <2>1 DEF Asked
    <3>2. Waiting(e)' /\ ~Waiting(e) /\ ~Copied(e)' /\ ~Copied(e)
      BY <1>17, <2>2, <2>4, BeginPullDoes DEF Waiting, Copied
    <3>3. /\ \A c \in Copiers : copier'[c].file = e => c = x
          /\ ~state[e].err /\ state[e].on
      BY <1>17, <2>2, <2>4, BeginPullDoes DEF SameFile
    <3>4. ~state[e].closed
      BY <1>17, <2>4, <3>3, NothingLeft, BeginPullDoes
    <3>5. Cardinality(Asked(e)) \in Nat /\ Cardinality(copier[x].todo) \in Nat
      BY <1>x, Counted DEF Asked
    <3> QED
      BY <1>17, <1>y, <2>1, <2>4, <3>1, <3>2, <3>3, <3>4, <3>5, BeginPullDoes DEF CountsOf, SameFile
  <2> QED
    BY <2>3, <2>4
<1>18. ASSUME NEW x \in Copiers, SendPull(x) PROVE CountsOf(e)'
  <2> DEFINE f == copier[x].file
  <2>1. state' = state /\ pulls' = pulls
    BY <1>18 DEF SendPull
  <2>2. \A c \in Copiers \ {x} : copier[c].file # f
    BY <1>18, <1>o, <1>n, SendDoes DEF Idle
  <2>3. CASE e # f
    <3>1. Untouched(e)
      BY <1>18, <2>1, <2>3, <1>o, <1>n, SendDoes DEF Untouched, OthersSame, Idle
    <3> QED
      BY <3>1, <1>z
  <2>4. CASE e = f
    <3>1. Asked(e)' = Asked(e)
      BY <2>1 DEF Asked
    <3>2. ~Waiting(e)' /\ Waiting(e) /\ ~Copied(e)' /\ ~Copied(e)
      BY <1>18, <2>2, <2>4, SendDoes DEF Waiting, Copied
    <3>3. /\ \A c \in Copiers : copier'[c].file = e => c = x
          /\ puller.file # e /\ puller'.file = e /\ puller'.at = "take"
      BY <1>18, <2>2, <2>4, <1>o, <1>n, SendDoes DEF Idle
    <3>4. Cardinality(copier'[x].todo) = Cardinality(copier[x].todo) - 1
      BY <1>18, <1>x, OneLess, SendDoes
    <3>5. Cardinality(Asked(e)) \in Nat /\ Cardinality(copier[x].todo) \in Nat
      BY <1>x, Counted DEF Asked
    <3>6. state[e].on /\ ~state[e].err => ~state[e].closed
      BY <1>18, <2>4, NothingLeft, SendDoes
    <3> QED
      BY <1>18, <1>y, <2>1, <2>4, <3>1, <3>2, <3>3, <3>4, <3>5, <3>6, SendDoes DEF CountsOf
  <2> QED
    BY <2>3, <2>4
<1>19. ASSUME NEW x \in Copiers, CopierDone(x) PROVE CountsOf(e)'
  <2>1. /\ state' = state /\ puller' = puller /\ pulls' = pulls
        /\ \A c \in Copiers \ {x} : copier'[c] = copier[c]
        /\ copier'[x].file = copier[x].file /\ copier'[x].todo = copier[x].todo
        /\ copier[x].todo = {} /\ copier[x].at = "blocks" /\ copier'[x].at = "out"
    BY <1>19, <1>c DEF CopierDone, Handling
  <2>2. Asked(e)' = Asked(e) /\ (Waiting(e)' <=> Waiting(e)) /\ (Copied(e)' <=> Copied(e))
    BY <2>1 DEF Asked, Waiting, Copied
  <2>3. \A c \in Copiers :
          /\ copier'[c].file = copier[c].file /\ copier'[c].todo = copier[c].todo
          /\ copier'[c].at = "pull" <=> copier[c].at = "pull"
          /\ copier'[c].at = "out" => copier[c].at = "out" \/ copier[c].todo = {}
    BY <2>1
  <2> QED
    BY <1>y, <2>1, <2>2, <2>3 DEF CountsOf
<1>20. ASSUME NEW x \in Copiers, ReceiveFromCopier(x) PROVE CountsOf(e)'
  <2> DEFINE g == copier[x].file
  <2>1. g \in Files /\ pulls' = pulls /\ puller' = puller /\ copier[x].at = "out"
        /\ copier'[x] = IdleCopier /\ \A c \in Copiers \ {x} : copier'[c] = copier[c]
    BY <1>20, <1>c, <1>o DEF ReceiveFromCopier, Idle
  <2>2. Stays(g) \/ Closes(g)
    BY <1>20, <2>1, CloseDoes DEF ReceiveFromCopier
  <2>3. CASE e # g
    <3>1. Untouched(e)
      BY <1>20, <2>1, <2>2, <2>3, <1>n, <1>o DEF Untouched, Stays, Closes, OthersSame, IdleCopier
    <3> QED
      BY <3>1, <1>z
  <2>4. CASE e = g
    <3> SUFFICES ASSUME state'[e].on, ~state'[e].err PROVE CountsOf(e)'
      BY DEF CountsOf
    <3>1. SameCounts(e) /\ state[e].on /\ ~state[e].err
      BY <2>2, <2>4 DEF Stays, Closes, SameCounts
    <3>2. state'[e].closed => state[e].copyNeeded = 0 /\ state[e].pullNeeded = 0
      BY <2>1, <2>2, <2>4, <3>1, NothingLeft DEF Stays, Closes, MayClose
    <3>3. \A c \in Copiers : copier'[c].file # e /\ (c # x => copier[c].file # e)
      BY <2>1, <2>4, <1>o, <1>n DEF IdleCopier, Idle
    <3>4. Asked(e)' = Asked(e) /\ ~Waiting(e)' /\ ~Waiting(e) /\ Copied(e)'
      BY <2>1, <2>4, <3>3 DEF Asked, Waiting, Copied
    <3>5. state[e].copyNeeded = 0
      <4>1. copier[x].todo = {} /\ state[e].copyNeeded = Cardinality(copier[x].todo) - 0
        BY <1>y, <2>1, <2>4, <3>1 DEF CountsOf
      <4> QED
        BY <4>1, FS_EmptySet
    <3> QED
      BY <1>y, <2>1, <2>4, <3>1, <3>2, <3>3, <3>4, <3>5 DEF CountsOf, SameCounts
  <2> QED
    BY <2>3, <2>4
<1>21. CASE StartPull
  <2> DEFINE f == puller.file
             b == puller.block
  <2>1. copier' = copier
    BY <1>21 DEF StartPull
  <2>2. CASE e # f
    <3>1. Untouched(e)
      BY <1>21, <2>1, <2>2, <1>n, <1>o, StartPullDoes DEF Untouched, OthersSame, IdlePuller
    <3> QED
      BY <3>1, <1>z
  <2>3. CASE e = f
    <3> SUFFICES ASSUME state'[e].on, ~state'[e].err PROVE CountsOf(e)'
      BY DEF CountsOf
    <3>1. /\ pulls'[e][b] = "request" /\ puller'.file # e /\ ~state[e].err /\ state[e].on
          /\ b \in Blocks /\ \A d \in Blocks : d # b => pulls'[e][d] = pulls[e][d]
      BY <1>21, <2>3, <1>n, StartPullDoes DEF IdlePuller, SameFile
    <3>2. pulls[e][b] = "none"
      BY <1>21, <2>3 DEF IInv, Once, StartPull, Idle
    <3>3. b \notin Asked(e) /\ Asked(e)' = Asked(e) \cup {b}
      BY <3>1, <3>2 DEF Asked
    <3>4. Cardinality(Asked(e)') = Cardinality(Asked(e)) + 1
      BY <3>1, <3>3, OneMore DEF Asked
    <3>5. Cardinality(Asked(e)) \in Nat
      BY Counted DEF Asked
    <3>6. (Waiting(e)' <=> Waiting(e)) /\ (Copied(e)' <=> Copied(e))
      BY <2>1 DEF Waiting, Copied
    <3> QED
      BY <1>21, <1>y, <2>1, <2>3, <3>1, <3>4, <3>5, <3>6, StartPullDoes
      DEF CountsOf, SameFile, SameCounts
  <2> QED
    BY <2>2, <2>3
<1>22. CASE ReceiveFromPuller
  <2> DEFINE g == puller.file
  <2>1. g \in Files /\ pulls' = pulls /\ copier' = copier /\ puller.at = "out"
        /\ puller' = IdlePuller
    BY <1>22, <1>c, <1>o DEF ReceiveFromPuller, Idle
  <2>2. Stays(g) \/ Closes(g)
    BY <1>22, <2>1, CloseDoes DEF ReceiveFromPuller
  <2>3. CASE e # g
    <3>1. Untouched(e)
      BY <1>22, <2>1, <2>2, <2>3, <1>n, <1>o DEF Untouched, Stays, Closes, OthersSame, IdlePuller
    <3> QED
      BY <3>1, <1>z
  <2>4. CASE e = g
    <3> SUFFICES ASSUME state'[e].on, ~state'[e].err PROVE CountsOf(e)'
      BY DEF CountsOf
    <3>1. SameCounts(e) /\ state[e].on /\ ~state[e].err
      BY <2>2, <2>4 DEF Stays, Closes, SameCounts
    <3>2. state'[e].closed => state[e].copyNeeded = 0 /\ state[e].pullNeeded = 0
      BY <2>1, <2>2, <2>4, <3>1, NothingLeft DEF Stays, Closes, MayClose
    <3> QED
      BY <1>y, <2>1, <2>4, <3>1 DEF CountsOf
  <2> QED
    BY <2>3, <2>4
<1>23. ASSUME NEW f \in Files, NEW b \in Blocks, PullBlock(f, b) PROVE CountsOf(e)'
  <2>1. copier' = copier /\ puller' = puller
    BY <1>23 DEF PullBlock
  <2>2. CASE e # f
    <3>1. Untouched(e)
      BY <1>23, <2>1, <2>2, PullBlockDoes DEF Untouched, OthersSame
    <3> QED
      BY <3>1, <1>z
  <2>3. CASE e = f
    <3> SUFFICES ASSUME state'[e].on, ~state'[e].err PROVE CountsOf(e)'
      BY DEF CountsOf
    <3>1. /\ ~state[e].err /\ state[e].on /\ ~state[e].closed /\ ~state'[e].closed
          /\ state'[e].pullNeeded = state[e].pullNeeded - 1
      BY <1>23, <2>3, PullBlockDoes DEF SameFile
    <3>2. b \in Asked(e) /\ Asked(e)' = Asked(e) \ {b}
      BY <1>23, <2>3, PullBlockDoes DEF Asked
    <3>3. Cardinality(Asked(e)') = Cardinality(Asked(e)) - 1
      BY <3>2, OneLess DEF Asked
    <3>4. Cardinality(Asked(e)) \in Nat
      BY Counted DEF Asked
    <3>5. (Waiting(e)' <=> Waiting(e)) /\ (Copied(e)' <=> Copied(e))
      BY <2>1 DEF Waiting, Copied
    <3> QED
      BY <1>23, <1>y, <2>1, <2>3, <3>1, <3>3, <3>4, <3>5, PullBlockDoes DEF CountsOf
  <2> QED
    BY <2>2, <2>3
<1>24. ASSUME NEW f \in Files, NEW b \in Blocks, ReceiveFromPull(f, b) PROVE CountsOf(e)'
  <2> DEFINE g == f
  <2>1. g \in Files /\ copier' = copier /\ puller' = puller
        /\ \A h \in Files, d \in Blocks : pulls'[h][d] = "request" <=> pulls[h][d] = "request"
    BY <1>24, <1>c, <1>o DEF ReceiveFromPull, Idle
  <2>2. Stays(g) \/ Closes(g)
    BY <1>24, <2>1, CloseDoes DEF ReceiveFromPull
  <2>3. CASE e # g
    <3>1. Untouched(e)
      BY <1>24, <2>1, <2>2, <2>3, <1>n, <1>o DEF Untouched, Stays, Closes, OthersSame
    <3> QED
      BY <3>1, <1>z
  <2>4. CASE e = g
    <3> SUFFICES ASSUME state'[e].on, ~state'[e].err PROVE CountsOf(e)'
      BY DEF CountsOf
    <3>1. SameCounts(e) /\ state[e].on /\ ~state[e].err
      BY <2>2, <2>4 DEF Stays, Closes, SameCounts
    <3>2. state'[e].closed => state[e].copyNeeded = 0 /\ state[e].pullNeeded = 0
      BY <2>1, <2>2, <2>4, <3>1, NothingLeft DEF Stays, Closes, MayClose
    <3>3. Asked(e)' = Asked(e) /\ (Waiting(e)' <=> Waiting(e)) /\ (Copied(e)' <=> Copied(e))
      BY <2>1 DEF Asked, Waiting, Copied
    <3> QED
      BY <1>y, <2>1, <2>4, <3>1, <3>2, <3>3 DEF CountsOf, SameCounts
  <2> QED
    BY <2>3, <2>4
<1>25. CASE Finish
  BY <1>25, <1>u DEF Finish
<1>26. CASE FinishRecord
  BY <1>26, <1>u DEF FinishRecord
<1>27. CASE Flush
  BY <1>27, <1>u DEF Flush
<1>28. CASE Stop
  BY <1>28, <1>u DEF Stop
<1>29. ASSUME NEW f \in Files, MoveToFront(f) PROVE CountsOf(e)'
  BY <1>29, <1>u DEF MoveToFront
<1>30. CASE UNCHANGED vars
  BY <1>30, <1>u DEF vars
<1> QED
  BY <1>1, <1>2, <1>3, <1>4, <1>5, <1>6, <1>7, <1>8, <1>9, <1>10, <1>11, <1>12, <1>13,
     <1>14, <1>15, <1>16, <1>17, <1>18, <1>19, <1>20, <1>21, <1>22, <1>23, <1>24, <1>25,
     <1>26, <1>27, <1>28, <1>29, <1>30 DEF Next, Main, Copy, Pull, PullOne

\* A file that no step touches keeps its content.
SameContent(f) ==
  /\ state'[f] = state[f] /\ temp'[f].good = temp[f].good
  /\ \A c \in Copiers : copier[c].file = f \/ copier'[c].file = f => copier'[c] = copier[c]
  /\ puller.file = f \/ puller'.file = f => puller' = puller
  /\ \A b \in Blocks : pulls'[f][b] = "request" <=> pulls[f][b] = "request"
  /\ finisher'.file = f /\ finisher'.at = "finish" => finisher' = finisher

\* A file that no step touches keeps its blocks and those who have the rest of them.
LEMMA ContentStays ==
  ASSUME NEW f, SameContent(f), ContentOf(f) PROVE ContentOf(f)'
<1>1. Begun(f)' <=> Begun(f)
  BY DEF SameContent, Begun
<1> QED
  BY <1>1 DEF SameContent, ContentOf

\* A block that is not good yet stays with someone.
LEMMA ContentStep ==
  ASSUME Settings, ~TruncateFails, IInv, Content, Shape', [Next]_vars PROVE Content'
<1>t. Shape /\ Shape'
  BY DEF IInv
<1>c. copier \in [Copiers -> Handling] /\ pulls \in [Files -> [Blocks -> {"none", "request", "out"}]]
  BY <1>t DEF Shape
<1>g. \A f \in Files : temp[f].good \subseteq Blocks /\ temp'[f].good \subseteq Blocks
  BY <1>t DEF Shape, Temporary
<1>o. /\ \A c \in Copiers : IF Idle(copier[c]) THEN copier[c].file = NoFile /\ copier[c].todo = {}
                            ELSE copier[c].file \in Files /\ state[copier[c].file].on
      /\ \A c, d \in Copiers : copier[c].file = copier[d].file => c = d \/ Idle(copier[c])
      /\ IF Idle(puller) THEN puller.file = NoFile
         ELSE puller.file \in Files /\ state[puller.file].on /\ puller.block \in Blocks
      /\ \A f \in Files, b \in Blocks : pulls[f][b] # "none" => state[f].on
      /\ ~Idle(finisher) => /\ finisher.file \in Files /\ state[finisher.file].on
                            /\ state[finisher.file].closed
  BY DEF IInv, Owners
<1>b. \A c \in Copiers : copier[c].at = "start" => ~state[copier[c].file].closed
  BY <1>o DEF IInv, NotBegun, Begun, Idle
<1>n. NoFile \notin Files
  BY DEF Settings
<1>y. \A f \in Files : ContentOf(f)
  BY DEF Content
<1>z. \A f \in Files : SameContent(f) => ContentOf(f)'
  BY <1>y, ContentStays
<1> SUFFICES ASSUME NEW e \in Files PROVE ContentOf(e)'
  BY DEF Content
<1>u. /\ state' = state /\ copier' = copier /\ puller' = puller /\ pulls' = pulls /\ temp' = temp
      /\ finisher' = finisher \/ finisher'.at # "finish"
      => ContentOf(e)'
  BY <1>z DEF SameContent
<1>1. CASE BeginIteration
  BY <1>1 DEF BeginIteration, ContentOf, Unused
<1>2. CASE ProcessQueue
  BY <1>2, <1>u DEF ProcessQueue
<1>3. CASE PopFile
  BY <1>3, <1>u DEF PopFile
<1>4. CASE GiveUpFile
  BY <1>4, <1>u DEF GiveUpFile
<1>5. CASE CloseCopyChan
  BY <1>5, <1>u DEF CloseCopyChan
<1>6. CASE ClosePullChan
  BY <1>6, <1>z, <1>o, <1>n DEF ClosePullChan, CopiersDone, Idle, IdleCopier, SameContent
<1>7. CASE CloseFinisherChan
  BY <1>7, <1>z, <1>o, <1>n DEF CloseFinisherChan, PullsDone, Idle, IdlePuller, SameContent
<1>8. CASE FinisherDone
  BY <1>8, <1>u DEF FinisherDone, IdleFinisher
<1>9. CASE EndIteration
  BY <1>9, <1>u DEF EndIteration
<1>10. ASSUME NEW f \in Files, NeedFile(f) PROVE ContentOf(e)'
  BY <1>10, <1>u DEF NeedFile
<1>11. ASSUME NEW i \in Shortcuts, NeedShortcut(i) PROVE ContentOf(e)'
  BY <1>11, <1>u DEF NeedShortcut
<1>12. ASSUME NEW i \in Deletions, DeleteFile(i) PROVE ContentOf(e)'
  BY <1>12, <1>u DEF DeleteFile
<1>13. ASSUME NEW i \in Deletions, RenameFile(i) PROVE ContentOf(e)'
  BY <1>13, <1>u DEF RenameFile
<1>14. ASSUME NEW x \in Copiers, HandleFile(x) PROVE ContentOf(e)'
  <2>1. puller' = puller /\ pulls' = pulls /\ finisher' = finisher
    BY <1>14 DEF HandleFile
  <2>2. /\ \A g \in Files : temp'[g].good = temp[g].good
        /\ Reused(Popped) # {} => temp[Popped].good = Reused(Popped)
    <3>1. temp \in [Files -> Temporary]
      BY <1>t DEF Shape
    <3>2. temp' = temp \/ temp' = [temp EXCEPT ![Popped].exists = FALSE]
      BY <1>14 DEF HandleFile
    <3>3. \A g \in Files : temp'[g].good = temp[g].good
      BY <3>1, <3>2 DEF Temporary
    <3> QED
      BY <3>3 DEF Reused
  <2>3. CASE e # Popped
    <3>1. SameContent(e)
      BY <1>14, <2>1, <2>2, <2>3, <1>o, <1>n, HandleDoes DEF SameContent, OthersSame
    <3> QED
      BY <3>1, <1>z
  <2>4. CASE e = Popped
    <3>1. \A c \in Copiers : copier'[c].file = e => c = x
      BY <1>14, <2>4, <1>o, <1>n, HandleDoes
    <3>2. finisher'.file = e => finisher'.at # "finish"
      BY <1>14, <2>1, <2>4, <1>o, HandleDoes DEF Idle
    <3>3. ~Begun(e)'
      BY <1>14, <2>4, HandleDoes DEF Begun
    <3>4. copier'[x].todo = Blocks \ (IF state'[e].reused THEN temp'[e].good ELSE {})
      <4>0. /\ copier'[x].todo = Blocks \ Reused(Popped)
            /\ state'[Popped].reused = (Reused(Popped) # {})
        BY <1>14, HandleDoes
      <4>1. /\ copier'[x].todo = Blocks \ Reused(e)
            /\ state'[e].reused = (Reused(e) # {})
        BY <2>4, <4>0
      <4>2. Reused(e) # {} => temp'[e].good = Reused(e)
        BY <2>2, <2>4
      <4>3. CASE Reused(e) = {}
        BY <4>1, <4>3
      <4>4. CASE Reused(e) # {}
        BY <4>1, <4>2, <4>4
      <4> QED
        BY <4>3, <4>4
    <3> QED
      BY <3>1, <3>2, <3>3, <3>4 DEF ContentOf
  <2> QED
    BY <2>3, <2>4
<1>15. ASSUME NEW x \in Copiers, StartCopy(x) PROVE ContentOf(e)'
  <2> DEFINE f == copier[x].file
  <2>1. puller' = puller /\ pulls' = pulls /\ finisher' = finisher
    BY <1>15 DEF StartCopy
  <2>2. \A c \in Copiers \ {x} : copier[c].file # f
    BY <1>15, <1>o, <1>n, StartDoes DEF Idle
  <2>3. CASE e # f
    <3>1. SameContent(e)
      BY <1>15, <2>1, <2>3, <1>o, <1>n, StartDoes DEF SameContent, OthersSame, Idle
    <3> QED
      BY <3>1, <1>z
  <2>4. CASE e = f
    <3> SUFFICES ASSUME state'[e].on, ~state'[e].err PROVE ContentOf(e)'
      BY DEF ContentOf
    <3>1. /\ state[e].on /\ ~state[e].err /\ ~state[e].closed
          /\ state'[e].reused = state[e].reused
      BY <1>15, <2>4, <1>b, StartDoes DEF SameFile, IInv, NotBegun, Begun
    <3>2. \A c \in Copiers : copier'[c].file = e => c = x /\ copier'[c].at = "blocks"
      BY <1>15, <2>2, <2>4, StartDoes
    <3>3. finisher'.file = e => finisher'.at # "finish"
      BY <2>1, <3>1, <1>o DEF Idle
    <3>4. /\ copier'[x].file = e
          /\ copier'[x].todo = Blocks \ (IF state[e].reused THEN temp[e].good ELSE {})
      BY <1>15, <2>4, <3>1, <1>y, StartDoes DEF ContentOf
    <3>5. IF state[e].reused THEN temp'[e] = temp[e] ELSE temp'[e].good = Zeros
      BY <1>15, <2>4, <3>2, StartDoes
    <3> QED
      BY <3>1, <3>2, <3>3, <3>4, <3>5 DEF ContentOf
  <2> QED
    BY <2>3, <2>4
<1>16. ASSUME NEW x \in Copiers, CopyBlock(x) PROVE ContentOf(e)'
  <2> DEFINE f == copier[x].file
  <2>1. puller' = puller /\ pulls' = pulls /\ finisher' = finisher
    BY <1>16 DEF CopyBlock
  <2>2. \A c \in Copiers \ {x} : copier[c].file # f
    BY <1>16, <1>o, <1>n, CopyDoes DEF Idle
  <2>3. CASE e # f
    <3>1. SameContent(e)
      BY <1>16, <2>1, <2>3, <1>o, <1>n, CopyDoes DEF SameContent, OthersSame, Idle
    <3> QED
      BY <3>1, <1>z
  <2>4. CASE e = f
    <3> SUFFICES ASSUME state'[e].on, ~state'[e].err PROVE ContentOf(e)'
      BY DEF ContentOf
    <3> DEFINE b == NextBlock(x)
    <3>1. /\ state[e].on /\ ~state[e].err /\ state'[e].closed = state[e].closed
          /\ state'[e].reused = state[e].reused
          /\ copier'[x].file = e /\ copier'[x].todo = copier[x].todo \ {b}
          /\ b \in temp'[e].good \/ (b \in Zeros /\ ~state[e].reused)
          /\ temp[e].good \subseteq temp'[e].good
      BY <1>16, <2>4, CopyDoes DEF SameFile
    <3> HIDE DEF b
    <3>2. \A c \in Copiers : copier'[c].file = e => c = x /\ copier'[c].at # "start"
      BY <1>16, <2>2, <2>4, CopyDoes
    <3>3. Begun(e)
      BY <1>16, <2>2, <2>4, CopyDoes DEF Begun
    <3>4. finisher'.file = e /\ finisher'.at = "finish" => temp'[e].good = Blocks
      <4> SUFFICES ASSUME finisher'.file = e, finisher'.at = "finish" PROVE temp'[e].good = Blocks
        OBVIOUS
      <4>1. temp[e].good = Blocks
        BY <2>1, <3>1, <1>y DEF ContentOf
      <4>2. temp[e].good \subseteq temp'[e].good /\ temp'[e].good \subseteq Blocks
        BY <3>1, <1>g
      <4> QED
        BY <4>1, <4>2
    <3>5. ASSUME ~state'[e].closed
          PROVE  /\ ~state'[e].reused => Zeros \subseteq temp'[e].good
                 /\ \A d \in Blocks \ temp'[e].good :
                      \/ \E c \in Copiers : copier'[c].file = e /\ d \in copier'[c].todo
                      \/ pulls'[e][d] = "request"
                      \/ puller'.file = e /\ puller'.block = d
      <4>1. /\ ~state[e].reused => Zeros \subseteq temp[e].good
            /\ \A d \in Blocks \ temp[e].good :
                 \/ d \in copier[x].todo
                 \/ pulls[e][d] = "request"
                 \/ puller.file = e /\ puller.block = d
        BY <1>y, <2>2, <2>4, <3>1, <3>3, <3>5 DEF ContentOf
      <4> QED
        BY <2>1, <3>1, <4>1
    <3> QED
      BY <3>2, <3>4, <3>5 DEF ContentOf
  <2> QED
    BY <2>3, <2>4
<1>17. ASSUME NEW x \in Copiers, BeginPull(x) PROVE ContentOf(e)'
  <2> DEFINE f == copier[x].file
  <2>1. puller' = puller /\ pulls' = pulls /\ finisher' = finisher /\ temp' = temp
    BY <1>17 DEF BeginPull
  <2>2. \A c \in Copiers \ {x} : copier[c].file # f
    BY <1>17, <1>o, <1>n, BeginPullDoes DEF Idle
  <2>3. CASE e # f
    <3>1. SameContent(e)
      BY <1>17, <2>1, <2>3, <1>o, <1>n, BeginPullDoes DEF SameContent, OthersSame, Idle
    <3> QED
      BY <3>1, <1>z
  <2>4. CASE e = f
    <3> SUFFICES ASSUME state'[e].on, ~state'[e].err PROVE ContentOf(e)'
      BY DEF ContentOf
    <3>1. /\ state[e].on /\ ~state[e].err /\ state'[e].closed = state[e].closed
          /\ state'[e].reused = state[e].reused /\ temp' = temp
      BY <1>17, <2>1, <2>4, BeginPullDoes DEF SameFile
    <3>2. \A c \in Copiers : copier'[c].file = e => c = x /\ copier'[c].at # "start"
      BY <1>17, <2>2, <2>4, BeginPullDoes
    <3>3. Begun(e)
      BY <1>17, <2>2, <2>4, BeginPullDoes DEF Begun
    <3>4. \A d \in Blocks :
            \/ \E c \in Copiers : copier[c].file = e /\ d \in copier[c].todo
            \/ pulls[e][d] = "request"
            \/ puller.file = e /\ puller.block = d
            => \/ \E c \in Copiers : copier'[c].file = e /\ d \in copier'[c].todo
               \/ pulls'[e][d] = "request"
               \/ puller'.file = e /\ puller'.block = d
      BY <1>17, <2>1, <2>2, <2>4, <1>o, <1>n, BeginPullDoes DEF Idle
    <3> QED
      BY <1>y, <2>1, <3>1, <3>2, <3>3, <3>4 DEF ContentOf
  <2> QED
    BY <2>3, <2>4
<1>18. ASSUME NEW x \in Copiers, SendPull(x) PROVE ContentOf(e)'
  <2> DEFINE f == copier[x].file
  <2>1. state' = state /\ pulls' = pulls /\ temp' = temp /\ finisher' = finisher
    BY <1>18 DEF SendPull
  <2>2. \A c \in Copiers \ {x} : copier[c].file # f
    BY <1>18, <1>o, <1>n, SendDoes DEF Idle
  <2>3. CASE e # f
    <3>1. SameContent(e)
      BY <1>18, <2>1, <2>3, <1>o, <1>n, SendDoes DEF SameContent, OthersSame, Idle
    <3> QED
      BY <3>1, <1>z
  <2>4. CASE e = f
    <3> SUFFICES ASSUME state'[e].on, ~state'[e].err PROVE ContentOf(e)'
      BY DEF ContentOf
    <3>1. /\ state[e].on /\ ~state[e].err /\ state'[e].closed = state[e].closed
          /\ state'[e].reused = state[e].reused /\ temp' = temp
      BY <1>18, <2>1
    <3>2. \A c \in Copiers : copier'[c].file = e => c = x /\ copier'[c].at # "start"
      BY <1>18, <2>2, <2>4, SendDoes
    <3>3. Begun(e)
      BY <1>18, <2>2, <2>4, SendDoes DEF Begun
    <3>4. \A d \in Blocks :
            \/ \E c \in Copiers : copier[c].file = e /\ d \in copier[c].todo
            \/ pulls[e][d] = "request"
            \/ puller.file = e /\ puller.block = d
            => \/ \E c \in Copiers : copier'[c].file = e /\ d \in copier'[c].todo
               \/ pulls'[e][d] = "request"
               \/ puller'.file = e /\ puller'.block = d
      BY <1>18, <2>1, <2>2, <2>4, <1>o, <1>n, SendDoes DEF Idle
    <3> QED
      BY <1>y, <2>1, <3>1, <3>2, <3>3, <3>4 DEF ContentOf
  <2> QED
    BY <2>3, <2>4
<1>19. ASSUME NEW x \in Copiers, CopierDone(x) PROVE ContentOf(e)'
  <2>1. /\ state' = state /\ puller' = puller /\ pulls' = pulls /\ temp' = temp
        /\ finisher' = finisher
        /\ \A c \in Copiers \ {x} : copier'[c] = copier[c]
        /\ copier'[x].file = copier[x].file /\ copier'[x].todo = copier[x].todo
        /\ copier[x].at = "blocks" /\ copier'[x].at = "out"
    BY <1>19, <1>c DEF CopierDone, Handling
  <2>2. \A c \in Copiers :
          /\ copier'[c].file = copier[c].file /\ copier'[c].todo = copier[c].todo
          /\ copier'[c].at = "start" <=> copier[c].at = "start"
    BY <2>1
  <2>3. Begun(e)' <=> Begun(e)
    BY <2>2 DEF Begun
  <2> QED
    BY <1>y, <2>1, <2>2, <2>3 DEF ContentOf
<1>20. ASSUME NEW x \in Copiers, ReceiveFromCopier(x) PROVE ContentOf(e)'
  <2> DEFINE g == copier[x].file
  <2>1. g \in Files /\ temp' = temp /\ pulls' = pulls /\ puller' = puller /\ copier[x].at = "out"
        /\ copier'[x] = IdleCopier /\ \A c \in Copiers \ {x} : copier'[c] = copier[c]
    BY <1>20, <1>c, <1>o DEF ReceiveFromCopier, Idle
  <2>2. Stays(g) \/ Closes(g)
    BY <1>20, <2>1, CloseDoes DEF ReceiveFromCopier
  <2>3. CASE e # g
    <3>1. SameContent(e)
      BY <1>20, <2>1, <2>2, <2>3, <1>n, <1>o DEF SameContent, Stays, Closes, OthersSame, IdleCopier
    <3> QED
      BY <3>1, <1>z
  <2>4. CASE e = g
    <3> SUFFICES ASSUME state'[e].on, ~state'[e].err PROVE ContentOf(e)'
      BY DEF ContentOf
    <3>1. state[e].on /\ ~state[e].err /\ (Closes(e) => ~state[e].closed)
      BY <2>2, <2>4 DEF Stays, Closes
    <3>2. Begun(e) /\ \A c \in Copiers : copier'[c].file = e => copier'[c].at # "start"
      BY <2>1, <2>4, <1>o, <1>n DEF Begun, IInv, NotBegun, IdleCopier, Idle
    <3>3. \A d \in Blocks :
            \/ \E c \in Copiers : copier[c].file = e /\ d \in copier[c].todo
            \/ pulls[e][d] = "request"
            \/ puller.file = e /\ puller.block = d
            => \/ \E c \in Copiers : copier'[c].file = e /\ d \in copier'[c].todo
               \/ pulls'[e][d] = "request"
               \/ puller'.file = e /\ puller'.block = d
      BY <2>1, <2>4, <3>1 DEF IInv, Counts, CountsOf
    <3>4. CASE Stays(e)
      BY <1>y, <2>1, <3>1, <3>2, <3>3, <3>4 DEF ContentOf, Stays
    <3>5. CASE Closes(e)
      <4>1. /\ \A c \in Copiers : copier[c].file = e => copier[c].todo = {}
            /\ puller.file # e /\ \A d \in Blocks : pulls[e][d] # "request"
        BY <3>1, <3>5, NothingLeft DEF Closes, MayClose, Asked
      <4>2. \A d \in Blocks \ temp[e].good :
              \/ \E c \in Copiers : copier[c].file = e /\ d \in copier[c].todo
              \/ pulls[e][d] = "request"
              \/ puller.file = e /\ puller.block = d
        BY <1>y, <3>1, <3>2, <3>5 DEF ContentOf
      <4>3. temp[e].good = Blocks
        <5>1. temp[e].good \subseteq Blocks
          BY <1>g
        <5>2. \A d \in Blocks : d \in temp[e].good
          BY <4>1, <4>2
        <5> QED
          BY <5>1, <5>2
      <4> QED
        BY <2>1, <3>2, <3>5, <4>3 DEF ContentOf, Closes
    <3> QED
      BY <2>2, <2>4, <3>4, <3>5
  <2> QED
    BY <2>3, <2>4
<1>21. CASE StartPull
  <2> DEFINE f == puller.file
             b == puller.block
  <2>1. copier' = copier /\ temp' = temp /\ finisher' = finisher
    BY <1>21 DEF StartPull
  <2>2. CASE e # f
    <3>1. SameContent(e)
      BY <1>21, <2>1, <2>2, <1>n, <1>o, StartPullDoes DEF SameContent, OthersSame, IdlePuller
    <3> QED
      BY <3>1, <1>z
  <2>3. CASE e = f
    <3> SUFFICES ASSUME state'[e].on, ~state'[e].err PROVE ContentOf(e)'
      BY DEF ContentOf
    <3>1. /\ pulls'[e][b] = "request" /\ ~state[e].err /\ state[e].on
          /\ b \in Blocks /\ \A d \in Blocks : d # b => pulls'[e][d] = pulls[e][d]
          /\ state'[e].closed = state[e].closed /\ state'[e].reused = state[e].reused
      BY <1>21, <2>3, StartPullDoes DEF SameFile
    <3>2. Begun(e)' <=> Begun(e)
      BY <2>1 DEF Begun
    <3> QED
      BY <1>y, <2>1, <2>3, <3>1, <3>2 DEF ContentOf
  <2> QED
    BY <2>2, <2>3
<1>22. CASE ReceiveFromPuller
  <2> DEFINE g == puller.file
  <2>1. g \in Files /\ temp' = temp /\ pulls' = pulls /\ copier' = copier /\ puller.at = "out"
        /\ puller' = IdlePuller
    BY <1>22, <1>o DEF ReceiveFromPuller, Idle
  <2>2. Stays(g) \/ Closes(g)
    BY <1>22, <2>1, CloseDoes DEF ReceiveFromPuller
  <2>3. CASE e # g
    <3>1. SameContent(e)
      BY <1>22, <2>1, <2>2, <2>3, <1>n, <1>o DEF SameContent, Stays, Closes, OthersSame, IdlePuller
    <3> QED
      BY <3>1, <1>z
  <2>4. CASE e = g
    <3>1. state[e].on => state[e].err
      BY <2>1, <2>4 DEF IInv, Counts, CountsOf
    <3> QED
      BY <2>2, <2>4, <3>1 DEF ContentOf, Stays, Closes
  <2> QED
    BY <2>3, <2>4
<1>23. ASSUME NEW f \in Files, NEW b \in Blocks, PullBlock(f, b) PROVE ContentOf(e)'
  <2>1. copier' = copier /\ puller' = puller /\ finisher' = finisher
    BY <1>23 DEF PullBlock
  <2>2. CASE e # f
    <3>1. SameContent(e)
      BY <1>23, <2>1, <2>2, PullBlockDoes DEF SameContent, OthersSame
    <3> QED
      BY <3>1, <1>z
  <2>3. CASE e = f
    <3> SUFFICES ASSUME state'[e].on, ~state'[e].err PROVE ContentOf(e)'
      BY DEF ContentOf
    <3>1. /\ ~state[e].err /\ state[e].on /\ ~state[e].closed
          /\ state'[e].reused = state[e].reused
          /\ b \in temp'[e].good /\ temp[e].good \subseteq temp'[e].good
          /\ \A d \in Blocks : d # b => pulls'[e][d] = pulls[e][d]
      BY <1>23, <2>3, PullBlockDoes DEF SameFile
    <3>2. Begun(e) /\ Begun(e)'
      BY <1>23, <2>1, <2>3, PullBlockDoes DEF Begun, IInv, NotBegun
    <3>3. finisher'.file = e => finisher'.at # "finish"
      BY <2>1, <3>1, <1>o DEF Idle
    <3>4. /\ ~state[e].reused => Zeros \subseteq temp[e].good
          /\ \A d \in Blocks \ temp[e].good :
               \/ \E c \in Copiers : copier[c].file = e /\ d \in copier[c].todo
               \/ pulls[e][d] = "request"
               \/ puller.file = e /\ puller.block = d
      BY <1>y, <3>1, <3>2 DEF ContentOf
    <3>5. \A c \in Copiers : copier'[c].file = e => copier'[c].at # "start"
      BY <3>2 DEF Begun
    <3> QED
      BY <2>1, <3>1, <3>3, <3>4, <3>5 DEF ContentOf
  <2> QED
    BY <2>2, <2>3
<1>24. ASSUME NEW f \in Files, NEW b \in Blocks, ReceiveFromPull(f, b) PROVE ContentOf(e)'
  <2> DEFINE g == f
  <2>1. g \in Files /\ temp' = temp /\ copier' = copier /\ puller' = puller /\ pulls[f][b] = "out"
        /\ \A h \in Files, d \in Blocks : pulls'[h][d] = "request" <=> pulls[h][d] = "request"
    BY <1>24, <1>c, <1>o DEF ReceiveFromPull, Idle
  <2>2. Stays(g) \/ Closes(g)
    BY <1>24, <2>1, CloseDoes DEF ReceiveFromPull
  <2>3. CASE e # g
    <3>1. SameContent(e)
      BY <1>24, <2>1, <2>2, <2>3, <1>n, <1>o DEF SameContent, Stays, Closes, OthersSame
    <3> QED
      BY <3>1, <1>z
  <2>4. CASE e = g
    <3> SUFFICES ASSUME state'[e].on, ~state'[e].err PROVE ContentOf(e)'
      BY DEF ContentOf
    <3>1. state[e].on /\ ~state[e].err /\ (Closes(e) => ~state[e].closed)
      BY <2>2, <2>4 DEF Stays, Closes
    <3>2. Begun(e) /\ \A c \in Copiers : copier'[c].file = e => copier'[c].at # "start"
      BY <2>1, <2>4 DEF Begun, IInv, NotBegun, IdleCopier, Idle
    <3>3. \A d \in Blocks :
            \/ \E c \in Copiers : copier[c].file = e /\ d \in copier[c].todo
            \/ pulls[e][d] = "request"
            \/ puller.file = e /\ puller.block = d
            => \/ \E c \in Copiers : copier'[c].file = e /\ d \in copier'[c].todo
               \/ pulls'[e][d] = "request"
               \/ puller'.file = e /\ puller'.block = d
      BY <2>1
    <3>4. CASE Stays(e)
      BY <1>y, <2>1, <3>1, <3>2, <3>3, <3>4 DEF ContentOf, Stays
    <3>5. CASE Closes(e)
      <4>1. /\ \A c \in Copiers : copier[c].file = e => copier[c].todo = {}
            /\ puller.file # e /\ \A d \in Blocks : pulls[e][d] # "request"
        BY <3>1, <3>5, NothingLeft DEF Closes, MayClose, Asked
      <4>2. \A d \in Blocks \ temp[e].good :
              \/ \E c \in Copiers : copier[c].file = e /\ d \in copier[c].todo
              \/ pulls[e][d] = "request"
              \/ puller.file = e /\ puller.block = d
        BY <1>y, <3>1, <3>2, <3>5 DEF ContentOf
      <4>3. temp[e].good = Blocks
        <5>1. temp[e].good \subseteq Blocks
          BY <1>g
        <5>2. \A d \in Blocks : d \in temp[e].good
          BY <4>1, <4>2
        <5> QED
          BY <5>1, <5>2
      <4> QED
        BY <2>1, <3>2, <3>5, <4>3 DEF ContentOf, Closes
    <3> QED
      BY <2>2, <2>4, <3>4, <3>5
  <2> QED
    BY <2>3, <2>4
<1>25. CASE Finish
  <2>1. state' = state /\ copier' = copier /\ puller' = puller /\ pulls' = pulls
    BY <1>25 DEF Finish
  <2>2. finisher'.at # "finish"
    BY <1>25, <1>t DEF Finish, IdleFinisher, Shape, Finishing
  <2>3. CASE e # finisher.file
    <3>1. temp'[e] = temp[e]
      BY <1>25, <1>t, <2>3 DEF Finish, Shape
    <3> QED
      BY <1>z, <2>1, <2>2, <3>1 DEF SameContent
  <2>4. CASE e = finisher.file
    <3>1. state[e].closed /\ \A c \in Copiers : copier[c].file = e => copier[c].at # "start"
      BY <1>25, <1>b, <1>o, <2>4 DEF Finish, Idle
    <3> QED
      BY <2>1, <2>2, <3>1 DEF ContentOf
  <2> QED
    BY <2>3, <2>4
<1>26. CASE FinishRecord
  BY <1>26, <1>u DEF FinishRecord, IdleFinisher
<1>27. CASE Flush
  BY <1>27, <1>u DEF Flush
<1>28. CASE Stop
  BY <1>28, <1>u DEF Stop
<1>29. ASSUME NEW f \in Files, MoveToFront(f) PROVE ContentOf(e)'
  BY <1>29, <1>u DEF MoveToFront
<1>30. CASE UNCHANGED vars
  BY <1>30, <1>u DEF vars
<1> QED
  BY <1>1, <1>2, <1>3, <1>4, <1>5, <1>6, <1>7, <1>8, <1>9, <1>10, <1>11, <1>12, <1>13,
     <1>14, <1>15, <1>16, <1>17, <1>18, <1>19, <1>20, <1>21, <1>22, <1>23, <1>24, <1>25,
     <1>26, <1>27, <1>28, <1>29, <1>30 DEF Next, Main, Copy, Pull, PullOne

\* What the steps do to what is on disk.
LEMMA OnDiskStep ==
  ASSUME Settings, IInv, Content, OnDisk, [Next]_vars PROVE OnDisk'
<1>d. disk \in [Items -> {"old", "new", "torn"}] /\ updater \in Updating /\ finisher \in Finishing
  BY DEF IInv, Shape
<1>p. /\ updater.on <=> main # "idle"
      /\ main = "idle" => updater.batch = {} /\ finisher.at = "off"
      /\ ~Idle(finisher) => /\ finisher.file \in Files /\ state[finisher.file].on
                            /\ ~state[finisher.file].err
  BY DEF IInv, Phases, Owners
<1>i. Files \subseteq Items /\ Shortcuts \subseteq Items /\ Deletions \subseteq Items
  BY DEF Items
<1>u. /\ disk' = disk /\ recorded' \cup updater'.batch = recorded \cup updater.batch
      /\ finisher' = finisher \/ (finisher.at # "record" /\ finisher'.at # "record")
      => OnDisk'
  BY DEF OnDisk
<1>r. ASSUME NEW i \in Items, Record(i), recorded' = recorded, finisher' = finisher,
             disk' = [disk EXCEPT ![i] = "new"]
      PROVE  OnDisk'
  <2>1. updater'.batch = updater.batch \cup {i}
    BY <1>d, <1>r DEF Record, Updating
  <2>2. disk'[i] = "new" /\ \A k \in Items : k # i => disk'[k] = disk[k]
    BY <1>d, <1>r
  <2>3. finisher.at = "record" => finisher.file \in Items
    BY <1>i, <1>p DEF Idle
  <2> QED
    BY <1>r, <2>1, <2>2, <2>3 DEF OnDisk
<1>1. CASE BeginIteration
  <2>1. recorded' \cup updater'.batch = recorded \cup updater.batch /\ disk' = disk
    BY <1>1, <1>p DEF BeginIteration
  <2>2. finisher.at # "record" /\ finisher'.at # "record"
    BY <1>1, <1>p DEF BeginIteration, IdleFinisher
  <2> QED
    BY <1>u, <2>1, <2>2
<1>2. CASE ProcessQueue
  BY <1>2, <1>u DEF ProcessQueue
<1>3. CASE PopFile
  BY <1>3, <1>u DEF PopFile
<1>4. CASE GiveUpFile
  BY <1>4, <1>u DEF GiveUpFile
<1>5. CASE CloseCopyChan
  BY <1>5, <1>u DEF CloseCopyChan
<1>6. CASE ClosePullChan
  BY <1>6, <1>u DEF ClosePullChan
<1>7. CASE CloseFinisherChan
  BY <1>7, <1>u DEF CloseFinisherChan
<1>8. CASE FinisherDone
  BY <1>8, <1>u DEF FinisherDone, IdleFinisher
<1>9. CASE EndIteration
  <2>1. recorded' \cup updater'.batch = recorded \cup updater.batch
    BY <1>9 DEF EndIteration, LastBatch
  <2> QED
    BY <1>9, <1>u, <2>1 DEF EndIteration
<1>10. ASSUME NEW f \in Files, NeedFile(f) PROVE OnDisk'
  BY <1>10, <1>u DEF NeedFile
<1>11. ASSUME NEW i \in Shortcuts, NeedShortcut(i) PROVE OnDisk'
  <2>1. i \in Items
    BY <1>i
  <2> QED
    BY <1>11, <1>u, <1>r, <2>1 DEF NeedShortcut
<1>12. ASSUME NEW i \in Deletions, DeleteFile(i) PROVE OnDisk'
  <2>1. i \in Items
    BY <1>i
  <2> QED
    BY <1>12, <1>u, <1>r, <2>1 DEF DeleteFile
<1>13. ASSUME NEW i \in Deletions, RenameFile(i) PROVE OnDisk'
  <2>1. Popped \in Files
    BY <1>13 DEF RenameFile, IInv, Queues, Popped, Shape, Places
  <2>2. Popped \in Items /\ i \in Items
    BY <1>i, <2>1
  <2>3. updater'.batch = updater.batch \cup {Popped, i}
    BY <1>13, <1>d DEF RenameFile, Updating
  <2>4. /\ disk'[Popped] = "new" /\ disk'[i] = "new"
        /\ \A k \in Items : k # Popped /\ k # i => disk'[k] = disk[k]
    BY <1>13, <1>d, <2>2 DEF RenameFile
  <2>5. recorded' = recorded /\ finisher' = finisher
    BY <1>13 DEF RenameFile
  <2>6. finisher.at = "record" => finisher.file \in Items
    BY <1>i, <1>p DEF Idle
  <2> QED
    BY <2>2, <2>3, <2>4, <2>5, <2>6 DEF OnDisk
<1>14. ASSUME NEW x \in Copiers, HandleFile(x) PROVE OnDisk'
  BY <1>14, <1>u DEF HandleFile
<1>15. ASSUME NEW x \in Copiers, StartCopy(x) PROVE OnDisk'
  BY <1>15, <1>u DEF StartCopy
<1>16. ASSUME NEW x \in Copiers, CopyBlock(x) PROVE OnDisk'
  BY <1>16, <1>u DEF CopyBlock
<1>17. ASSUME NEW x \in Copiers, BeginPull(x) PROVE OnDisk'
  BY <1>17, <1>u DEF BeginPull
<1>18. ASSUME NEW x \in Copiers, SendPull(x) PROVE OnDisk'
  BY <1>18, <1>u DEF SendPull
<1>19. ASSUME NEW x \in Copiers, CopierDone(x) PROVE OnDisk'
  BY <1>19, <1>u DEF CopierDone
<1>20. ASSUME NEW x \in Copiers, ReceiveFromCopier(x) PROVE OnDisk'
  <2>1. disk' = disk /\ recorded' = recorded /\ updater' = updater /\ finisher.at = "idle"
    BY <1>20 DEF ReceiveFromCopier
  <2>2. finisher' = finisher \/ finisher'.at = "finish"
    BY <1>20 DEF ReceiveFromCopier, FinalClose
  <2> QED
    BY <1>u, <2>1, <2>2
<1>21. CASE StartPull
  BY <1>21, <1>u DEF StartPull
<1>22. CASE ReceiveFromPuller
  <2>1. disk' = disk /\ recorded' = recorded /\ updater' = updater /\ finisher.at = "idle"
    BY <1>22 DEF ReceiveFromPuller
  <2>2. finisher' = finisher \/ finisher'.at = "finish"
    BY <1>22 DEF ReceiveFromPuller, FinalClose
  <2> QED
    BY <1>u, <2>1, <2>2
<1>23. ASSUME NEW f \in Files, NEW b \in Blocks, PullBlock(f, b) PROVE OnDisk'
  BY <1>23, <1>u DEF PullBlock
<1>24. ASSUME NEW f \in Files, NEW b \in Blocks, ReceiveFromPull(f, b) PROVE OnDisk'
  <2>1. disk' = disk /\ recorded' = recorded /\ updater' = updater /\ finisher.at = "idle"
    BY <1>24 DEF ReceiveFromPull
  <2>2. finisher' = finisher \/ finisher'.at = "finish"
    BY <1>24 DEF ReceiveFromPull, FinalClose
  <2> QED
    BY <1>u, <2>1, <2>2
<1>25. CASE Finish
  <2>1. recorded' = recorded /\ updater' = updater /\ finisher.at = "finish"
    BY <1>25 DEF Finish
  <2>2. finisher.file \in Files /\ finisher.file \in Items /\ temp[finisher.file].good = Blocks
    BY <1>i, <1>p, <2>1 DEF Idle, Content, ContentOf
  <2>3. CASE disk' = disk /\ finisher' = IdleFinisher
    BY <1>u, <2>1, <2>3 DEF IdleFinisher
  <2>4. CASE /\ disk' = [disk EXCEPT ![finisher.file] = "new"]
             /\ finisher' = [finisher EXCEPT !.at = "record"]
    <3>1. /\ disk'[finisher.file] = "new"
          /\ \A k \in Items : k # finisher.file => disk'[k] = disk[k]
          /\ finisher'.at = "record" /\ finisher'.file = finisher.file
      BY <1>d, <2>2, <2>4 DEF Finishing
    <3> QED
      BY <2>1, <2>2, <3>1 DEF OnDisk
  <2> QED
    BY <1>25, <2>2, <2>3, <2>4 DEF Finish
<1>26. CASE FinishRecord
  <2>1. /\ recorded' = recorded /\ disk' = disk /\ finisher.at = "record"
        /\ updater'.batch = updater.batch \cup {finisher.file} /\ finisher'.at # "record"
    BY <1>26, <1>d DEF FinishRecord, Record, Updating, IdleFinisher
  <2>2. finisher.file \in Items
    BY <1>i, <1>p, <2>1 DEF Idle
  <2> QED
    BY <2>1, <2>2 DEF OnDisk
<1>27. CASE Flush
  <2>1. recorded' \cup updater'.batch = recorded \cup updater.batch
    BY <1>27, <1>d DEF Flush, Updating
  <2> QED
    BY <1>27, <1>u, <2>1 DEF Flush
<1>28. CASE Stop
  BY <1>28, <1>u DEF Stop
<1>29. ASSUME NEW f \in Files, MoveToFront(f) PROVE OnDisk'
  BY <1>29, <1>u DEF MoveToFront
<1>30. CASE UNCHANGED vars
  BY <1>30, <1>u DEF vars
<1> QED
  BY <1>1, <1>2, <1>3, <1>4, <1>5, <1>6, <1>7, <1>8, <1>9, <1>10, <1>11, <1>12, <1>13,
     <1>14, <1>15, <1>16, <1>17, <1>18, <1>19, <1>20, <1>21, <1>22, <1>23, <1>24, <1>25,
     <1>26, <1>27, <1>28, <1>29, <1>30 DEF Next, Main, Copy, Pull, PullOne

-----------------------------------------------------------------------------
(* The beginning *)

\* Between pulls nothing is on its way.
LEMMA Beginning == ASSUME Settings, Init PROVE CInv
<1>1. Blocks \subseteq Nat
  BY DEF Settings, Blocks
<1>2. Shape
  <2>1. queue \in Places /\ queue = [queued |-> <<>>, progress |-> <<>>]
    BY DEF Init, Empty, Places
  <2>2. state \in [Files -> Sharing]
    BY DEF Init, Unused, Sharing
  <2>3. temp \in [Files -> Temporary]
    <3>1. {[exists |-> FALSE, good |-> {}]} \cup {[exists |-> TRUE, good |-> g] : g \in LeftOvers}
            \subseteq Temporary
      <4>1. ASSUME NEW g \in LeftOvers PROVE [exists |-> TRUE, good |-> g] \in Temporary
        BY DEF Settings, Temporary
      <4>2. [exists |-> FALSE, good |-> {}] \in Temporary
        BY DEF Temporary
      <4> QED
        BY <4>1, <4>2
    <3> QED
      BY <3>1 DEF Init
  <2>4. copier \in [Copiers -> Handling] /\ puller \in Pulling /\ finisher \in Finishing
    BY DEF Init, IdleCopier, Handling, IdlePuller, Pulling, IdleFinisher, Finishing
  <2>5. pulls \in [Files -> [Blocks -> {"none", "request", "out"}]]
    BY DEF Init
  <2>6. updater \in Updating
    BY DEF Init, Updating
  <2> QED
    BY <2>1, <2>2, <2>3, <2>4, <2>5, <2>6 DEF Init, Shape
<1>3. /\ \A c \in Copiers : copier[c].at = "off" /\ copier[c].file = NoFile /\ copier[c].todo = {}
      /\ puller.at = "off" /\ puller.file = NoFile
      /\ finisher.at = "off" /\ finisher.file = NoFile
  BY DEF Init, IdleCopier, IdlePuller, IdleFinisher
<1>4. \A f \in Files : ~state[f].on /\ ~state[f].closed /\ ~state[f].err /\ ~state[f].writer
  BY DEF Init, Unused
<1>5. \A f \in Files, b \in Blocks : pulls[f][b] = "none"
  BY DEF Init
<1>6. main = "idle" /\ pending = {} /\ queue = Empty /\ updater.batch = {} /\ ~updater.on
  BY DEF Init
<1>7. Phases
  BY <1>3, <1>4, <1>5, <1>6 DEF Phases, Idle, NoPulls
<1>8. Owners
  BY <1>3, <1>4, <1>5 DEF Owners, Idle
<1>9. NotBegun
  BY <1>3, <1>4, <1>5 DEF Settings, NotBegun, Begun
<1>10. Counts /\ Alive /\ Content
  BY <1>4 DEF Counts, CountsOf, Alive, Content, ContentOf
<1>11. Once
  BY <1>3 DEF Once, Idle
<1>12. Queues
  BY <1>6 DEF Queues, Empty, Distinct, Listed
<1>13. OnDisk
  BY <1>3, <1>6 DEF OnDisk, Init
<1> QED
  BY <1>2, <1>7, <1>8, <1>9, <1>10, <1>11, <1>12, <1>13 DEF CInv, IInv

-----------------------------------------------------------------------------
(* The invariants *)

\* The invariant is inductive.
LEMMA Inductive == ASSUME Settings, IInv, [Next]_vars PROVE IInv'
<1>1. Shape'
  BY ShapeStep
<1>2. Phases'
  BY <1>1, PhasesStep
<1>3. Owners'
  BY <1>1, <1>2, OwnersStep
<1> QED
  BY <1>1, <1>2, <1>3, NotBegunStep, CountsStep, OnceStep, AliveStep, QueuesStep DEF IInv

\* In each state the routines agree on which of them is busy with which file, and the
\* counters of a file, whether it is closed and where it is queued say so.
THEOREM PullerInvariant == ASSUME Settings PROVE Spec => []IInv
<1>1. Init => IInv
  BY Beginning DEF CInv
<1>2. IInv /\ [Next]_vars => IInv'
  BY Inductive
<1> QED
  BY <1>1, <1>2, PTL DEF Spec

\* What the counters say is what the routines have to do.
LEMMA CountersRight == ASSUME Settings, IInv PROVE CountersMatchWork
<1> SUFFICES ASSUME NEW f \in Files, state[f].on, ~state[f].err
             PROVE  /\ state[f].copyNeeded = Cardinality(Copying(f)) - Cardinality(Handed(f))
                    /\ state[f].pullNeeded = Cardinality(Handed(f))
                         + Cardinality({b \in Blocks : pulls[f][b] = "request"})
                         + (IF puller.file = f THEN 1 ELSE 0)
  BY DEF CountersMatchWork
<1>1. CountsOf(f)
  BY DEF IInv, Counts
<1>2. /\ \A c \in Copiers : copier[c].file = f => ~Idle(copier[c])
      /\ \A c, d \in Copiers : copier[c].file = f /\ copier[d].file = f => c = d
  BY DEF IInv, Owners, Settings
<1>3. Asked(f) = {b \in Blocks : pulls[f][b] = "request"}
  BY DEF Asked
<1>4. Cardinality({}) = 0 /\ Cardinality({f}) = 1
  BY FS_EmptySet, FS_Singleton
<1>5. Handed(f) = IF Waiting(f) THEN {f} ELSE {}
  BY DEF Handed, Waiting
<1>6. Cardinality(Handed(f)) = IF Waiting(f) THEN 1 ELSE 0
  BY <1>4, <1>5
<1>7. Cardinality(Asked(f)) \in Nat
  BY Counted DEF Asked
<1>8. state[f].pullNeeded = Cardinality(Handed(f)) + Cardinality(Asked(f))
                            + (IF puller.file = f THEN 1 ELSE 0)
  BY <1>1, <1>6, <1>7 DEF CountsOf
<1>9. CASE Copied(f)
  <2>1. Copying(f) = {} /\ ~Waiting(f)
    BY <1>9 DEF Copying, Copied, Waiting
  <2>2. state[f].copyNeeded = 0
    BY <1>1, <1>9 DEF CountsOf
  <2> QED
    BY <1>3, <1>4, <1>6, <1>8, <2>1, <2>2
<1>10. CASE ~Copied(f)
  <2>1. PICK c \in Copiers : copier[c].file = f
    BY <1>10 DEF Copied
  <2>2. {x \in Copiers : copier[x].file = f} = {c}
    BY <1>2, <2>1
  <2>3. Copying(f) = copier[c].todo
    BY <2>2 DEF Copying
  <2>4. Waiting(f) <=> copier[c].at = "pull"
    BY <1>2, <2>1 DEF Waiting
  <2>5. state[f].copyNeeded = Cardinality(copier[c].todo)
                              - (IF copier[c].at = "pull" THEN 1 ELSE 0)
    BY <1>1, <2>1 DEF CountsOf
  <2> QED
    BY <1>3, <1>6, <1>8, <2>3, <2>4, <2>5
<1> QED
  BY <1>9, <1>10

\* When the copiers and the puller are done, so are their files.
LEMMA DryRight ==
  ASSUME Settings, IInv, main \in {"idle", "closeFinisher", "delete"}, NEW f \in Files, state[f].on
  PROVE  state[f].closed
<1>1. Idle(puller) /\ NoPulls /\ \A c \in Copiers : Idle(copier[c])
  BY DEF IInv, Phases
<1>2. puller.file = NoFile /\ \A c \in Copiers : copier[c].file = NoFile
  BY <1>1 DEF IInv, Owners
<1> QED
  BY <1>1, <1>2 DEF IInv, Alive, Copied, NoPulls, Settings

\* The routines that share the state of a file agree on who is done with it: its counters
\* are the blocks that are left for them, when they are done it is closed and not in progress,
\* and nobody has its temporary file open after that (sharedpullerstate.go: copyDone,
\* pullStarted, pullDone, finalClose).
THEOREM SharedStatesAreRight == ASSUME Settings PROVE Spec => []SharedStateRight
<1>1. ASSUME IInv PROVE AllClosed
  <2> SUFFICES ASSUME main \in {"closeFinisher", "delete"}
               PROVE  (\A f \in Files : state[f].on => state[f].closed) /\ queue.progress = <<>>
    BY DEF AllClosed
  <2>1. \A f \in Files : state[f].on => state[f].closed
    BY <1>1, DryRight
  <2>2. \A f \in Files : ~Listed(queue.progress, f)
    BY <1>1, <2>1 DEF IInv, Queues
  <2>3. queue.progress \in Seq(Files)
    BY <1>1 DEF IInv, Shape, Places
  <2>4. ASSUME queue.progress # <<>> PROVE FALSE
    <3>1. 1 \in DOMAIN queue.progress /\ queue.progress[1] \in Files
      BY <2>3, <2>4
    <3> QED
      BY <2>2, <3>1 DEF Listed
  <2> QED
    BY <2>1, <2>4
<1>2. ASSUME IInv PROVE NoStrayWriter
  <2> SUFFICES ASSUME main \in {"idle", "need", "delete"}
               PROVE  Running = {} /\ \A f \in Files : ~state[f].writer
    BY DEF NoStrayWriter
  <2>1. NoPulls
    BY <1>2 DEF IInv, Phases
  <2>2. Running = {}
    BY <2>1 DEF NoPulls, Running
  <2>3. \A f \in Files : state[f].writer => state[f].on /\ ~state[f].closed
    BY <1>2 DEF IInv, Owners
  <2>4. main = "need" => \A f \in Files : ~state[f].on
    BY <1>2 DEF IInv, Phases
  <2>5. main # "need" => \A f \in Files : state[f].on => state[f].closed
    BY <1>2, DryRight
  <2> QED
    BY <2>2, <2>3, <2>4, <2>5
<1>3. IInv => SharedStateRight
  BY <1>1, <1>2, CountersRight DEF SharedStateRight
<1> QED
  BY <1>3, PullerInvariant, PTL

\* With what is on disk it is inductive too, if extending a file does not fail.
LEMMA OnTheWay == ASSUME Settings, ~TruncateFails PROVE Spec => []CInv
<1>1. Init => CInv
  BY Beginning
<1>2. CInv /\ [Next]_vars => CInv'
  BY Inductive, ContentStep, OnDiskStep DEF CInv, IInv
<1> QED
  BY <1>1, <1>2, PTL DEF Spec

\* A file takes its place only with all its blocks, if a temporary file that is created has
\* its size from the start (folder_sendrecv.go: performFinish renames what the shared state
\* says is complete).
THEOREM NoFileIsTorn == ASSUME Settings, ~TruncateFails PROVE Spec => []NoTornFile
<1>1. CInv => NoTornFile
  BY DEF CInv, OnDisk, NoTornFile
<1> QED
  BY <1>1, OnTheWay, PTL

\* Under the same assumption each item is new on disk before the database has it, and
\* between iterations the database has each item that is new.
THEOREM RecordsFollowDisk == ASSUME Settings, ~TruncateFails PROVE Spec => []DatabaseFollowsDisk
<1>1. ASSUME CInv PROVE DatabaseFollowsDisk
  <2>1. main = "idle" => updater.batch = {} /\ finisher.at = "off"
    BY <1>1 DEF CInv, IInv, Phases
  <2> QED
    BY <1>1, <2>1 DEF CInv, OnDisk, DatabaseFollowsDisk
<1> QED
  BY <1>1, OnTheWay, PTL

-----------------------------------------------------------------------------
(* No file is lost *)

InQueue(f) == Listed(queue.queued, f) \/ Listed(queue.progress, f)

\* Somebody has the file who has still to bring it in its place.
Carried(f) ==
  \/ InQueue(f)
  \/ state[f].on /\ ~state[f].closed
  \/ finisher.at = "finish" /\ finisher.file = f
Waits(i) == i \in pending \/ (i \in Files /\ Carried(i))

\* What is on disk is in the database, or on its way there.
Reported(i) == i \in recorded \cup updater.batch \/ (finisher.at = "record" /\ finisher.file = i)
Settled == \A i \in Items : disk[i] # "old" => Reported(i)

\* What waits has neither failed nor come to its place.
NotYet == \A i \in Items : Waits(i) => i \notin failed /\ disk[i] = "old"

\* A file that processNeeded has not come to is nowhere else.
Apart == \A f \in Files : f \in pending => ~state[f].on /\ ~InQueue(f)

\* As long as files are queued, each of them is somewhere.
Somewhere(f) ==
  \/ f \in recorded \cup failed \cup updater.batch \/ state[f].closed
  \/ InQueue(f)
  \/ (main = "need" /\ f \in pending)
NotLost == main \in {"need", "queue", "file"} => \A f \in Files : Somewhere(f)

QInv == Settled /\ NotYet /\ DoneOrFailed /\ Apart /\ NotLost

\* A step that moves no file on: what is done, recorded and failed remains, nobody has a file
\* that nobody had, and files stay in the queue.
Remains(f) ==
  /\ InQueue(f)' <=> InQueue(f)
  /\ Carried(f)' => Carried(f)
  /\ state'[f].on => state[f].on \/ InQueue(f)
  /\ state[f].closed => state'[f].closed \/ InQueue(f)
Unmoved ==
  /\ UNCHANGED <<pending, failed, disk, recorded, updater>>
  /\ finisher' = finisher \/ finisher.at # "record"
  /\ \A f \in Files : Remains(f)
  /\ \/ main' = main
     \/ main' \notin {"need", "queue", "file"}
     \/ main \in {"queue", "file"}
     \/ main = "need" /\ pending \subseteq Deletions

\* Such a step keeps the invariant.
LEMMA UnmovedKeeps == ASSUME Settings, QInv, Unmoved PROVE QInv'
<1>1. Settled'
  BY DEF QInv, Settled, Reported, Unmoved
<1>2. NotYet'
  BY DEF QInv, NotYet, Waits, Unmoved, Remains
<1>3. DoneOrFailed'
  BY DEF QInv, DoneOrFailed, Unmoved
<1>4. Apart'
  BY DEF QInv, Apart, Unmoved, Remains
<1>5. NotLost'
  BY DEF QInv, NotLost, Somewhere, Unmoved, Remains, Settings
<1> QED
  BY <1>1, <1>2, <1>3, <1>4, <1>5 DEF QInv

\* Whoever comes to the finisher with a file leaves it where it is, or closes it.
LEMMA ClosingKeeps ==
  ASSUME Settings, IInv, QInv, NEW f \in Files, state[f].on, finisher.at = "idle", FinalClose(f),
         UNCHANGED <<main, pending, disk, recorded, updater>>
  PROVE  QInv'
<1>1. CASE Stays(f) /\ failed' = failed
  BY <1>1, UnmovedKeeps DEF Stays, Unmoved, Remains, Carried, InQueue
<1>2. CASE Closes(f) /\ failed' = IF state[f].err THEN failed \cup {f} ELSE failed
  <2>1. queue \in Places /\ Distinct(queue.progress) /\ ~Listed(queue.queued, f)
    BY DEF IInv, Shape, Queues
  <2>2. /\ queue'.queued = queue.queued
        /\ \A g : Listed(queue'.progress, g) <=> Listed(queue.progress, g) /\ g # f
    BY <1>2, <2>1, IsDone DEF Closes
  <2>3. \A g \in Files : InQueue(g)' <=> InQueue(g) /\ g # f
    BY <2>1, <2>2 DEF InQueue
  <2>4. /\ f \in Items /\ ~state[f].closed /\ state'[f].closed /\ state'[f].on
        /\ \A g \in Files : g # f => state'[g] = state[g]
    BY <1>2 DEF Closes, OthersSame, Items
  <2>5. f \notin pending /\ f \notin failed /\ disk[f] = "old"
    BY <2>4 DEF QInv, Apart, NotYet, Waits, Carried
  <2>6. \A g \in Files : Carried(g)' => Carried(g) /\ (g = f => ~state[f].err)
    BY <1>2, <2>3, <2>4 DEF Carried, Closes
  <2>7. Settled'
    BY <2>4 DEF QInv, Settled, Reported
  <2>8. NotYet'
    BY <1>2, <2>5, <2>6 DEF QInv, NotYet, Waits
  <2>9. DoneOrFailed'
    BY <1>2, <2>5 DEF QInv, DoneOrFailed
  <2>10. Apart'
    BY <2>3, <2>4, <2>5 DEF QInv, Apart
  <2>11. NotLost'
    BY <1>2, <2>3, <2>4 DEF QInv, NotLost, Somewhere
  <2> QED
    BY <2>7, <2>8, <2>9, <2>10, <2>11 DEF QInv
<1>3. \/ Stays(f) /\ failed' = failed
      \/ Closes(f) /\ failed' = IF state[f].err THEN failed \cup {f} ELSE failed
  BY CloseDoes DEF FinalClose, Stays, Closes
<1> QED
  BY <1>1, <1>2, <1>3

\* A file that is popped goes from one end of the queue to the other.
LEMMA PopKeeps == ASSUME Settings, IInv, QInv, PopFile PROVE QInv'
<1>1. queue \in Places /\ Distinct(queue.queued) /\ Distinct(queue.progress)
      /\ queue.queued # <<>> /\ main = "queue" /\ main' = "file"
      /\ queue'.queued = Tail(queue.queued)
      /\ queue'.progress = Append(queue.progress, Head(queue.queued))
  BY DEF IInv, Shape, Queues, Places, PopFile, CanPop, Pop
<1>2. /\ Head(queue.queued) \in Files /\ Listed(queue.queued, Head(queue.queued))
      /\ \A g : Listed(queue'.queued, g) <=> Listed(queue.queued, g) /\ g # Head(queue.queued)
  BY <1>1, Popping DEF Places
<1>3. ~Listed(queue.progress, Head(queue.queued))
  BY <1>2 DEF IInv, Queues
<1>4. \A g : Listed(queue'.progress, g) <=> Listed(queue.progress, g) \/ g = Head(queue.queued)
  BY <1>1, <1>2, <1>3, Pushed DEF Places
<1>5. \A f \in Files : InQueue(f)' <=> InQueue(f)
  BY <1>2, <1>4 DEF InQueue
<1>6. UNCHANGED <<pending, state, finisher, updater, disk, recorded, failed>>
  BY DEF PopFile
<1> QED
  BY <1>1, <1>5, <1>6, UnmovedKeeps DEF Unmoved, Remains, Carried

\* A file that is given up, or becomes another one that was to be deleted, is not in the queue any more.
LEMMA AbandonDoes ==
  ASSUME Settings, IInv, main = "file", queue' = Done(queue, Popped), state' = state
  PROVE  /\ Popped \in Files /\ InQueue(Popped)
         /\ \A f \in Files : InQueue(f)' <=> InQueue(f) /\ f # Popped
         /\ ~state[Popped].on /\ finisher.file # Popped
<1>1. /\ queue \in Places /\ Distinct(queue.progress) /\ queue.progress # <<>> /\ ~state[Popped].on
      /\ \A f \in Files : Listed(queue.queued, f) => ~Listed(queue.progress, f)
  BY DEF IInv, Shape, Queues
<1>2. Popped \in Files /\ Listed(queue.progress, Popped)
  BY <1>1 DEF Popped, Listed, Places
<1>3. /\ queue'.queued = queue.queued
      /\ \A g : Listed(queue'.progress, g) <=> Listed(queue.progress, g) /\ g # Popped
  BY <1>1, IsDone
<1>4. finisher.file # Popped
  BY <1>1, <1>2 DEF IInv, Owners, Settings
<1> QED
  BY <1>1, <1>2, <1>3, <1>4 DEF InQueue

\* What is to be deleted or needs no blocks is no file, and is either done or fails.
LEMMA ItemKeeps ==
  ASSUME Settings, IInv, QInv, NEW i \in pending \cap (Shortcuts \cup Deletions),
         main \in {"need", "delete"}, UNCHANGED <<main, queue, state, finisher, recorded>>,
         pending' = pending \ {i},
         \/ disk' = [disk EXCEPT ![i] = "new"] /\ Record(i) /\ UNCHANGED failed
         \/ failed' = failed \cup {i} /\ UNCHANGED <<disk, updater>>
  PROVE  QInv'
<1>1. i \in Items /\ i \notin Files /\ disk \in [Items -> {"old", "new", "torn"}] /\ updater \in Updating
  BY DEF Items, Settings, IInv, Shape
<1>2. i \notin failed /\ disk[i] = "old"
  BY <1>1 DEF QInv, NotYet, Waits
<1>3. \A j \in Items \ {i} : /\ disk'[j] = disk[j] /\ (j \in failed' <=> j \in failed)
  BY <1>1
<1>4. updater.batch \subseteq updater'.batch /\ (disk'[i] # "old" => i \in updater'.batch /\ failed' = failed)
  BY <1>1, <1>2 DEF Record, Updating
<1>5. \A f \in Files : (InQueue(f)' <=> InQueue(f)) /\ (Carried(f)' <=> Carried(f)) /\ f # i
  BY <1>1 DEF InQueue, Carried
<1>6. Settled'
  BY <1>3, <1>4 DEF QInv, Settled, Reported
<1>7. NotYet'
  BY <1>1, <1>3, <1>5 DEF QInv, NotYet, Waits
<1>8. DoneOrFailed'
  BY <1>1, <1>2, <1>3, <1>4 DEF QInv, DoneOrFailed
<1>9. Apart'
  BY <1>5 DEF QInv, Apart
<1>10. NotLost'
  <2>1. \A f \in Files : Somewhere(f) => Somewhere(f)'
    BY <1>3, <1>4, <1>5 DEF Somewhere, Items
  <2> QED
    BY <2>1 DEF QInv, NotLost
<1> QED
  BY <1>6, <1>7, <1>8, <1>9, <1>10 DEF QInv

\* Each step keeps each file in its place, or moves it to the next one.
LEMMA NotLostStep == ASSUME Settings, IInv, IInv', QInv, [Next]_vars PROVE QInv'
<1>t. /\ queue \in Places /\ state \in [Files -> Sharing] /\ finisher \in Finishing
      /\ disk \in [Items -> {"old", "new", "torn"}] /\ updater \in Updating
      /\ pending \subseteq Items
  BY DEF IInv, Shape
<1>o. /\ \A c \in Copiers : copier[c].at = "out" =>
           copier[c].file \in Files /\ state[copier[c].file].on
      /\ puller.at = "out" => puller.file \in Files /\ state[puller.file].on
      /\ \A f \in Files, b \in Blocks : pulls[f][b] # "none" => state[f].on
      /\ finisher.at \in {"finish", "record"} =>
           finisher.file \in Files /\ state[finisher.file].on /\ state[finisher.file].closed
  BY DEF IInv, Owners, Idle
<1>e. \A f : ~Listed(<<>>, f)
  BY DEF Listed
<1>s. \* Steps that leave the queue and who has which file alone
      ASSUME UNCHANGED <<queue, pending, failed, disk, recorded, updater>>,
             finisher' = finisher \/ (finisher.at = "idle" /\ finisher'.at = "off"),
             \A f \in Files : state'[f].on = state[f].on /\ state'[f].closed = state[f].closed,
             main' = main \/ main' \notin {"need", "queue", "file"}
               \/ (main = "need" /\ pending \subseteq Deletions)
      PROVE  QInv'
  BY <1>s, UnmovedKeeps DEF Unmoved, Remains, Carried, InQueue
<1>1. CASE BeginIteration
  <2>1. /\ updater.batch = {} /\ finisher.at = "off" /\ queue = Empty
    BY <1>1 DEF BeginIteration, IInv, Phases
  <2>2. /\ pending' = Items \ recorded /\ failed' = {} /\ updater'.batch = {} /\ recorded' = recorded
        /\ disk' = disk /\ queue' = queue /\ finisher'.at = "idle"
        /\ \A f \in Files : ~state'[f].on
    BY <1>1 DEF BeginIteration, IdleFinisher, Unused
  <2>3. \A f \in Files : ~InQueue(f)' /\ ~Carried(f)'
    BY <2>1, <2>2, <1>e DEF InQueue, Carried, Empty
  <2>4. \A i \in Items \ recorded : disk[i] = "old"
    BY <2>1 DEF QInv, Settled, Reported
  <2>5. Settled'
    BY <2>2, <2>4 DEF Settled, Reported
  <2>6. NotYet' /\ DoneOrFailed'
    BY <2>2, <2>3, <2>4 DEF NotYet, Waits, DoneOrFailed
  <2>7. Apart' /\ NotLost'
    BY <1>1, <2>2, <2>3 DEF Apart, NotLost, Somewhere, BeginIteration, Items
  <2> QED
    BY <2>5, <2>6, <2>7 DEF QInv
<1>2. CASE ProcessQueue
  BY <1>2, <1>s DEF ProcessQueue
<1>3. CASE PopFile
  BY <1>3, PopKeeps
<1>4. CASE GiveUpFile
  <2>1. /\ main = "file" /\ queue' = Done(queue, Popped) /\ failed' = failed \cup {Popped}
        /\ UNCHANGED <<state, pending, finisher, updater, disk, recorded>>
    BY <1>4 DEF GiveUpFile, Abandon
  <2>2. /\ Popped \in Files /\ InQueue(Popped) /\ Popped \in Items
        /\ \A f \in Files : InQueue(f)' <=> InQueue(f) /\ f # Popped
        /\ ~state[Popped].on /\ finisher.file # Popped
    BY <2>1, AbandonDoes DEF Items
  <2>3. disk[Popped] = "old" /\ Popped \notin pending
    BY <2>2 DEF QInv, NotYet, Waits, Carried, Apart
  <2>4. \A f \in Files : Carried(f)' => Carried(f) /\ f # Popped
    BY <2>1, <2>2 DEF Carried
  <2>5. Settled' /\ Apart'
    BY <2>1, <2>2 DEF QInv, Settled, Reported, Apart
  <2>6. NotYet' /\ DoneOrFailed'
    BY <2>1, <2>2, <2>3, <2>4 DEF QInv, NotYet, Waits, DoneOrFailed
  <2>7. NotLost'
    BY <2>1, <2>2 DEF QInv, NotLost, Somewhere
  <2> QED
    BY <2>5, <2>6, <2>7 DEF QInv
<1>5. CASE CloseCopyChan
  BY <1>5, <1>s DEF CloseCopyChan
<1>6. CASE ClosePullChan
  BY <1>6, <1>s DEF ClosePullChan
<1>7. CASE CloseFinisherChan
  BY <1>7, <1>s DEF CloseFinisherChan
<1>8. CASE FinisherDone
  BY <1>8, <1>s DEF FinisherDone, IdleFinisher
<1>9. CASE EndIteration
  <2>1. /\ finisher.at = "off" /\ finisher' = finisher /\ recorded' = recorded \cup updater.batch
        /\ queue' = Empty /\ pending' = {} /\ main' = "idle"
        /\ UNCHANGED <<state, disk, failed>>
    BY <1>9 DEF EndIteration, LastBatch, IInv, Phases
  <2>2. \A f \in Files : ~InQueue(f)' /\ (Carried(f)' => Carried(f))
    BY <2>1, <1>e DEF InQueue, Carried, Empty
  <2>3. Settled'
    BY <2>1 DEF QInv, Settled, Reported
  <2>4. NotYet' /\ DoneOrFailed'
    BY <2>1, <2>2 DEF QInv, NotYet, Waits, DoneOrFailed
  <2>5. Apart' /\ NotLost'
    BY <2>1 DEF Apart, NotLost
  <2> QED
    BY <2>3, <2>4, <2>5 DEF QInv
<1>10. ASSUME NEW f \in Files, NeedFile(f) PROVE QInv'
  <2>1. /\ main = "need" /\ main' = main /\ f \in pending /\ pending' = pending \ {f}
        /\ queue'.queued = Append(queue.queued, f) /\ queue'.progress = queue.progress
        /\ UNCHANGED <<state, finisher, updater, disk, recorded, failed>>
    BY <1>10, <1>t DEF NeedFile, Push, Places
  <2>2. ~state[f].on /\ ~InQueue(f) /\ f \in Items
    BY <2>1 DEF QInv, Apart, Items
  <2>3. \A g \in Files : InQueue(g)' <=> InQueue(g) \/ g = f
    <3>1. \A g : Listed(queue'.queued, g) <=> Listed(queue.queued, g) \/ g = f
      BY <1>t, <2>1, <2>2, Pushed DEF InQueue, IInv, Queues, Places
    <3> QED
      BY <2>1, <3>1 DEF InQueue
  <2>4. \A g \in Files : Carried(g)' => Carried(g) \/ g = f
    BY <2>1, <2>3 DEF Carried
  <2>5. Settled' /\ DoneOrFailed'
    BY <2>1 DEF QInv, Settled, Reported, DoneOrFailed
  <2>6. NotYet'
    BY <2>1, <2>2, <2>4 DEF QInv, NotYet, Waits
  <2>7. Apart'
    BY <2>1, <2>3 DEF QInv, Apart
  <2>8. NotLost'
    BY <2>1, <2>3 DEF QInv, NotLost, Somewhere
  <2> QED
    BY <2>5, <2>6, <2>7, <2>8 DEF QInv
<1>11. ASSUME NEW i \in Shortcuts, NeedShortcut(i) PROVE QInv'
  BY <1>11, ItemKeeps DEF NeedShortcut
<1>12. ASSUME NEW i \in Deletions, DeleteFile(i) PROVE QInv'
  BY <1>12, ItemKeeps DEF DeleteFile
<1>13. ASSUME NEW d \in Deletions, RenameFile(d) PROVE QInv'
  <2>1. /\ main = "file" /\ main' = "queue" /\ queue' = Done(queue, Popped) /\ d \in pending
        /\ disk' = [disk EXCEPT ![Popped] = "new", ![d] = "new"]
        /\ updater'.batch = updater.batch \cup {Popped, d} /\ pending' = pending \ {d}
        /\ UNCHANGED <<state, finisher, recorded, failed>>
    BY <1>13, <1>t DEF RenameFile, Updating
  <2>2. /\ Popped \in Files /\ InQueue(Popped) /\ Popped \in Items /\ d \in Items /\ d \notin Files
        /\ \A f \in Files : InQueue(f)' <=> InQueue(f) /\ f # Popped
        /\ ~state[Popped].on /\ finisher.file # Popped
    BY <2>1, AbandonDoes DEF Items, Settings
  <2>3. Popped \notin failed /\ d \notin failed /\ Popped \notin pending
    BY <2>1, <2>2 DEF QInv, NotYet, Waits, Carried, Apart
  <2>4. \A f \in Files : Carried(f)' => Carried(f) /\ f # Popped
    BY <2>1, <2>2 DEF Carried
  <2>5. \A i \in Items \ {Popped, d} : disk'[i] = disk[i]
    BY <1>t, <2>1
  <2>6. Settled'
    BY <2>1, <2>5 DEF QInv, Settled, Reported
  <2>7. NotYet'
    BY <2>1, <2>2, <2>3, <2>4, <2>5 DEF QInv, NotYet, Waits
  <2>8. DoneOrFailed'
    BY <2>1, <2>3, <2>5 DEF QInv, DoneOrFailed
  <2>9. Apart'
    BY <2>1, <2>2 DEF QInv, Apart
  <2>10. NotLost'
    BY <2>1, <2>2 DEF QInv, NotLost, Somewhere
  <2> QED
    BY <2>6, <2>7, <2>8, <2>9, <2>10 DEF QInv
<1>14. ASSUME NEW x \in Copiers, HandleFile(x) PROVE QInv'
  <2>1. /\ UNCHANGED <<queue, pending, failed, disk, recorded, updater, finisher>>
        /\ Popped \in Files /\ main = "file" /\ main' = "queue" /\ OthersSame(Popped)
    BY <1>14, HandleDoes DEF HandleFile
  <2>2. InQueue(Popped)
    BY <2>1 DEF InQueue, Popped, Listed, IInv, Queues, Shape, Places
  <2>3. \A f \in Files : Remains(f)
    BY <2>1, <2>2 DEF Remains, Carried, InQueue, OthersSame
  <2> QED
    BY <2>1, <2>3, UnmovedKeeps DEF Unmoved
<1>15. ASSUME NEW x \in Copiers, StartCopy(x) PROVE QInv'
  BY <1>15, <1>s, StartDoes DEF StartCopy, SameFile, OthersSame
<1>16. ASSUME NEW x \in Copiers, CopyBlock(x) PROVE QInv'
  BY <1>16, <1>s, CopyDoes DEF CopyBlock, SameFile, OthersSame
<1>17. ASSUME NEW x \in Copiers, BeginPull(x) PROVE QInv'
  <2>1. UNCHANGED <<queue, pending, failed, disk, recorded, updater, finisher, main>>
    BY <1>17 DEF BeginPull
  <2>2. \A f \in Files : state'[f].on = state[f].on /\ state'[f].closed = state[f].closed
    BY <1>17, BeginPullDoes DEF SameFile, OthersSame
  <2> QED
    BY <2>1, <2>2, <1>s
<1>18. ASSUME NEW x \in Copiers, SendPull(x) PROVE QInv'
  BY <1>18, <1>s DEF SendPull
<1>19. ASSUME NEW x \in Copiers, CopierDone(x) PROVE QInv'
  BY <1>19, <1>s DEF CopierDone
<1>20. ASSUME NEW x \in Copiers, ReceiveFromCopier(x) PROVE QInv'
  BY <1>20, <1>o, ClosingKeeps DEF ReceiveFromCopier
<1>21. CASE StartPull
  BY <1>21, <1>s, StartPullDoes DEF StartPull, SameFile, OthersSame
<1>22. CASE ReceiveFromPuller
  BY <1>22, <1>o, ClosingKeeps DEF ReceiveFromPuller
<1>23. ASSUME NEW f \in Files, NEW b \in Blocks, PullBlock(f, b) PROVE QInv'
  <2>1. \A g \in Files : state'[g].on = state[g].on /\ state'[g].closed = state[g].closed
    BY <1>23, PullBlockDoes DEF SameFile, OthersSame
  <2> QED
    BY <1>23, <1>s, <2>1 DEF PullBlock
<1>24. ASSUME NEW f \in Files, NEW b \in Blocks, ReceiveFromPull(f, b) PROVE QInv'
  BY <1>24, <1>o, ClosingKeeps DEF ReceiveFromPull
<1>25. CASE Finish
  <2> DEFINE f == finisher.file
  <2>1. /\ f \in Files /\ f \in Items /\ state[f].on /\ state[f].closed /\ Carried(f)
        /\ UNCHANGED <<main, queue, pending, state, updater, recorded>>
    BY <1>25, <1>o DEF Finish, Items, Carried
  <2>2. /\ ~InQueue(f)
        /\ f \notin pending /\ f \notin failed /\ disk[f] = "old"
    BY <2>1 DEF QInv, Apart, NotYet, Waits, InQueue, IInv, Queues
  <2>3. /\ finisher'.at # "finish" /\ \A i \in Items \ {f} : disk'[i] = disk[i]
        /\ \/ failed' = failed /\ finisher'.at = "record" /\ finisher'.file = f
           \/ failed' = failed \cup {f} /\ disk' = disk
    BY <1>25, <1>t, <2>1 DEF Finish, Finishing, IdleFinisher
  <2>4. \A g \in Files : /\ InQueue(g)' <=> InQueue(g)
                         /\ Carried(g)' => Carried(g) /\ g # f
    BY <2>1, <2>2, <2>3 DEF InQueue, Carried
  <2>5. finisher.at = "finish"
    BY <1>25 DEF Finish
  <2> HIDE DEF f
  <2>6. Settled'
    BY <2>1, <2>2, <2>3, <2>5 DEF QInv, Settled, Reported
  <2>7. NotYet'
    BY <2>1, <2>2, <2>3, <2>4 DEF QInv, NotYet, Waits
  <2>8. DoneOrFailed'
    BY <2>2, <2>3 DEF QInv, DoneOrFailed
  <2>9. Apart' /\ NotLost'
    BY <2>1, <2>3, <2>4 DEF QInv, Apart, NotLost, Somewhere
  <2> QED
    BY <2>6, <2>7, <2>8, <2>9 DEF QInv
<1>26. CASE FinishRecord
  <2>1. /\ updater'.batch = updater.batch \cup {finisher.file} /\ finisher'.at = "idle"
        /\ finisher.at = "record"
        /\ UNCHANGED <<main, queue, pending, state, disk, recorded, failed>>
    BY <1>26, <1>t DEF FinishRecord, Record, Updating, IdleFinisher
  <2>2. \A g \in Files : (InQueue(g)' <=> InQueue(g)) /\ (Carried(g)' => Carried(g))
    BY <2>1 DEF InQueue, Carried
  <2>3. Settled' /\ NotYet' /\ DoneOrFailed'
    BY <2>1, <2>2 DEF QInv, Settled, Reported, NotYet, Waits, DoneOrFailed
  <2>4. Apart' /\ NotLost'
    BY <2>1, <2>2 DEF QInv, Apart, NotLost, Somewhere
  <2> QED
    BY <2>3, <2>4 DEF QInv
<1>27. CASE Flush
  <2>1. /\ recorded' = recorded \cup updater.batch
        /\ UNCHANGED <<main, queue, pending, state, finisher, disk, failed>>
    BY <1>27 DEF Flush
  <2>2. \A g \in Files : (InQueue(g)' <=> InQueue(g)) /\ (Carried(g)' => Carried(g))
    BY <2>1 DEF InQueue, Carried
  <2>3. Settled' /\ NotYet' /\ DoneOrFailed'
    BY <2>1, <2>2 DEF QInv, Settled, Reported, NotYet, Waits, DoneOrFailed
  <2>4. Apart' /\ NotLost'
    BY <2>1, <2>2 DEF QInv, Apart, NotLost, Somewhere
  <2> QED
    BY <2>3, <2>4 DEF QInv
<1>28. CASE Stop
  BY <1>28, <1>s DEF Stop
<1>29. ASSUME NEW f \in Files, MoveToFront(f) PROVE QInv'
  <2>1. queue' = BringToFront(queue, f)
        /\ UNCHANGED <<main, state, pending, failed, disk, recorded, updater, finisher>>
    BY <1>29 DEF MoveToFront
  <2>2. \A g \in Files : InQueue(g)' <=> InQueue(g)
    BY <1>t, <2>1, ToTheFront DEF InQueue, IInv, Queues
  <2> QED
    BY <2>1, <2>2, UnmovedKeeps DEF Unmoved, Remains, Carried
<1>30. CASE UNCHANGED vars
  BY <1>30, <1>s DEF vars
<1> QED
  BY <1>1, <1>2, <1>3, <1>4, <1>5, <1>6, <1>7, <1>8, <1>9, <1>10, <1>11, <1>12, <1>13,
     <1>14, <1>15, <1>16, <1>17, <1>18, <1>19, <1>20, <1>21, <1>22, <1>23, <1>24, <1>25,
     <1>26, <1>27, <1>28, <1>29, <1>30 DEF Next, Main, Copy, Pull, PullOne

\* A slice of a sequence.
LEMMA Sliced ==
  ASSUME NEW S, NEW s \in Seq(S), NEW k \in Nat, NEW n \in Nat, k + n <= Len(s)
  PROVE  /\ SubSeq(s, k + 1, k + n) \in Seq(S) /\ Len(SubSeq(s, k + 1, k + n)) = n
         /\ \A i \in 1..n : SubSeq(s, k + 1, k + n)[i] = s[k + i]
<1>1. \A i \in (k + 1)..(k + n) : s[i] \in S
  <2>1. \A i \in (k + 1)..(k + n) : i \in 1..Len(s)
    OBVIOUS
  <2> QED
    BY <2>1, ElementOfSeq
<1>2. k + 1 \in Int /\ k + n \in Int
  OBVIOUS
<1>3. /\ SubSeq(s, k + 1, k + n) \in Seq(S)
      /\ Len(SubSeq(s, k + 1, k + n)) = IF k + 1 <= k + n THEN (k + n) - (k + 1) + 1 ELSE 0
      /\ \A i \in 1..((k + n) - (k + 1) + 1) : SubSeq(s, k + 1, k + n)[i] = s[(k + 1) + i - 1]
  BY <1>1, <1>2, SubSeqProperties
<1>4. (k + n) - (k + 1) + 1 = n /\ \A i \in 1..n : (k + 1) + i - 1 = k + i
  OBVIOUS
<1>5. (IF k + 1 <= k + n THEN (k + n) - (k + 1) + 1 ELSE 0) = n
  OBVIOUS
<1> QED
  BY <1>3, <1>4, <1>5

\* A slice of two sequences, one after the other, is a slice of the first one, of the second
\* one, or the end of the first one and the beginning of the second one.
LEMMA SliceOfFirst ==
  ASSUME NEW S, NEW s \in Seq(S), NEW t \in Seq(S), NEW k \in Nat, NEW n \in Nat, k + n <= Len(s)
  PROVE  SubSeq(s \o t, k + 1, k + n) = SubSeq(s, k + 1, k + n)
<1> DEFINE a == SubSeq(s \o t, k + 1, k + n)
           b == SubSeq(s, k + 1, k + n)
<1>1. /\ s \o t \in Seq(S) /\ Len(s \o t) = Len(s) + Len(t) /\ Len(s) \in Nat /\ Len(t) \in Nat
      /\ \A i \in 1..(Len(s) + Len(t)) : (s \o t)[i] = IF i <= Len(s) THEN s[i] ELSE t[i - Len(s)]
  BY ConcatProperties, LenProperties
<1>2. a \in Seq(S) /\ Len(a) = n /\ \A i \in 1..n : a[i] = (s \o t)[k + i]
  <2>1. k + n <= Len(s \o t)
    BY <1>1
  <2> QED
    BY <1>1, <2>1, Sliced
<1>3. b \in Seq(S) /\ Len(b) = n /\ \A i \in 1..n : b[i] = s[k + i]
  BY Sliced
<1>4. \A i \in 1..n : (s \o t)[k + i] = s[k + i]
  BY <1>1
<1> HIDE DEF a, b
<1>5. a = b
  BY <1>2, <1>3, <1>4, SeqEqual
<1> QED
  BY <1>5 DEF a, b

\* A slice of two sequences that begins in the second is one of the second.
LEMMA SliceOfSecond ==
  ASSUME NEW S, NEW s \in Seq(S), NEW t \in Seq(S), NEW l \in Nat, NEW n \in Nat, l + n <= Len(t)
  PROVE  SubSeq(s \o t, Len(s) + l + 1, Len(s) + l + n) = SubSeq(t, l + 1, l + n)
<1> DEFINE k == Len(s) + l
           a == SubSeq(s \o t, k + 1, k + n)
           b == SubSeq(t, l + 1, l + n)
<1>1. /\ s \o t \in Seq(S) /\ Len(s \o t) = Len(s) + Len(t) /\ Len(s) \in Nat /\ Len(t) \in Nat
      /\ \A i \in 1..(Len(s) + Len(t)) : (s \o t)[i] = IF i <= Len(s) THEN s[i] ELSE t[i - Len(s)]
  BY ConcatProperties, LenProperties
<1>2. k \in Nat /\ k + n <= Len(s \o t)
  BY <1>1
<1>3. \A i \in 1..n : (s \o t)[k + i] = t[l + i]
  <2>1. ASSUME NEW i \in 1..n PROVE (s \o t)[k + i] = t[l + i]
    <3>1. /\ k + i \in 1..(Len(s) + Len(t)) /\ ~(k + i <= Len(s)) /\ (k + i) - Len(s) = l + i
      BY <1>1
    <3> QED
      BY <1>1, <3>1
  <2> QED
    BY <2>1
<1>4. b \in Seq(S) /\ Len(b) = n /\ \A i \in 1..n : b[i] = t[l + i]
  BY Sliced
<1> HIDE DEF k, b
<1>5. a \in Seq(S) /\ Len(a) = n /\ \A i \in 1..n : a[i] = (s \o t)[k + i]
  BY <1>1, <1>2, Sliced
<1> HIDE DEF a
<1>6. a = b
  BY <1>3, <1>4, <1>5, SeqEqual
<1> QED
  BY <1>6 DEF a, b, k

\* A slice of two sequences that begins in the first and ends in the second.
SlicesMeet(s, t, k, n) ==
  SubSeq(s \o t, k + 1, Len(s) + n) = SubSeq(s, k + 1, Len(s)) \o SubSeq(t, 1, n)

\* It is a slice of the first and one of the second.
LEMMA SliceOfBoth ==
  ASSUME NEW S, NEW s \in Seq(S), NEW t \in Seq(S), NEW k \in Nat, NEW n \in Nat,
         k <= Len(s), n <= Len(t)
  PROVE  SlicesMeet(s, t, k, n)
<1> DEFINE m == Len(s) - k
           a == SubSeq(s \o t, k + 1, k + (m + n))
           b == SubSeq(s, k + 1, k + m)
           c == SubSeq(t, 1, n)
<1>1. /\ s \o t \in Seq(S) /\ Len(s \o t) = Len(s) + Len(t) /\ Len(s) \in Nat /\ Len(t) \in Nat
      /\ \A i \in 1..(Len(s) + Len(t)) : (s \o t)[i] = IF i <= Len(s) THEN s[i] ELSE t[i - Len(s)]
  BY ConcatProperties, LenProperties
<1>2. /\ m \in Nat /\ k + m = Len(s) /\ k + (m + n) = Len(s) + n /\ m + n \in Nat
      /\ k + (m + n) <= Len(s \o t) /\ k + m <= Len(s)
  BY <1>1
<1> HIDE DEF m
<1>3. a \in Seq(S) /\ Len(a) = m + n /\ \A i \in 1..(m + n) : a[i] = (s \o t)[k + i]
  <2> DEFINE both == s \o t
             length == m + n
  <2>1. both \in Seq(S) /\ length \in Nat /\ k + length <= Len(both)
    BY <1>1, <1>2
  <2>2. a = SubSeq(both, k + 1, k + length)
    OBVIOUS
  <2> HIDE DEF both, length, a
  <2>3. a \in Seq(S) /\ Len(a) = length /\ \A i \in 1..length : a[i] = both[k + i]
    BY <2>1, <2>2, Sliced
  <2> QED
    BY <2>3 DEF both, length
<1>4. b \in Seq(S) /\ Len(b) = m /\ \A i \in 1..m : b[i] = s[k + i]
  <2>1. m \in Nat /\ k + m <= Len(s)
    BY <1>2
  <2>2. b = SubSeq(s, k + 1, k + m)
    OBVIOUS
  <2> HIDE DEF b
  <2> QED
    BY <2>1, <2>2, Sliced
<1>5. c \in Seq(S) /\ Len(c) = n /\ \A i \in 1..n : c[i] = t[i]
  <2>1. \A i \in 1..n : t[i] \in S
    <3>1. \A i \in 1..n : i \in 1..Len(t)
      BY <1>1
    <3> QED
      BY <3>1, ElementOfSeq
  <2>2. /\ c \in Seq(S) /\ Len(c) = IF 1 <= n THEN n - 1 + 1 ELSE 0
        /\ \A i \in 1..(n - 1 + 1) : c[i] = t[1 + i - 1]
    BY <2>1, SubSeqProperties
  <2>3. n - 1 + 1 = n /\ (IF 1 <= n THEN n - 1 + 1 ELSE 0) = n /\ \A i \in 1..n : 1 + i - 1 = i
    OBVIOUS
  <2> QED
    BY <2>2, <2>3
<1> HIDE DEF a, b, c
<1>6. /\ b \o c \in Seq(S) /\ Len(b \o c) = m + n
      /\ \A i \in 1..(m + n) : (b \o c)[i] = IF i <= m THEN b[i] ELSE c[i - m]
  BY <1>4, <1>5, ConcatProperties
<1>7. ASSUME NEW i \in 1..(m + n) PROVE a[i] = (b \o c)[i]
  <2>1. k + i \in 1..(Len(s) + Len(t)) /\ (k + i <= Len(s) <=> i <= m)
    BY <1>1, <1>2
  <2>2. CASE i <= m
    <3>1. i \in 1..m
      BY <1>2, <2>2
    <3> QED
      BY <1>1, <1>3, <1>4, <1>6, <2>1, <2>2, <3>1
  <2>3. CASE ~(i <= m)
    <3>1. i - m \in 1..n
      BY <1>2, <2>3
    <3>2. (k + i) - Len(s) = i - m
      <4>1. Len(s) = k + m /\ i \in Int /\ m \in Nat
        BY <1>2
      <4> QED
        BY <4>1
    <3>3. a[i] = (s \o t)[k + i] /\ (b \o c)[i] = c[i - m]
      BY <1>3, <1>6, <2>3
    <3>4. (s \o t)[k + i] = t[(k + i) - Len(s)]
      BY <1>1, <2>1, <2>3
    <3> QED
      BY <1>5, <3>1, <3>2, <3>3, <3>4
  <2> QED
    BY <2>2, <2>3
<1>8. a = b \o c
  BY <1>3, <1>6, <1>7, SeqEqual
<1> QED
  BY <1>2, <1>8 DEF a, b, c, SlicesMeet

\* A page is the slice of what is in progress and what is queued after it.
LEMMA JobsAreSlices ==
  ASSUME NEW S, NEW q, q.progress \in Seq(S), q.queued \in Seq(S),
         NEW page \in Nat \ {0}, NEW perpage \in Nat \ {0}
  PROVE  LET all == q.progress \o q.queued
             skip == (page - 1) * perpage
             jobs == Jobs(q, page, perpage)
         IN  jobs.progress \o jobs.queued
               = SubSeq(all, skip + 1,
                        IF skip + perpage < Len(all) THEN skip + perpage ELSE Len(all))
<1> DEFINE p == q.progress
           w == q.queued
           all == p \o w
           skip == (page - 1) * perpage
           jobs == Jobs(q, page, perpage)
           last == IF skip + perpage < Len(all) THEN skip + perpage ELSE Len(all)
           plen == Len(p)
           progress == IF plen > skip THEN SubSeq(p, skip + 1, plen) ELSE <<>>
           left == IF plen > skip THEN 0 ELSE skip - plen
           room == IF Len(w) - left < perpage - Len(progress)
                   THEN Len(w) - left ELSE perpage - Len(progress)
<1>1. jobs = IF plen + Len(w) <= skip THEN [progress |-> <<>>, queued |-> <<>>]
             ELSE IF plen >= skip + perpage
             THEN [progress |-> SubSeq(p, skip + 1, skip + perpage), queued |-> <<>>]
             ELSE [progress |-> progress, queued |-> SubSeq(w, left + 1, left + room)]
  BY DEF Jobs
<1>2. skip \in Nat
  <2>1. page - 1 \in Nat
    OBVIOUS
  <2>2. \A a, b \in Nat : a * b \in Nat
    OBVIOUS
  <2> QED
    BY <2>1, <2>2
<1>3. p \in Seq(S) /\ w \in Seq(S)
  OBVIOUS
<1> SUFFICES jobs.progress \o jobs.queued = SubSeq(all, skip + 1, last)
  OBVIOUS
<1> HIDE DEF p, w, skip, jobs
<1>4. Len(all) = plen + Len(w) /\ plen \in Nat /\ Len(w) \in Nat
  BY <1>3, ConcatProperties, LenProperties
<1>5. CASE plen + Len(w) <= skip
  <2>1. jobs.progress = <<>> /\ jobs.queued = <<>>
    BY <1>1, <1>5
  <2>2. SubSeq(all, skip + 1, last) = <<>>
    <3>1. skip + 1 \in Int /\ last \in Int /\ last < skip + 1
      BY <1>2, <1>4, <1>5
    <3> QED
      BY <3>1, SubSeqEmpty
  <2> QED
    BY <2>1, <2>2, ConcatEmptySeq, EmptySeq
<1>6. CASE plen + Len(w) > skip /\ plen >= skip + perpage
  <2>1. jobs.progress = SubSeq(p, skip + 1, skip + perpage) /\ jobs.queued = <<>>
    BY <1>1, <1>2, <1>4, <1>6
  <2>2. last = skip + perpage /\ perpage \in Nat /\ skip + perpage <= Len(p)
    BY <1>2, <1>4, <1>6
  <2>3. SubSeq(all, skip + 1, last) = SubSeq(p, skip + 1, skip + perpage)
    BY <1>2, <1>3, <2>2, SliceOfFirst
  <2>4. SubSeq(p, skip + 1, skip + perpage) \in Seq(S)
    BY <1>2, <1>3, <2>2, Sliced
  <2> QED
    BY <2>1, <2>3, <2>4, ConcatEmptySeq
<1>7. CASE plen + Len(w) > skip /\ plen < skip + perpage
  <2>1. jobs.progress = progress /\ jobs.queued = SubSeq(w, left + 1, left + room)
    <3> HIDE DEF progress, left, room, all
    <3>1. ~(plen + Len(w) <= skip) /\ ~(plen >= skip + perpage)
      BY <1>2, <1>4, <1>7
    <3>2. jobs = [progress |-> progress, queued |-> SubSeq(w, left + 1, left + room)]
      BY <1>1, <3>1
    <3> QED
      BY <3>2
  <2>2. CASE plen > skip
    <3>1. progress = SubSeq(p, skip + 1, Len(p)) /\ left = 0
      BY <2>2
    <3>2. Len(progress) = plen - skip
      <4> DEFINE n == plen - skip
      <4>1. n \in Nat /\ skip + n = Len(p) /\ skip + n <= Len(p)
        BY <1>2, <1>4, <2>2
      <4> HIDE DEF progress, n
      <4>2. Len(SubSeq(p, skip + 1, skip + n)) = n
        BY <1>2, <1>3, <4>1, Sliced
      <4>3. Len(progress) = n
        BY <3>1, <4>1, <4>2
      <4> QED
        BY <4>3 DEF n
    <3> HIDE DEF progress, left, all
    <3>3. room \in Nat /\ room <= Len(w) /\ last = Len(p) + room /\ skip <= Len(p)
          /\ left + 1 = 1 /\ left + room = room
      <4>1. left = 0
        BY <3>1
      <4>2. room = IF Len(w) < perpage - (plen - skip) THEN Len(w) ELSE perpage - (plen - skip)
        BY <1>4, <3>2, <4>1
      <4> HIDE DEF room
      <4> QED
        BY <1>2, <1>4, <1>7, <2>2, <4>1, <4>2
    <3> HIDE DEF room, last
    <3>4. SubSeq(all, skip + 1, Len(p) + room) = SubSeq(p, skip + 1, Len(p)) \o SubSeq(w, 1, room)
      <4>1. room \in Nat /\ room <= Len(w) /\ skip <= Len(p)
        BY <3>3
      <4>2. SubSeq(p \o w, skip + 1, Len(p) + room) = SubSeq(p, skip + 1, Len(p)) \o SubSeq(w, 1, room)
        <5>1. skip \in Nat /\ p \in Seq(S) /\ w \in Seq(S)
          BY <1>2, <1>3
        <5>2. SlicesMeet(p, w, skip, room)
          BY <4>1, <5>1, SliceOfBoth
        <5> QED
          BY <5>2 DEF SlicesMeet
      <4> QED
        BY <4>2 DEF all
    <3> QED
      BY <2>1, <3>1, <3>3, <3>4
  <2>3. CASE plen <= skip
    <3>1. progress = <<>> /\ left = skip - plen /\ left \in Nat /\ Len(progress) = 0
      <4>1. ~(plen > skip) /\ skip - plen \in Nat
        BY <1>2, <1>4, <2>3
      <4> QED
        BY <4>1, EmptySeq
    <3> HIDE DEF progress, left
    <3>2. room = IF Len(w) - left < perpage THEN Len(w) - left ELSE perpage
      BY <1>4, <3>1
    <3> HIDE DEF room
    <3>3. room \in Nat /\ left + room <= Len(w) /\ skip = Len(p) + left /\ last = Len(p) + left + room
      BY <1>2, <1>4, <1>7, <3>1, <3>2
    <3> HIDE DEF last, all
    <3>4. SubSeq(all, Len(p) + left + 1, Len(p) + left + room) = SubSeq(w, left + 1, left + room)
      BY <1>3, <3>1, <3>3, SliceOfSecond DEF all
    <3>5. SubSeq(w, left + 1, left + room) \in Seq(S)
      BY <1>3, <3>1, <3>3, Sliced
    <3> QED
      BY <2>1, <3>1, <3>3, <3>4, <3>5, ConcatEmptySeq
  <2>4. plen > skip \/ plen <= skip
    BY <1>2, <1>4
  <2> HIDE DEF plen, last, all
  <2> QED
    BY <2>2, <2>3, <2>4
<1>8. \/ plen + Len(w) <= skip
      \/ plen + Len(w) > skip /\ plen >= skip + perpage
      \/ plen + Len(w) > skip /\ plen < skip + perpage
  BY <1>2, <1>4
<1> HIDE DEF plen, last, all
<1> QED
  BY <1>5, <1>6, <1>7, <1>8

\* A sequence with each element once has an element once or not at all.
LEMMA Occurrences ==
  ASSUME NEW S, NEW s \in Seq(S), Distinct(s), NEW f
  PROVE  Cardinality({i \in DOMAIN s : s[i] = f}) = IF Listed(s, f) THEN 1 ELSE 0
<1>1. CASE Listed(s, f)
  <2>1. PICK i \in DOMAIN s : s[i] = f
    BY <1>1 DEF Listed
  <2>2. {j \in DOMAIN s : s[j] = f} = {i}
    BY <2>1 DEF Distinct
  <2> QED
    BY <1>1, <2>2, FS_Singleton
<1>2. CASE ~Listed(s, f)
  <2>1. {j \in DOMAIN s : s[j] = f} = {}
    BY <1>2 DEF Listed
  <2> QED
    BY <1>2, <2>1, FS_EmptySet
<1> QED
  BY <1>1, <1>2

\* Whatever is brought to the front, given up or finished meanwhile: as long as files are queued,
\* each one is queued or in progress once, or it is done, and none is both done and failed; and what
\* the pages of the user show is what is in progress and queued, whatever the size of a page
\* (folder_sendrecv.go: processNeeded, finisherRoutine; queue.go: Jobs, BringToFront, Done).
THEOREM FilesComeOutOnce == ASSUME Settings PROVE Spec => []QueueRight
<1>1. Init => IInv /\ QInv
  <2>1. ASSUME Init PROVE QInv
    <3>1. /\ main = "idle" /\ queue = Empty /\ pending = {} /\ failed = {} /\ finisher.at = "off"
          /\ \A i \in Items : disk[i] = "old"
          /\ \A f \in Files : ~state[f].on
      BY <2>1 DEF Init, Unused, IdleFinisher
    <3>2. \A f \in Files : ~Carried(f)
      BY <3>1 DEF Carried, InQueue, Empty, Listed
    <3> QED
      BY <3>1, <3>2 DEF QInv, Settled, NotYet, Waits, DoneOrFailed, Apart, NotLost
  <2> QED
    BY <2>1, Beginning DEF CInv
<1>2. IInv /\ QInv /\ [Next]_vars => (IInv /\ QInv)'
  BY Inductive, NotLostStep
<1>3. IInv /\ QInv => QueueRight
  <2> SUFFICES ASSUME IInv, QInv PROVE QueueRight
    OBVIOUS
  <2>1. /\ queue.queued \in Seq(Files) /\ queue.progress \in Seq(Files)
        /\ Distinct(queue.queued) /\ Distinct(queue.progress)
        /\ \A f \in Files : ~(Listed(queue.queued, f) /\ Listed(queue.progress, f))
    BY DEF IInv, Shape, Places, Queues
  <2>2. NoFileLost
    <3> SUFFICES ASSUME main \in {"queue", "file"}, NEW f \in Files \ (recorded \cup failed),
                        ~state[f].closed, f \notin updater.batch
                 PROVE  Cardinality({i \in DOMAIN queue.queued : queue.queued[i] = f})
                          + Cardinality({i \in DOMAIN queue.progress : queue.progress[i] = f}) = 1
      BY DEF NoFileLost
    <3>1. Listed(queue.queued, f) \/ Listed(queue.progress, f)
      BY DEF QInv, NotLost, Somewhere, InQueue
    <3>2. /\ Cardinality({i \in DOMAIN queue.queued : queue.queued[i] = f})
               = IF Listed(queue.queued, f) THEN 1 ELSE 0
          /\ Cardinality({i \in DOMAIN queue.progress : queue.progress[i] = f})
               = IF Listed(queue.progress, f) THEN 1 ELSE 0
      BY <2>1, Occurrences
    <3> QED
      BY <2>1, <3>1, <3>2
  <2>3. PagesCover
    <3>1. Len(queue.progress \o queue.queued) \in Nat
      BY <2>1, ConcatProperties, LenProperties
    <3>2. \A n \in 1..(Len(queue.progress \o queue.queued) + 1) : n \in Nat \ {0}
      BY <3>1
    <3> QED
      BY <2>1, <3>2, JobsAreSlices DEF PagesCover
  <2> QED
    BY <2>2, <2>3 DEF QInv, QueueRight
<1> QED
  BY <1>1, <1>2, <1>3, PTL DEF Spec

-----------------------------------------------------------------------------
(* How an item is replaced *)

\* The contents of a file are those its stamp tells of: the old ones, the user's or the wanted.
Stamped(i) ==
  \/ i.stamp = "o" /\ i.data = "O"
  \/ i.stamp = "u" /\ i.data = "U"
  \/ i.stamp = "w" /\ i.data = want.data /\ i.data \in {"O", "W"}
ItemsThere == [type : {"none", "file", "dir", "link"}, data : {"none", "O", "U", "W", "L", "V"},
               stamp : {"none", "o", "u", "w"}]
IsItem(i) ==
  /\ i \in ItemsThere
  /\ i.type = "none" => i = R!NoItem
  /\ i.type = "dir" => i.data = "none"
  /\ i.type = "link" => i.data \in {"L", "V"}
  /\ i.type = "file" => Stamped(i)

ItemTypes ==
  /\ want \in R!Wanted /\ IsItem(item) /\ IsItem(local.item)
  /\ local = [item |-> local.item, version |-> local.version]
  /\ child \in {"none", "ignored", "deletable", "unknown", "known"} /\ (child # "none" => item.type = "dir")
  /\ mine \subseteq {"O", "U", "C"}
  /\ acts \in Nat

\* What is older than the wanted item is nothing of the user's; what is in a directory is seen.
OldIsKnown ==
  /\ local.version = "old" => "O" \notin mine /\ ~(local.item.type = "file" /\ local.item.stamp = "u")
  /\ "C" \in mine => child \in {"unknown", "known"}

\* A file of which only metadata is to be pulled is there as the database has it.
ShortcutIsSafe == R!Needed /\ R!SameBlocks => item.type = "file" /\ item.data = local.item.data

\* Where the puller is.
Progressing ==
  /\ at = "cleared" => item = R!NoItem
  /\ at = "placed" => item = want
  /\ local.version = "want" => local.item = want

ItemInv == ItemTypes /\ OldIsKnown /\ ShortcutIsSafe /\ Progressing /\ R!MineKept /\ R!RecordedIsThere

USE DEF R!NoItem, R!Needed, R!SameBlocks

\* The items that can be wanted.
LEMMA WantedItems ==
  ASSUME want \in R!Wanted
  PROVE  /\ IsItem(want) /\ want.data \in {"none", "O", "W", "V"}
         /\ want.type \in {"none", "file", "dir", "link"}
         /\ want.type # "file" => want.data \notin {"O", "U", "W"}
         /\ want.type = "none" => want = R!NoItem
BY DEF R!Wanted, IsItem, Stamped, ItemsThere

\* The invariant holds at first.
LEMMA ItemAtFirst == R!Init => ItemInv
<1> SUFFICES ASSUME R!Init PROVE ItemInv
  OBVIOUS
<1> USE DEF R!Old, R!OldDir, R!OldLink
<1>1. /\ want \in R!Wanted /\ item \in {R!NoItem, R!Old, R!OldDir, R!OldLink}
      /\ at = "idle" /\ kept = {} /\ acts = 0
      /\ child \in IF item.type = "dir" THEN {"none", "ignored", "deletable"} ELSE {"none"}
  BY DEF R!Init
<1>2. PICK v \in {"old", "loses"} : local = [item |-> item, version |-> v]
  BY DEF R!Init, R!Entry
<1>3. mine = IF v = "loses" /\ item.type = "file" THEN {item.data} ELSE {}
  BY <1>2 DEF R!Init
<1>4. IsItem(item)
  BY <1>1 DEF IsItem, Stamped, ItemsThere
<1>5. ItemTypes
  BY <1>1, <1>2, <1>3, <1>4 DEF ItemTypes
<1>6. OldIsKnown
  BY <1>1, <1>2, <1>3 DEF OldIsKnown
<1>7. ShortcutIsSafe /\ Progressing /\ R!MineKept /\ R!RecordedIsThere
  BY <1>1, <1>2, <1>3 DEF ShortcutIsSafe, Progressing, R!MineKept, R!RecordedIsThere
<1> QED
  BY <1>5, <1>6, <1>7 DEF ItemInv

\* The user acts between pulls, and not on a file of which only metadata is to be pulled.
LEMMA UserKeepsItems == ASSUME ItemInv, ~UserAtShortcut, ~UserAtGap, R!User PROVE ItemInv'
<1> USE DEF R!Edited, R!UserDir
<1>1. /\ at = "idle" /\ ~(R!Needed /\ R!SameBlocks) /\ acts' = acts + 1
      /\ UNCHANGED <<local, want, at, kept>>
  BY DEF R!User, R!Edit, R!Remove, R!MakeDir, R!AddChild, R!UserActs
<1>2. \/ item.type # "dir" /\ item' = R!Edited /\ child' = child /\ mine' = {"U"}
      \/ child = "none" /\ item' = R!NoItem /\ child' = "none" /\ mine' = {}
      \/ item = R!NoItem /\ item' = R!UserDir /\ child' = "none" /\ mine' = mine
      \/ item.type = "dir" /\ item' = item /\ child' = "unknown" /\ mine' = mine \cup {"C"}
  BY DEF R!User, R!Edit, R!Remove, R!MakeDir, R!AddChild, R!UserActs
<1>3. IsItem(item)' /\ IsItem(local.item)'
  BY <1>1, <1>2 DEF ItemInv, ItemTypes, IsItem, Stamped, ItemsThere
<1>4. ItemTypes'
  BY <1>1, <1>2, <1>3 DEF ItemInv, ItemTypes
<1>5. OldIsKnown'
  BY <1>1, <1>2 DEF ItemInv, ItemTypes, OldIsKnown
<1>6. ShortcutIsSafe' /\ Progressing'
  BY <1>1 DEF ItemInv, ShortcutIsSafe, Progressing
<1>7. R!MineKept'
  BY <1>1, <1>2 DEF ItemInv, ItemTypes, IsItem, OldIsKnown, R!MineKept
<1>8. R!RecordedIsThere'
  BY <1>1 DEF ItemInv, ItemTypes, R!RecordedIsThere
<1> QED
  BY <1>4, <1>5, <1>6, <1>7, <1>8 DEF ItemInv

\* A scan records what is there, as a version that is no older than the wanted one.
LEMMA ScanKeepsItems == ASSUME ItemInv, R!Scan PROVE ItemInv'
<1>1. at = "idle" /\ UNCHANGED <<item, want, at, kept, mine, acts>>
  BY DEF R!Scan
<1>2. CASE R!Differs /\ child' = child /\ \E v \in {"loses", "wins", "newer"} : local' = R!Entry(item, v)
  <2>1. PICK v \in {"loses", "wins", "newer"} : local' = [item |-> item, version |-> v]
    BY <1>2 DEF R!Entry
  <2>2. ItemTypes'
    BY <1>1, <1>2, <2>1 DEF ItemInv, ItemTypes, IsItem, Stamped
  <2> QED
    BY <1>1, <1>2, <2>1, <2>2
       DEF ItemInv, OldIsKnown, ShortcutIsSafe, Progressing, R!MineKept, R!RecordedIsThere
<1>3. CASE child = "unknown" /\ child' = "known" /\ local' = local
  <2>1. ItemTypes'
    BY <1>1, <1>3 DEF ItemInv, ItemTypes, IsItem, Stamped
  <2> QED
    BY <1>1, <1>3, <2>1 DEF ItemInv, OldIsKnown, ShortcutIsSafe, Progressing, R!MineKept, R!RecordedIsThere
<1> QED
  BY <1>2, <1>3 DEF R!Scan, R!Concurrent

\* What the puller takes away is not the user's, or it is kept.
LEMMA ClearKeepsMine ==
  ASSUME ItemInv, Conflicts, R!Needed, R!Unchanged, R!Clear, UNCHANGED <<want, local, mine>>
  PROVE  /\ IsItem(item)' /\ item' = R!NoItem /\ child' = "none"
         /\ R!MineKept' /\ "C" \notin mine
<1>1. /\ item' = R!NoItem /\ child' = "none" /\ (item.type = "dir" => child \notin {"unknown", "known", "ignored"})
      /\ kept' = IF item.type = "file" /\ (IF R!MovesForConflict THEN Conflicts ELSE Versioning)
                 THEN kept \cup {item.data} ELSE kept
  BY DEF R!Clear, R!ChildInTheWay, R!ChildAfter
<1>2. IsItem(item)'
  BY <1>1 DEF IsItem, ItemsThere
<1>3. "C" \notin mine
  BY <1>1 DEF ItemInv, ItemTypes, OldIsKnown
<1>4. item.type = local.item.type /\ item.stamp = local.item.stamp
  BY DEF R!Unchanged, R!Differs
<1>5. ASSUME item.type = "file", item.data \in mine PROVE R!MovesForConflict
  <2>1. Stamped(item) /\ Stamped(local.item) /\ item.data \in {"O", "U"}
    <3>1. IsItem(item) /\ IsItem(local.item) /\ mine \subseteq {"O", "U", "C"}
      BY DEF ItemInv, ItemTypes
    <3>2. Stamped(item) /\ Stamped(local.item)
      BY <1>4, <1>5, <3>1 DEF IsItem
    <3>3. item.data \in {"O", "U", "W"}
      BY <3>2 DEF Stamped
    <3> QED
      BY <1>5, <3>1, <3>2, <3>3
  <2>2. local.version # "old"
    BY <1>4, <1>5, <2>1, WantedItems DEF ItemInv, ItemTypes, OldIsKnown, Stamped
  <2> QED
    BY <1>4, <1>5, <2>2 DEF R!MovesForConflict, R!InConflict
<1>6. item.type # "file" => item.data \notin mine
  <2>1. IsItem(item) /\ mine \subseteq {"O", "U", "C"}
    BY DEF ItemInv, ItemTypes
  <2>2. item.type # "file" => item.data \in {"none", "L", "V"}
    BY <2>1 DEF IsItem, ItemsThere
  <2> QED
    BY <2>1, <2>2
<1>7. ASSUME NEW d \in mine PROVE d \in kept'
  <2>1. d \in kept \/ item.data = d
    BY <1>3, <1>7 DEF ItemInv, R!MineKept
  <2> QED
    BY <2>1, <1>1, <1>5, <1>6
<1> QED
  BY <1>1, <1>2, <1>3, <1>7 DEF R!MineKept

\* Clearing for the new item.
LEMMA ClearForNewKeepsItems ==
  ASSUME ItemInv, Conflicts, R!Needed, ~R!SameBlocks, at = "idle", R!ClearForNew
  PROVE  ItemInv'
<1>1. UNCHANGED <<local, want, mine, acts>> /\ at' = "cleared"
  BY DEF R!ClearForNew
<1>2. /\ IsItem(item)' /\ item' = R!NoItem /\ child' = "none" /\ R!MineKept' /\ ("C" \in mine => FALSE)
  <2>1. CASE item = R!NoItem /\ UNCHANGED <<item, child, kept>>
    <3>1. child = "none"
      BY <2>1 DEF ItemInv, ItemTypes
    <3> QED
      BY <1>1, <2>1, <3>1 DEF ItemInv, ItemTypes, OldIsKnown, R!MineKept, IsItem, Stamped
  <2>2. CASE R!Unchanged /\ R!Clear
    BY <1>1, <2>2, ClearKeepsMine
  <2> QED
    BY <2>1, <2>2 DEF R!ClearForNew
<1>3. ItemTypes'
  BY <1>1, <1>2 DEF ItemInv, ItemTypes, IsItem, Stamped
<1>4. OldIsKnown' /\ ShortcutIsSafe' /\ Progressing' /\ R!RecordedIsThere'
  BY <1>1, <1>2 DEF ItemInv, OldIsKnown, ShortcutIsSafe, Progressing, R!RecordedIsThere
<1> QED
  BY <1>2, <1>3, <1>4 DEF ItemInv

\* The puller.
LEMMA PullKeepsItems == ASSUME ItemInv, Conflicts, R!Pull PROVE ItemInv'
<1> USE DEF R!Pulls
<1>1. CASE R!Finish
  BY <1>1, ClearForNewKeepsItems DEF R!Finish
<1>2. CASE R!HandleSymlink
  <2>1. ~R!SameBlocks
    BY <1>2, WantedItems DEF R!HandleSymlink, ItemInv, ItemTypes, IsItem, Stamped
  <2> QED
    BY <1>2, <2>1, ClearForNewKeepsItems DEF R!HandleSymlink
<1>3. CASE R!HandleDir
  <2>1. ~R!SameBlocks /\ R!Needed /\ at = "idle" /\ want.type = "dir"
    BY <1>3, WantedItems DEF R!HandleDir, ItemInv, ItemTypes, IsItem, Stamped
  <2>2. CASE R!ClearForNew
    BY <2>1, <2>2, ClearForNewKeepsItems
  <2>3. CASE item.type = "dir" /\ item' = want /\ at' = "placed" /\ UNCHANGED <<child, local, want, kept, mine, acts>>
    <3>1. IsItem(want) /\ want.data = "none" /\ item.data = "none"
      BY <2>1, <2>3, WantedItems DEF ItemInv, ItemTypes, IsItem
    <3>2. ItemTypes'
      BY <2>1, <2>3, <3>1 DEF ItemInv, ItemTypes, IsItem, Stamped
    <3>3. OldIsKnown' /\ ShortcutIsSafe' /\ Progressing' /\ R!RecordedIsThere'
      BY <2>1, <2>3 DEF ItemInv, OldIsKnown, ShortcutIsSafe, Progressing, R!RecordedIsThere
    <3>4. R!MineKept'
      BY <2>3, <3>1 DEF ItemInv, ItemTypes, R!MineKept
    <3> QED
      BY <3>2, <3>3, <3>4 DEF ItemInv
  <2> QED
    BY <1>3, <2>2, <2>3 DEF R!HandleDir
<1>4. CASE R!ShortcutFile
  <2>1. /\ at = "idle" /\ R!Needed /\ R!SameBlocks /\ want.type = "file" /\ at' = "placed"
        /\ item' = IF item = R!NoItem THEN item ELSE [item EXCEPT !.stamp = want.stamp]
        /\ UNCHANGED <<child, local, want, kept, mine, acts>>
    BY <1>4 DEF R!ShortcutFile
  <2>2. item.type = "file" /\ item.data = want.data /\ item \in ItemsThere /\ want \in ItemsThere
    BY <2>1, WantedItems DEF ItemInv, ItemTypes, ShortcutIsSafe, IsItem
  <2>3. item' = want
    BY <2>1, <2>2 DEF ItemsThere
  <2>4. ItemTypes'
    BY <2>1, <2>2, <2>3, WantedItems DEF ItemInv, ItemTypes, IsItem, Stamped
  <2>5. OldIsKnown' /\ ShortcutIsSafe' /\ Progressing' /\ R!RecordedIsThere'
    BY <2>1, <2>2, <2>3 DEF ItemInv, OldIsKnown, ShortcutIsSafe, Progressing, R!RecordedIsThere
  <2>6. R!MineKept'
    BY <2>1, <2>2, <2>3 DEF ItemInv, R!MineKept
  <2> QED
    BY <2>4, <2>5, <2>6 DEF ItemInv
<1>5. CASE R!Delete
  <2>1. /\ at = "idle" /\ R!Needed /\ want.type = "none" /\ at' = "placed" /\ UNCHANGED <<local, want, mine, acts>>
    BY <1>5 DEF R!Delete
  <2>2. want = R!NoItem /\ ~R!SameBlocks
    BY <2>1, WantedItems DEF ItemInv, ItemTypes, IsItem, Stamped
  <2>3. IsItem(item)' /\ item' = R!NoItem /\ child' = "none" /\ R!MineKept' /\ ("C" \in mine => FALSE)
    <3>1. CASE item = R!NoItem /\ UNCHANGED <<item, child, kept>>
      <4>1. child = "none"
        BY <3>1 DEF ItemInv, ItemTypes
      <4> QED
        BY <2>1, <3>1, <4>1 DEF ItemInv, ItemTypes, OldIsKnown, R!MineKept, IsItem, Stamped
    <3>2. CASE R!Unchanged /\ R!Clear
      BY <2>1, <3>2, ClearKeepsMine
    <3> QED
      BY <1>5, <3>1, <3>2 DEF R!Delete
  <2>4. ItemTypes'
    BY <2>1, <2>3 DEF ItemInv, ItemTypes, IsItem, Stamped
  <2>5. OldIsKnown' /\ ShortcutIsSafe' /\ Progressing' /\ R!RecordedIsThere'
    BY <2>1, <2>2, <2>3 DEF ItemInv, OldIsKnown, ShortcutIsSafe, Progressing, R!RecordedIsThere
  <2> QED
    BY <2>3, <2>4, <2>5 DEF ItemInv
<1>6. CASE R!Place
  <2>1. at = "cleared" /\ item = R!NoItem /\ item' = want /\ at' = "placed" /\ UNCHANGED <<child, local, want, kept, mine, acts>>
    BY <1>6 DEF R!Place, ItemInv, Progressing
  <2>2. child = "none" /\ "C" \notin mine
    BY <2>1 DEF ItemInv, ItemTypes, OldIsKnown
  <2>3. ItemTypes'
    BY <2>1, <2>2, WantedItems DEF ItemInv, ItemTypes, IsItem, Stamped
  <2>4. OldIsKnown' /\ ShortcutIsSafe' /\ Progressing' /\ R!RecordedIsThere'
    BY <2>1, <2>2 DEF ItemInv, OldIsKnown, ShortcutIsSafe, Progressing, R!RecordedIsThere
  <2>5. R!MineKept'
    BY <2>1, <2>2 DEF ItemInv, ItemTypes, R!MineKept
  <2> QED
    BY <2>3, <2>4, <2>5 DEF ItemInv
<1>7. CASE R!Record
  <2>1. /\ at = "placed" /\ item = want /\ at' = "idle" /\ local' = [item |-> want, version |-> "want"]
        /\ UNCHANGED <<item, child, want, kept, mine, acts>>
    BY <1>7 DEF R!Record, R!Entry, ItemInv, Progressing
  <2>2. ItemTypes'
    BY <2>1 DEF ItemInv, ItemTypes, IsItem, Stamped
  <2> QED
    BY <2>1, <2>2 DEF ItemInv, OldIsKnown, ShortcutIsSafe, Progressing, R!MineKept, R!RecordedIsThere
<1> QED
  BY <1>1, <1>2, <1>3, <1>4, <1>5, <1>6, <1>7 DEF R!Pull

\* A crash leaves what is on disk, and in the database.
LEMMA CrashKeepsItems == ASSUME ItemInv, R!Crash PROVE ItemInv'
<1>1. at' = "idle" /\ UNCHANGED <<item, child, local, want, kept, mine, acts>>
  BY DEF R!Crash
<1>2. ItemTypes'
  BY <1>1 DEF ItemInv, ItemTypes, IsItem, Stamped
<1> QED
  BY <1>1, <1>2 DEF ItemInv, OldIsKnown, ShortcutIsSafe, Progressing, R!MineKept, R!RecordedIsThere

\* While another component runs nothing happens to the item.
LEMMA ItemStays == ASSUME ItemInv, UNCHANGED replaceVars PROVE ItemInv'
<1>1. UNCHANGED <<item, child, local, want, at, kept, mine, acts>>
  BY DEF replaceVars
<1>2. ItemTypes'
  BY <1>1 DEF ItemInv, ItemTypes, IsItem, Stamped
<1> QED
  BY <1>1, <1>2 DEF ItemInv, OldIsKnown, ShortcutIsSafe, Progressing, R!MineKept, R!RecordedIsThere

\* Whatever is to be pulled, and wherever it crashes: what the user has written and the wanted
\* version does not know stays on disk or is kept, a scan sees what the database does not have, and
\* what is recorded was there (folder_sendrecv.go: performFinish, handleDir, handleSymlink, deleteFile,
\* deleteDir, shortcutFile), if conflict copies are kept and the user does not act at the two
\* moments at which the code does not look.
THEOREM UsersItemsAreKept ==
  ASSUME Conflicts, ~UserAtShortcut, ~UserAtGap PROVE FairOne => []ItemRight
<1>1. InitOne => ItemInv
  BY ItemAtFirst DEF InitOne
<1>2. ItemInv /\ [NextOne]_allVars => ItemInv'
  <2> SUFFICES ASSUME ItemInv, [NextOne]_allVars PROVE ItemInv'
    OBVIOUS
  <2>1. CASE R!Next
    BY <2>1, UserKeepsItems, ScanKeepsItems, PullKeepsItems, CrashKeepsItems DEF R!Next
  <2>2. CASE UNCHANGED replaceVars
    BY <2>2, ItemStays
  <2> QED
    BY <2>1, <2>2 DEF NextOne, allVars, Iteration, Loop, Item, Progress
<1>3. ItemInv => ItemRight
  <2> SUFFICES ASSUME ItemInv PROVE R!ChangesAreSeen
    BY DEF ItemInv, ItemRight
  <2> QED
    BY WantedItems DEF ItemInv, ItemTypes, IsItem, Stamped, R!ChangesAreSeen, R!Differs
<1> QED
  BY <1>1, <1>2, <1>3, PTL DEF FairOne
=============================================================================
