--------------------------- MODULE BookkeepingProofs ---------------------------
(***************************************************************************)
(* Proofs about IndexRegistry, for any number of changes on both sides: the  *)
(* handler follows the last ClusterConfig and the configuration; about       *)
(* LocalIndex, for any files, numbers and crashes: what the check at        *)
(* start-up restores, and what other devices have been given; and about      *)
(* DialSchedule, for any addresses and frequencies: when they are dialled.   *)
(* For FileSet and Scan there are FileSetProofs and ScanProofs. At the end   *)
(* all of these are put side by side, in the settings of the run, and their  *)
(* theorems are cited for that.                                             *)
(***************************************************************************)
EXTENDS Books, SequenceTheorems, FiniteSetTheorems, WellFoundedInduction, TLC, TLAPS

Handlers == [info : Nat, incarnation : Nat, paused : BOOLEAN]
Registries == [folderState : Nat \cup {None}, startInfo : Nat \cup {None}, handler : Handlers \cup {None}]

\* Information waits for a folder that does not run, and a handler runs just with it.
Sound(r) ==
  /\ r \in Registries
  /\ r.startInfo # None => r.handler = None /\ r.folderState = None
  /\ r.handler # None => /\ r.handler.paused <=> r.folderState = None
                         /\ ~r.handler.paused => r.handler.incarnation = r.folderState

\* What the other side has said of its folder.
Offered(r) == r.startInfo # None \/ r.handler # None
Knows(r, n) == (r.startInfo # None => r.startInfo = n) /\ (r.handler # None => r.handler.info = n)

-----------------------------------------------------------------------------
(* The operations *)

\* None is no number, no handler and no decision.
LEMMA NoneIsNothing == None \notin Nat /\ None \notin Handlers /\ None \notin [op : {"add", "remove"}, info : Nat]
  BY NoneAssumption DEF Handlers

\* The last element of a sequence is that of its tail, or its head.
LEMMA LastOfTail ==
  ASSUME NEW S, NEW s \in Seq(S), s # <<>>
  PROVE  /\ Head(s) \in S /\ Tail(s) \in Seq(S)
         /\ Tail(s) # <<>> => Tail(s)[Len(Tail(s))] = s[Len(s)]
         /\ Tail(s) = <<>> => Head(s) = s[Len(s)]
<1>1. /\ Head(s) \in S /\ Tail(s) \in Seq(S) /\ Head(s) = s[1]
      /\ Len(Tail(s)) = Len(s) - 1
      /\ \A k \in 1 .. Len(Tail(s)) : Tail(s)[k] = s[k + 1]
  BY HeadTailProperties
<1>2. Len(s) \in Nat /\ Len(s) # 0 /\ (Tail(s) = <<>> <=> Len(Tail(s)) = 0)
  BY <1>1, EmptySeq
<1> QED
  BY <1>1, <1>2

\* A new registry knows nothing.
LEMMA NoRegistryIsSound == Sound(NoRegistry) /\ ~Offered(NoRegistry) /\ NoRegistry.folderState = None
  BY NoneIsNothing DEF Sound, Registries, NoRegistry, Offered

\* startLocked makes a handler with the information given.
LEMMA StartedIsSound ==
  ASSUME NEW r \in Registries, r.folderState # None, NEW n \in Nat
  PROVE  /\ Sound(Started(r, n)) /\ Started(r, n).folderState = r.folderState
         /\ Offered(Started(r, n)) /\ Knows(Started(r, n), n)
<1>1. Handler(n, r.folderState) \in Handlers
  BY DEF Registries, Handler, Handlers
<1> QED
  BY <1>1, NoneIsNothing DEF Sound, Registries, Started, Offered, Knows, Handler

\* AddIndexInfo makes a handler, or the information waits.
LEMMA WithIndexInfoIsSound ==
  ASSUME NEW r, Sound(r), NEW n \in Nat
  PROVE  /\ Sound(WithIndexInfo(r, n)) /\ WithIndexInfo(r, n).folderState = r.folderState
         /\ Offered(WithIndexInfo(r, n)) /\ Knows(WithIndexInfo(r, n), n)
<1>1. CASE r.folderState = None
  BY <1>1, NoneIsNothing DEF Sound, Registries, WithIndexInfo, Offered, Knows
<1>2. CASE r.folderState # None
  BY <1>2, StartedIsSound DEF Sound, WithIndexInfo
<1> QED
  BY <1>1, <1>2

\* Remove forgets what was offered and keeps the state of the folder.
LEMMA RemovedIsSound ==
  ASSUME NEW r, Sound(r)
  PROVE  Sound(Removed(r)) /\ Removed(r).folderState = r.folderState /\ ~Offered(Removed(r))
  BY NoneIsNothing DEF Sound, Registries, Removed, Offered

\* A pause forgets the state of the folder and keeps what was offered.
LEMMA PausedIsSound ==
  ASSUME NEW r, Sound(r)
  PROVE  /\ Sound(Paused(r)) /\ Paused(r).folderState = None
         /\ Offered(Paused(r)) = Offered(r)
         /\ \A n : Knows(r, n) => Knows(Paused(r), n)
<1>1. CASE r.handler = None
  BY <1>1, NoneIsNothing DEF Sound, Registries, Paused, Offered, Knows
<1>2. CASE r.handler # None
  <2> DEFINE h == [r.handler EXCEPT !.paused = TRUE]
  <2>1. r.handler \in Handlers /\ h \in Handlers /\ h.paused /\ h.info = r.handler.info
    BY <1>2 DEF Sound, Registries, Handlers
  <2>2. Paused(r) = [r EXCEPT !.folderState = None, !.handler = h]
    BY <1>2 DEF Paused, Sound, Registries
  <2> QED
    BY <1>2, <2>1, <2>2, NoneIsNothing DEF Sound, Registries, Offered, Knows
<1> QED
  BY <1>1, <1>2

\* A start gives the folder's state to the handler, or makes one of the information that waits.
LEMMA RunningIsSound ==
  ASSUME NEW r, Sound(r), NEW inc \in Nat
  PROVE  /\ Sound(Running(r, inc)) /\ Running(r, inc).folderState = inc
         /\ Offered(Running(r, inc)) = Offered(r)
         /\ \A n : Knows(r, n) => Knows(Running(r, inc), n)
<1> DEFINE s == [r EXCEPT !.folderState = inc]
<1>1. s \in Registries /\ s.folderState = inc /\ s.handler = r.handler /\ s.startInfo = r.startInfo
  BY DEF Sound, Registries
<1>2. CASE r.startInfo # None
  <2>1. r.startInfo \in Nat /\ Running(r, inc) = Started(s, r.startInfo)
    BY <1>2 DEF Sound, Registries, Running
  <2>2. /\ Sound(Started(s, r.startInfo)) /\ Started(s, r.startInfo).folderState = inc
        /\ Offered(Started(s, r.startInfo)) /\ Knows(Started(s, r.startInfo), r.startInfo)
    BY <1>1, <2>1, StartedIsSound, NoneIsNothing
  <2> QED
    BY <1>2, <2>1, <2>2 DEF Offered, Knows
<1>3. CASE r.startInfo = None /\ r.handler # None
  <2> DEFINE h == [r.handler EXCEPT !.paused = FALSE, !.incarnation = inc]
  <2>1. r.handler \in Handlers /\ h \in Handlers /\ ~h.paused /\ h.incarnation = inc /\ h.info = r.handler.info
    BY <1>3 DEF Sound, Registries, Handlers
  <2>2. Running(r, inc) = [r EXCEPT !.folderState = inc, !.handler = h]
    BY <1>3 DEF Running, Sound, Registries
  <2> QED
    BY <1>3, <2>1, <2>2, NoneIsNothing DEF Sound, Registries, Offered, Knows
<1>4. CASE r.startInfo = None /\ r.handler = None
  BY <1>4, <1>1, NoneIsNothing DEF Sound, Running, Offered, Knows, Registries
<1> QED
  BY <1>2, <1>3, <1>4

\* RegisterFolderState in one lemma: what was offered is kept while the folder is shared.
LEMMA RegisteredIsSound ==
  ASSUME NEW r, Sound(r), NEW c, incarnation \in Nat
  PROVE  LET s == Registered(r, c)
         IN  /\ Sound(s)
             /\ \A n : Knows(r, n) => Knows(s, n)
             /\ Offered(s) => Offered(r)
             /\ c \in {"shared", "paused"} => Offered(s) = Offered(r)
             /\ c = "shared" => s.folderState = incarnation
             /\ c = "paused" => s.folderState = None
             /\ c \notin {"shared", "paused"} => s.folderState = r.folderState
<1>1. CASE c \notin {"shared", "paused"}
  BY <1>1, RemovedIsSound DEF Registered, Knows, Offered
<1>2. CASE c = "paused"
  BY <1>2, PausedIsSound DEF Registered
<1>3. CASE c = "shared"
  BY <1>3, RunningIsSound DEF Registered
<1> QED
  BY <1>1, <1>2, <1>3

-----------------------------------------------------------------------------
(* The invariant *)

Folders == {"absent", "paused", "running"}

Shape ==
  /\ config \in Configurations /\ committed \in Configurations /\ dropping \in BOOLEAN
  /\ incarnation \in Nat /\ info \in Nat /\ left \in BOOLEAN
  /\ remote \in Folders
  /\ inbox \in Seq([folder : Folders, info : Nat])
  /\ decided \in [op : {"add", "remove"}, info : Nat] \cup {None}

\* The last ClusterConfig on its way says how the other side's folder is; once it is taken
\* out it is in `decided`, and after that in the registry.
LastMessage ==
  /\ inbox # <<>> => inbox[Len(inbox)] = [folder |-> remote, info |-> info]
  /\ inbox = <<>> /\ decided # None =>
       /\ decided.info = info
       /\ decided.op = "add" => remote = "running"
       /\ ~left /\ remote = "running" => decided.op = "add"
  /\ inbox = <<>> /\ decided = None =>
       /\ Knows(registry, info)
       /\ Offered(registry) => remote = "running"
       /\ ~left /\ remote = "running" => Offered(registry)

\* The registry knows whether the folder runs, as of the last commit.
FolderKnown ==
  /\ dropping => config \in Absent
  /\ committed = "shared" /\ ~dropping => registry.folderState # None
  /\ ~left /\ registry.folderState # None =>
       committed = "shared" /\ ~dropping /\ registry.folderState = incarnation

IInv == Shape /\ Sound(registry) /\ LastMessage /\ FolderKnown

\* What the runs check follows from the invariant.
LEMMA InvImplies == IInv => WaitsOrRuns /\ HandlersFollow
<1> SUFFICES ASSUME IInv PROVE WaitsOrRuns /\ HandlersFollow
  OBVIOUS
<1> USE DEF IInv
<1>1. WaitsOrRuns
  BY DEF Sound, WaitsOrRuns
<1>2. LatestInformation
  BY DEF LastMessage, LatestInformation, Knows
<1>3. StartsWhenShared
  BY DEF LastMessage, FolderKnown, Sound, StartsWhenShared, Settled, Offered
<1>4. RunsOnlyIfShared
  BY DEF LastMessage, FolderKnown, Sound, RunsOnlyIfShared, Settled, Offered
<1> QED
  BY <1>1, <1>2, <1>3, <1>4 DEF HandlersFollow

\* The invariant holds for every configuration and every folder of the other side at the start.
LEMMA InitInv == Init => IInv
<1> SUFFICES ASSUME Init PROVE IInv
  OBVIOUS
<1> USE DEF Init
<1>1. Shape
  <2>1. inbox \in Seq([folder : Folders, info : Nat])
    <3>1. [folder |-> remote, info |-> 1] \in [folder : Folders, info : Nat]
      BY DEF Folders
    <3> QED
      BY <3>1
  <2> QED
    BY <2>1, LocalAssumption DEF Shape, Folders
<1>2. Sound(registry) /\ FolderKnown
  <2>1. CASE config \in Absent
    BY <2>1, NoRegistryIsSound DEF FolderKnown, Absent
  <2>2. CASE config \notin Absent
    BY <1>1, <2>2, NoRegistryIsSound, RegisteredIsSound, NoneIsNothing DEF FolderKnown, Shape, Absent
  <2> QED
    BY <2>1, <2>2
<1>3. LastMessage
  BY DEF LastMessage
<1> QED
  BY <1>1, <1>2, <1>3 DEF IInv

\* Every step keeps the invariant.
LEMMA StepInv == IInv /\ [Next]_vars => IInv'
<1> SUFFICES ASSUME IInv, [Next]_vars PROVE IInv'
  OBVIOUS
<1> USE DEF IInv
<1>1. CASE \E c \in Local : Change(c)
  BY <1>1, LocalAssumption DEF Change, Shape, LastMessage, FolderKnown, Absent, Configurations
<1>2. CASE Commit
  <2>1. /\ Sound(registry')
        /\ \A n : Knows(registry, n) => Knows(registry', n)
        /\ Offered(registry') => Offered(registry)
        /\ config \in {"shared", "paused"} => Offered(registry') = Offered(registry)
        /\ config = "shared" => registry'.folderState = incarnation
        /\ ~left' => registry'.folderState = IF config = "shared" THEN incarnation ELSE None
    <3>1. CASE config \in Absent
      BY <1>2, <3>1, RemovedIsSound DEF Commit, Committed, Absent, Knows, Offered, Shape
    <3>2. CASE config \in PausedHere /\ committed \in Absent \cup PausedHere
      BY <1>2, <3>2 DEF Commit, Committed, Absent, PausedHere, FolderKnown, Shape
    <3>3. CASE config \notin Absent /\ ~(config \in PausedHere /\ committed \in Absent \cup PausedHere)
      <4>1. registry' = Registered(registry, config)
        BY <1>2, <3>3 DEF Commit, Committed
      <4>2. /\ Sound(registry')
            /\ \A n : Knows(registry, n) => Knows(registry', n)
            /\ Offered(registry') => Offered(registry)
            /\ config \in {"shared", "paused"} => Offered(registry') = Offered(registry)
            /\ config = "shared" => registry'.folderState = incarnation
            /\ config = "paused" => registry'.folderState = None
        BY <4>1, RegisteredIsSound DEF Shape
      <4>3. ~left' => config \in {"shared", "paused"}
        BY <1>2 DEF Commit
      <4> QED
        BY <4>2, <4>3
    <3> QED
      BY <3>1, <3>2, <3>3
  <2>2. Shape'
    BY <1>2 DEF Commit, Shape
  <2>3. LastMessage'
    BY <1>2, <2>1 DEF Commit, LastMessage, Shape
  <2>4. FolderKnown'
    BY <1>2, <2>1, NoneIsNothing DEF Commit, FolderKnown, Shape, Absent
  <2> QED
    BY <2>1, <2>2, <2>3, <2>4
<1>3. CASE DropFolder
  <2>1. Shape'
    <3>1. incarnation' \in Nat /\ committed' = config /\ dropping' = FALSE
      BY <1>3 DEF DropFolder, Shape
    <3>2. UNCHANGED <<config, info, left, remote, inbox, decided>>
      BY <1>3 DEF DropFolder
    <3> QED
      BY <3>1, <3>2 DEF Shape
  <2>2. LastMessage'
    BY <1>3 DEF DropFolder, LastMessage
  <2>3. FolderKnown'
    BY <1>3 DEF DropFolder, FolderKnown, Absent
  <2> QED
    BY <1>3, <2>1, <2>2, <2>3 DEF DropFolder
<1>4. CASE \E f \in {"absent", "paused", "running"} : RemoteChanges(f)
  BY <1>4 DEF RemoteChanges, Shape, Folders, LastMessage, FolderKnown
<1>5. CASE HandleClusterConfig
  <2> DEFINE Messages == [folder : Folders, info : Nat]
  <2>0. decided' \in [op : {"add", "remove"}, info : Nat]
    <3>1. Head(inbox) \in Messages
      BY <1>5, LastOfTail DEF HandleClusterConfig, Shape
    <3> QED
      BY <1>5, <3>1 DEF HandleClusterConfig
  <2>1. Shape'
    <3>1. inbox \in Seq(Messages) /\ inbox # <<>>
      BY <1>5 DEF HandleClusterConfig, Shape
    <3>2. Head(inbox) \in Messages /\ Tail(inbox) \in Seq(Messages)
      BY <3>1, LastOfTail
    <3> QED
      BY <1>5, <3>2, <2>0 DEF HandleClusterConfig, Shape
  <2>2. LastMessage'
    <3>0. inbox \in Seq(Messages) /\ inbox # <<>> /\ inbox' = Tail(inbox)
      BY <1>5 DEF HandleClusterConfig, Shape
    <3>1. inbox' # <<>> => inbox'[Len(inbox')] = inbox[Len(inbox)]
      BY <3>0, LastOfTail
    <3>2. inbox' = <<>> => Head(inbox) = inbox[Len(inbox)]
      BY <3>0, LastOfTail
    <3>3. inbox[Len(inbox)] = [folder |-> remote, info |-> info] /\ remote' = remote /\ info' = info
      BY <1>5, <3>0 DEF HandleClusterConfig, LastMessage
    <3>4. decided' # None
      BY <2>0, NoneIsNothing
    <3>5. inbox' = <<>> =>
            /\ decided'.info = info'
            /\ decided'.op = "add" => remote' = "running"
            /\ ~left' /\ remote' = "running" => decided'.op = "add"
      <4> SUFFICES ASSUME inbox' = <<>>
                   PROVE  /\ decided'.info = info'
                          /\ decided'.op = "add" => remote' = "running"
                          /\ ~left' /\ remote' = "running" => decided'.op = "add"
        OBVIOUS
      <4>1. Head(inbox).folder = remote /\ Head(inbox).info = info
        BY <3>2, <3>3
      <4>2. ~left' /\ remote = "running" => config # "ignored"
        BY <1>5, <4>1 DEF HandleClusterConfig
      <4>3. CASE remote = "running" /\ config # "ignored"
        BY <1>5, <3>3, <4>1, <4>3 DEF HandleClusterConfig
      <4>4. CASE ~(remote = "running" /\ config # "ignored")
        BY <1>5, <3>3, <4>1, <4>2, <4>4 DEF HandleClusterConfig
      <4> QED
        BY <4>3, <4>4
    <3>6. inbox' # <<>> => inbox'[Len(inbox')] = [folder |-> remote', info |-> info']
      BY <3>1, <3>3
    <3> QED
      BY <3>4, <3>5, <3>6 DEF LastMessage
  <2>3. FolderKnown'
    BY <1>5 DEF HandleClusterConfig, FolderKnown, Shape
  <2> QED
    BY <1>5, <2>1, <2>2, <2>3 DEF HandleClusterConfig
<1>6. CASE ApplyClusterConfig
  <2>1. decided \in [op : {"add", "remove"}, info : Nat]
    BY <1>6 DEF ApplyClusterConfig, Shape
  <2>2. /\ Sound(registry') /\ registry'.folderState = registry.folderState
        /\ decided.op = "add" => Offered(registry') /\ Knows(registry', decided.info)
        /\ decided.op # "add" => ~Offered(registry')
    BY <1>6, <2>1, WithIndexInfoIsSound, RemovedIsSound DEF ApplyClusterConfig
  <2>3. Shape' /\ FolderKnown'
    BY <1>6, <2>2 DEF ApplyClusterConfig, Shape, FolderKnown
  <2>4. LastMessage'
    BY <1>6, <2>1, <2>2 DEF ApplyClusterConfig, LastMessage, Offered, Knows
  <2> QED
    BY <2>2, <2>3, <2>4
<1>7. CASE IndexArrives
  <2>1. CASE Accepts
    BY <1>7, <2>1 DEF IndexArrives, Shape, LastMessage, FolderKnown
  <2>2. CASE ~Accepts
    <3>1. Sound(registry')
          /\ IF committed = "shared" /\ ~dropping THEN registry'.folderState = incarnation
             ELSE registry'.folderState = None
      BY <1>7, <2>2, NoRegistryIsSound, RegisteredIsSound DEF IndexArrives, Shape, Absent
    <3>2. inbox' = <<[folder |-> remote, info |-> info + 1]>> /\ info' = info + 1 /\ ~left' /\ left' \in BOOLEAN
      BY <1>7, <2>2 DEF IndexArrives
    <3>3. Shape'
      BY <1>7, <3>2 DEF IndexArrives, Shape
    <3>4. LastMessage'
      BY <1>7, <3>2 DEF IndexArrives, LastMessage
    <3>5. FolderKnown'
      BY <1>7, <3>1, <3>2, NoneIsNothing DEF IndexArrives, FolderKnown, Shape
    <3> QED
      BY <3>1, <3>3, <3>4, <3>5
  <2> QED
    BY <2>1, <2>2
<1>8. CASE UNCHANGED vars
  BY <1>8 DEF vars, Shape, LastMessage, FolderKnown
<1> QED
  BY <1>1, <1>2, <1>3, <1>4, <1>5, <1>6, <1>7, <1>8 DEF Next

-----------------------------------------------------------------------------
(* Theorems *)

\* Information that waits for a folder to run is never beside a handler with other
\* information, in whatever order ClusterConfigs and commits reach the registry.
THEOREM InformationWaitsOrRuns == Spec => []WaitsOrRuns
<1> QED
  BY InitInv, StepInv, InvImplies, PTL DEF Spec

\* The handler has the information of the last ClusterConfig, runs in the end when both
\* sides want it to, and only then, if the device did not leave the folder meanwhile.
THEOREM HandlersFollowBothSides == Spec => []HandlersFollow
<1> QED
  BY InitInv, StepInv, InvImplies, PTL DEF Spec

-----------------------------------------------------------------------------
(* LocalIndex: what holds whatever a crash has left *)

Records == [file : L!Files \cup {L!Gone}, seq : 0..MaxSeq]
Database == [files : [LocalNames -> Records], keys : [L!Seqs -> SUBSET LocalNames],
             blocks : SUBSET (LocalNames \X Contents), lists : SUBSET (LocalNames \X Contents), seq : 0..MaxSeq, id : Nat]

\* An update at each of its steps.
Removing == [step : {"remove"}, name : LocalNames, file : L!Files]
Updating(steps) == [step : steps, name : LocalNames, file : L!Files, same : BOOLEAN]
Updates == {L!NoUpdate} \cup Removing \cup Updating({"put", "key", "blocks"})
At(step) == update.step = step

LocalTypes ==
  /\ disk \in Database /\ view \in Database /\ view.id = disk.id
  /\ sequence \in 0..MaxSeq /\ oldSequence \in 0..MaxSeq /\ sent \in 0..MaxSeq
  /\ phase \in {"up", "down", "recalculated", "repaired"}
  /\ update \in Updates
  /\ real \in [LocalNames -> L!Files \cup {L!Gone}]
  /\ given \subseteq [id : Nat, seq : 1..MaxSeq, name : LocalNames, file : Records]
  /\ torn \in BOOLEAN

\* The file that a sequence key leads to has that number, and no two files have one number.
Fits(d) ==
  /\ \A q \in L!Seqs : \A n \in d.keys[q] : d.files[n].seq = q
  /\ \A n \in LocalNames : d.files[n] = L!NoFile <=> d.files[n].seq = 0
  /\ \A m, n \in LocalNames : d.files[m].seq = d.files[n].seq /\ d.files[m].seq # 0 => m = n

\* No file is above the sequence that is stored, and none in the batch above that in memory.
Below ==
  /\ \A n \in LocalNames : disk.files[n].seq <= disk.seq
  /\ phase = "up" => disk.seq <= sequence /\ \A n \in LocalNames : view.files[n].seq <= sequence
  /\ phase \in {"recalculated", "repaired"} => sequence = disk.seq
  /\ phase = "recalculated" => sequence = L!HighestSeq(disk)

\* An update is under way only while the folder is up.
UpdateFits ==
  /\ phase # "up" => view = disk /\ update = L!NoUpdate
  /\ At("remove") \/ At("put") => sequence < MaxSeq
  /\ At("put") => \A q \in L!Seqs : update.name \notin view.keys[q]
  /\ At("key") => view.files[update.name].seq = sequence
  /\ At("key") \/ At("blocks") => view.files[update.name].file = update.file

\* What has been sent is not above what was stored before the check.
LastStored == IF phase \in {"recalculated", "repaired"} THEN oldSequence ELSE disk.seq
SentFits ==
  /\ sent <= LastStored
  /\ \A g \in given : g.id <= disk.id /\ (g.id = disk.id => g.seq <= LastStored)

Always == LocalTypes /\ Fits(disk) /\ Fits(view) /\ Below /\ UpdateFits /\ SentFits /\ L!CheckRepairs

-----------------------------------------------------------------------------
(* LocalIndex: what holds until a crash leaves half an update *)

\* The file in the batch without its sequence key, and that without its blocks.
Keyless == IF At("put") \/ At("key") THEN {update.name} ELSE {}
Blockless == IF At("put") \/ At("key") \/ At("blocks") THEN {update.name} ELSE {}
KeysRight == L!Wrong(view) \subseteq Keyless
BlocksRight ==
  \A n \in LocalNames : \A c \in Contents :
    <<n, c>> \in view.blocks <=> view.files[n].file.valid /\ view.files[n].file.content = c /\ n \notin Blockless

\* What the batch changes has gone or has a new number.
BatchIsLater ==
  \A n \in LocalNames : view.files[n] = disk.files[n] \/ view.files[n] = L!NoFile \/ view.files[n].seq > disk.seq

\* A number that was given out is that of the same file in the database.
NumbersKept(d) ==
  \A g \in given, n \in LocalNames : g.id = disk.id /\ g.seq = d.files[n].seq => g.name = n /\ g.file = d.files[n]

\* The batch is about to give another number to the file.
Superseded(n) == (At("put") /\ update.name = n) \/ view.files[n] # disk.files[n]
\* A file without its key in the database is superseded, or is the last, which has not been sent.
KeylessOnDisk == \A n \in L!Wrong(disk) : Superseded(n) \/ disk.files[n].seq = disk.seq
GivenUpToSent ==
  \A n \in LocalNames : disk.files[n].seq \in 1..sent =>
    \/ [id |-> disk.id, seq |-> disk.files[n].seq, name |-> n, file |-> disk.files[n]] \in given
    \/ n \in L!Wrong(disk) /\ Superseded(n)

UntilTorn == KeysRight /\ BlocksRight /\ BatchIsLater /\ NumbersKept(disk) /\ NumbersKept(view) /\ KeylessOnDisk /\ GivenUpToSent

LocalInv == Always /\ (~torn => UntilTorn)

-----------------------------------------------------------------------------
(* The operators *)

\* A set of natural numbers with an element has a smallest one...
LEMMA SmallestIsThere ==
  ASSUME NEW N \in SUBSET Nat, N # {}
  PROVE  L!Min(N) \in N /\ \A k \in N : L!Min(N) <= k
<1>1. IsWellFoundedOn(OpToRel(<, Nat), Nat)
  BY NatLessThanWellFounded
<1>2. PICK i \in N : \A k \in N : <<k, i>> \notin OpToRel(<, Nat)
  BY <1>1, WFMin
<1>3. \A k \in N : ~(k < i)
  BY <1>2 DEF OpToRel
<1>4. \A k \in N : k \in Nat /\ i <= k
  BY <1>3
<1> QED
  BY <1>4 DEF L!Min

\* ... and, if it is bounded, a largest one.
LEMMA LargestIsThere ==
  ASSUME NEW N \in SUBSET Nat, N # {}, NEW b \in Nat, \A k \in N : k <= b
  PROVE  L!Max(N) \in N /\ \A k \in N : k <= L!Max(N)
<1> DEFINE R == {b - k : k \in N}
<1>1. R \in SUBSET Nat /\ R # {}
  OBVIOUS
<1>2. L!Min(R) \in R /\ \A k \in R : L!Min(R) <= k
  BY <1>1, SmallestIsThere
<1>3. PICK m \in N : L!Min(R) = b - m
  BY <1>2
<1>4. ASSUME NEW k \in N PROVE m >= k
  <2>1. b - k \in R
    OBVIOUS
  <2>2. b - m <= b - k
    BY <1>2, <1>3, <2>1
  <2> QED
    BY <2>2
<1> QED
  BY <1>4 DEF L!Max

\* The highest number is that of a file, and none is above it.
LEMMA HighestIs ==
  ASSUME NEW d \in Database
  PROVE  /\ L!HighestSeq(d) \in 0..MaxSeq
         /\ \A n \in LocalNames : d.files[n].seq <= L!HighestSeq(d)
         /\ L!HighestSeq(d) = 0 \/ \E n \in LocalNames : L!HighestSeq(d) = d.files[n].seq
<1> DEFINE N == {d.files[n].seq : n \in LocalNames} \cup {0}
<1>1. \A n \in LocalNames : d.files[n].seq \in 0..MaxSeq
  BY DEF Database, Records
<1>2. N \in SUBSET Nat /\ N # {} /\ \A k \in N : k \in 0..MaxSeq /\ k <= MaxSeq
  BY <1>1, LocalIndexAssumption
<1>3. L!Max(N) \in N /\ \A k \in N : k <= L!Max(N)
  BY <1>2, LargestIsThere, LocalIndexAssumption
<1>4. L!HighestSeq(d) = L!Max(N)
  BY DEF L!HighestSeq
<1> QED
  BY <1>2, <1>3, <1>4

\* The info of a file that is removed is its key, and its blocks.
LEMMA WithoutInfoIs ==
  ASSUME NEW d \in Database, NEW n \in LocalNames, NEW lists \in BOOLEAN
  PROVE  LET e == L!WithoutInfo(d, n, lists) IN
         /\ e \in Database /\ e.files = d.files /\ e.id = d.id /\ e.seq = d.seq
         /\ \A q \in L!Seqs : e.keys[q] = IF q = d.files[n].seq THEN {} ELSE d.keys[q]
         /\ \A m \in LocalNames, c \in Contents :
              <<m, c>> \in e.blocks <=>
                <<m, c>> \in d.blocks /\ ~(m = n /\ d.files[n].file.valid /\ d.files[n].file.content = c)
<1> DEFINE f == d.files[n].file
           ks == [q \in L!Seqs |-> IF q = d.files[n].seq THEN {} ELSE d.keys[q]]
           bs == IF f.valid THEN d.blocks \ {<<n, f.content>>} ELSE d.blocks
           ls == IF f.valid /\ lists THEN d.lists \ {<<n, f.content>>} ELSE d.lists
<1>1. ks \in [L!Seqs -> SUBSET LocalNames] /\ bs \in SUBSET (LocalNames \X Contents) /\ ls \in SUBSET (LocalNames \X Contents)
  BY DEF Database
<1>2. L!WithoutInfo(d, n, lists) = [d EXCEPT !.keys = ks, !.blocks = bs, !.lists = ls]
  BY DEF L!WithoutInfo, Database
<1>3. \A m \in LocalNames, c \in Contents : <<m, c>> \in bs <=> <<m, c>> \in d.blocks /\ ~(m = n /\ f.valid /\ f.content = c)
  OBVIOUS
<1>4. \A q \in L!Seqs : ks[q] = IF q = d.files[n].seq THEN {} ELSE d.keys[q]
  OBVIOUS
<1> HIDE DEF ks, bs, ls
<1> DEFINE e == [d EXCEPT !.keys = ks, !.blocks = bs, !.lists = ls]
<1>5. e \in Database /\ e.files = d.files /\ e.id = d.id /\ e.seq = d.seq /\ e.keys = ks /\ e.blocks = bs
  BY <1>1 DEF Database
<1> QED
  BY <1>2, <1>3, <1>4, <1>5

\* The values that the lemmas below compare.
LEMMA DatabaseValues ==
  /\ L!NoFile \in Records /\ L!NoFile.seq = 0 /\ L!NoFile.file = L!Gone /\ ~L!Gone.valid
  /\ \A d \in Database :
       /\ d.seq \in Nat /\ d.seq <= MaxSeq /\ d.id \in Nat
       /\ \A n \in LocalNames : /\ d.files[n] \in Records
                                /\ d.files[n].seq \in Nat /\ d.files[n].seq <= MaxSeq
                                /\ d.files[n].file.valid \in BOOLEAN
                                /\ d.files[n].file.valid => d.files[n].file.content \in Contents
       /\ \A q \in L!Seqs : d.keys[q] \subseteq LocalNames
  /\ \A q : q \in L!Seqs <=> q \in Nat /\ 1 <= q /\ q <= MaxSeq
<1>1. L!NoFile \in Records /\ L!NoFile.seq = 0 /\ L!NoFile.file = L!Gone /\ ~L!Gone.valid
  BY LocalIndexAssumption DEF L!NoFile, L!Gone, Records
<1>2. ASSUME NEW d \in Database
      PROVE  /\ d.seq \in Nat /\ d.seq <= MaxSeq /\ d.id \in Nat
             /\ \A n \in LocalNames : /\ d.files[n] \in Records
                                      /\ d.files[n].seq \in Nat /\ d.files[n].seq <= MaxSeq
                                      /\ d.files[n].file.valid \in BOOLEAN
                                      /\ d.files[n].file.valid => d.files[n].file.content \in Contents
             /\ \A q \in L!Seqs : d.keys[q] \subseteq LocalNames
  <2>1. \A f \in L!Files \cup {L!Gone} : f.valid \in BOOLEAN /\ (f.valid => f.content \in Contents)
    <3>1. ASSUME NEW f \in L!Files PROVE f.valid \in BOOLEAN /\ f.content \in Contents
      <4>1. PICK c \in Contents, v \in BOOLEAN : f = [content |-> c, valid |-> v]
        BY DEF L!Files
      <4> QED
        BY <4>1
    <3>2. L!Gone.valid = FALSE
      BY DEF L!Gone
    <3> QED
      BY <3>1, <3>2
  <2>2. \A x \in Records : x.seq \in Nat /\ x.seq <= MaxSeq /\ x.file \in L!Files \cup {L!Gone}
    BY LocalIndexAssumption DEF Records
  <2>3. /\ d.seq \in Nat /\ d.seq <= MaxSeq /\ d.id \in Nat
        /\ \A n \in LocalNames : d.files[n] \in Records
        /\ \A q \in L!Seqs : d.keys[q] \subseteq LocalNames
    BY LocalIndexAssumption DEF Database
  <2> QED
    BY <2>1, <2>2, <2>3
<1>3. \A q : q \in L!Seqs <=> q \in Nat /\ 1 <= q /\ q <= MaxSeq
  BY LocalIndexAssumption DEF L!Seqs
<1> QED
  BY <1>1, <1>2, <1>3

\* In a database that fits, a file without its key is one with a number that leads nowhere.
LEMMA WrongIs ==
  ASSUME NEW d \in Database, Fits(d)
  PROVE  \A n \in LocalNames :
           /\ n \in L!Wrong(d) <=> d.files[n].seq # 0 /\ n \notin d.keys[d.files[n].seq]
           /\ d.files[n].seq # 0 => d.files[n].seq \in L!Seqs
<1> TAKE n \in LocalNames
<1>1. d.files[n].seq # 0 => d.files[n].seq \in L!Seqs
  BY DatabaseValues
<1>2. d.files[n] = L!NoFile <=> d.files[n].seq = 0
  BY DEF Fits
<1>3. ASSUME d.files[n].seq # 0
      PROVE  d.keys[d.files[n].seq] # {n} <=> n \notin d.keys[d.files[n].seq]
  <2>1. d.files[n].seq \in L!Seqs /\ d.keys[d.files[n].seq] \subseteq LocalNames
    BY <1>1, <1>3, DatabaseValues
  <2>2. \A m \in d.keys[d.files[n].seq] : m = n
    BY <1>3, <2>1 DEF Fits
  <2> QED
    BY <2>2
<1> QED
  BY <1>1, <1>2, <1>3 DEF L!Wrong

-----------------------------------------------------------------------------
(* The actions keep the invariant *)

\* What is not looked at may change.
LEMMA NothingKeepsLocal ==
  ASSUME LocalInv, UNCHANGED <<disk, view, sequence, phase, oldSequence, update, sent, given, torn>>,
         real' \in [LocalNames -> L!Files \cup {L!Gone}]
  PROVE  LocalInv'
<1>1. LocalTypes'
  BY DEF LocalInv, Always, LocalTypes
<1>2. Fits(disk)' /\ Fits(view)'
  BY DEF LocalInv, Always, Fits
<1>3. Below' /\ UpdateFits' /\ SentFits' /\ L!CheckRepairs'
  BY DEF LocalInv, Always, Below, UpdateFits, SentFits, LastStored, At, L!CheckRepairs, L!HighestSeq
<1>4. UntilTorn => UntilTorn'
  BY DEF UntilTorn, KeysRight, BlocksRight, BatchIsLater, NumbersKept, KeylessOnDisk, GivenUpToSent,
         Keyless, Blockless, Superseded, At, L!Wrong
<1> QED
  BY <1>1, <1>2, <1>3, <1>4 DEF LocalInv, Always

\* An update begins where none is under way.
LEMMA BeginKeepsLocal ==
  ASSUME LocalInv, NEW n \in LocalNames, L!Begin(n) PROVE LocalInv'
<1>1. /\ phase = "up" /\ update.step = "none" /\ sequence < MaxSeq /\ real[n] \in L!Files
      /\ update' = [step |-> "remove", name |-> n, file |-> real[n]]
      /\ update'.step = "remove"
      /\ UNCHANGED <<disk, view, sequence, phase, oldSequence, real, sent, given, torn>>
  BY DEF L!Begin, L!Idle, L!NoUpdate, LocalInv, Always, LocalTypes
<1>2. LocalTypes'
  <2>1. update' \in Removing
    BY <1>1 DEF Removing
  <2> QED
    BY <1>1, <2>1 DEF LocalInv, Always, LocalTypes, Updates
<1>3. Fits(disk)' /\ Fits(view)'
  BY <1>1 DEF LocalInv, Always, Fits
<1>4. Below' /\ UpdateFits' /\ SentFits' /\ L!CheckRepairs'
  BY <1>1 DEF LocalInv, Always, Below, UpdateFits, SentFits, LastStored, At, L!CheckRepairs, L!HighestSeq
<1>5. UntilTorn => UntilTorn'
  <2>1. Keyless = {} /\ Keyless' = {} /\ Blockless = {} /\ Blockless' = {}
        /\ \A m : Superseded(m)' <=> Superseded(m)
    BY <1>1 DEF Keyless, Blockless, Superseded, At
  <2> QED
    BY <1>1, <2>1 DEF UntilTorn, KeysRight, BlocksRight, BatchIsLater, NumbersKept, KeylessOnDisk, GivenUpToSent, L!Wrong
<1> QED
  BY <1>1, <1>2, <1>3, <1>4, <1>5 DEF LocalInv, Always

\* The old number of a file that is updated loses its key.
LEMMA RemoveInfoKeepsLocal ==
  ASSUME LocalInv, L!RemoveInfo PROVE LocalInv'
<1> DEFINE n == update.name
<1>1. /\ update \in Removing /\ n \in LocalNames /\ phase = "up" /\ sequence < MaxSeq
      /\ update' = [step |-> "put", name |-> n, file |-> update.file, same |-> L!SameBlocks]
      /\ UNCHANGED <<disk, sequence, phase, oldSequence, real, sent, given, torn>>
  BY DEF L!RemoveInfo, LocalInv, Always, LocalTypes, UpdateFits, At, Updates, Removing, Updating, L!NoUpdate
<1>2. update.step = "remove" /\ update'.step = "put" /\ update'.name = n /\ update' \in Updates
  <2>1. update.step = "remove" /\ update.file \in L!Files /\ L!SameBlocks \in BOOLEAN
    BY <1>1 DEF Removing, L!SameBlocks
  <2> QED
    BY <1>1, <2>1 DEF Updating, Updates
<1>3. view \in Database /\ disk \in Database /\ Fits(view) /\ Fits(disk)
  BY DEF LocalInv, Always, LocalTypes
<1>4. /\ view' \in Database /\ view'.files = view.files /\ view'.id = view.id
      /\ \A q \in L!Seqs : view'.keys[q] = IF q = view.files[n].seq THEN {} ELSE view.keys[q]
      /\ \A m \in LocalNames, c \in Contents :
           <<m, c>> \in view'.blocks <=>
             <<m, c>> \in view.blocks /\ ~(m = n /\ view.files[n].file.valid /\ view.files[n].file.content = c)
  <2>1. CASE view.files[n] = L!NoFile
    <3>1. view' = view /\ view.files[n].seq = 0 /\ ~view.files[n].file.valid
      BY <2>1, DatabaseValues DEF L!RemoveInfo
    <3> QED
      BY <1>3, <3>1, DatabaseValues
  <2>2. CASE view.files[n] # L!NoFile
    <3>1. PICK lists \in BOOLEAN : view' = L!WithoutInfo(view, n, lists)
      BY <2>2 DEF L!RemoveInfo
    <3> QED
      BY <1>1, <1>3, <3>1, WithoutInfoIs
  <2> QED
    BY <2>1, <2>2
<1>5. LocalTypes'
  BY <1>1, <1>2, <1>4 DEF LocalInv, Always, LocalTypes
<1>6. Fits(disk)' /\ Fits(view)'
  BY <1>1, <1>3, <1>4 DEF Fits
<1>7. \A q \in L!Seqs : n \notin view'.keys[q]
  BY <1>3, <1>4 DEF Fits
<1>8. Below' /\ UpdateFits' /\ SentFits' /\ L!CheckRepairs'
  <2>1. Below' /\ SentFits' /\ L!CheckRepairs'
    BY <1>1, <1>4 DEF LocalInv, Always, Below, SentFits, LastStored, L!CheckRepairs, L!HighestSeq
  <2>2. UpdateFits'
    BY <1>1, <1>2, <1>7 DEF UpdateFits, At
  <2> QED
    BY <2>1, <2>2
<1>9. ASSUME UntilTorn PROVE UntilTorn'
  <2>1. Keyless = {} /\ Keyless' = {n} /\ Blockless = {} /\ Blockless' = {n}
        /\ \A m : Superseded(m) => Superseded(m)'
    BY <1>1, <1>2, <1>4 DEF Keyless, Blockless, Superseded, At
  <2>2. L!Wrong(view) = {}
    BY <1>9, <2>1 DEF UntilTorn, KeysRight
  <2>3. KeysRight'
    <3>1. ASSUME NEW m \in L!Wrong(view)', m # n PROVE FALSE
      <4>1. m \in LocalNames /\ view'.files[m].seq # 0 /\ m \notin view'.keys[view'.files[m].seq]
        BY <1>4, <1>6, <3>1, WrongIs DEF L!Wrong
      <4>2. view.files[m].seq # view.files[n].seq /\ view.files[m].seq \in L!Seqs
        BY <1>1, <1>3, <1>4, <3>1, <4>1, WrongIs DEF Fits
      <4>3. m \notin view.keys[view.files[m].seq]
        BY <1>4, <4>1, <4>2
      <4> QED
        BY <1>3, <1>4, <2>2, <4>1, <4>3, WrongIs
    <3> QED
      BY <2>1, <3>1 DEF KeysRight
  <2>4. BlocksRight'
    <3>1. ASSUME NEW m \in LocalNames, NEW c \in Contents
          PROVE  <<m, c>> \in view.blocks <=> view.files[m].file.valid /\ view.files[m].file.content = c
      BY <1>9, <2>1 DEF UntilTorn, BlocksRight
    <3>2. ASSUME NEW m \in LocalNames, NEW c \in Contents
          PROVE  <<m, c>> \in view'.blocks <=> view'.files[m].file.valid /\ view'.files[m].file.content = c /\ m # n
      <4>1. <<m, c>> \in view'.blocks <=>
              <<m, c>> \in view.blocks /\ ~(m = n /\ view.files[n].file.valid /\ view.files[n].file.content = c)
        BY <1>4
      <4>2. view'.files[m] = view.files[m]
        BY <1>4
      <4> QED
        BY <3>1, <4>1, <4>2
    <3> QED
      BY <2>1, <3>2 DEF BlocksRight
  <2> QED
    BY <1>1, <1>4, <1>9, <2>1, <2>3, <2>4
    DEF UntilTorn, BatchIsLater, NumbersKept, KeylessOnDisk, GivenUpToSent, L!Wrong
<1> QED
  BY <1>1, <1>5, <1>6, <1>8, <1>9 DEF LocalInv, Always

\* What is under way, by its step.
LEMMA UpdateIs ==
  ASSUME LocalInv, update.step # "none"
  PROVE  /\ update.name \in LocalNames /\ update.file \in L!Files /\ phase = "up"
         /\ update.file.valid \in BOOLEAN /\ update.file.content \in Contents
         /\ update.step \in {"put", "key", "blocks"} => update \in Updating({"put", "key", "blocks"})
<1>1. update \in Removing \/ update \in Updating({"put", "key", "blocks"})
  BY DEF LocalInv, Always, LocalTypes, Updates, L!NoUpdate
<1>2. update.name \in LocalNames /\ update.file \in L!Files
  BY <1>1 DEF Removing, Updating
<1>3. update.step \in {"put", "key", "blocks"} => update \in Updating({"put", "key", "blocks"})
  BY <1>1 DEF Removing
<1>4. phase = "up"
  BY DEF LocalInv, Always, UpdateFits, L!NoUpdate
<1>5. PICK c \in Contents, v \in BOOLEAN : update.file = [content |-> c, valid |-> v]
  BY <1>2 DEF L!Files
<1> QED
  BY <1>2, <1>3, <1>4, <1>5

\* The file gets the next number, which nothing has yet.
LEMMA PutFileKeepsLocal ==
  ASSUME LocalInv, L!PutFile PROVE LocalInv'
<1> DEFINE n == update.name
           s == sequence + 1
           x == [file |-> update.file, seq |-> s]
<1>1. /\ n \in LocalNames /\ update.file \in L!Files /\ phase = "up" /\ update.step = "put"
      /\ sequence \in Nat /\ sequence < MaxSeq /\ disk.seq <= sequence /\ s \in 0..MaxSeq /\ MaxSeq \in Nat
      /\ update' = [update EXCEPT !.step = "key"] /\ sequence' = s
      /\ view' = [view EXCEPT !.files[n] = x]
      /\ UNCHANGED <<disk, phase, oldSequence, real, sent, given, torn>>
  BY UpdateIs, LocalIndexAssumption
  DEF L!PutFile, L!NextLocalSeq, LocalInv, Always, LocalTypes, UpdateFits, Below, At
<1>2. update'.step = "key" /\ update'.name = n /\ update'.file = update.file /\ update' \in Updates
  BY <1>1, UpdateIs DEF Updating, Updates
<1>3. /\ view \in Database /\ disk \in Database /\ Fits(view) /\ Fits(disk)
      /\ \A m \in LocalNames : view.files[m].seq <= sequence /\ disk.files[m].seq <= disk.seq
      /\ \A q \in L!Seqs : n \notin view.keys[q]
  BY <1>1 DEF LocalInv, Always, LocalTypes, Below, UpdateFits, At
<1>4. /\ view' \in Database /\ view'.keys = view.keys /\ view'.blocks = view.blocks /\ view'.id = view.id
      /\ view'.files[n] = x /\ x.seq = s /\ x.file = update.file
      /\ \A m \in LocalNames : m # n => view'.files[m] = view.files[m]
  <2>1. x \in Records /\ x.seq = s /\ x.file = update.file
    BY <1>1 DEF Records
  <2> HIDE DEF x
  <2> QED
    BY <1>1, <1>3, <2>1 DEF Database
<1> HIDE DEF x
<1>5. LocalTypes'
  BY <1>1, <1>2, <1>4 DEF LocalInv, Always, LocalTypes
<1>6. Fits(disk)'
  BY <1>1, <1>3 DEF Fits
<1>7. Fits(view)'
  <2>1. \A q \in L!Seqs : \A m \in view'.keys[q] : view'.files[m].seq = q
    BY <1>3, <1>4, DatabaseValues DEF Fits
  <2>2. \A m \in LocalNames : view'.files[m] = L!NoFile <=> view'.files[m].seq = 0
    BY <1>1, <1>3, <1>4, DatabaseValues DEF Fits
  <2>3. \A m \in LocalNames : m # n => view'.files[m].seq # s
    BY <1>1, <1>3, <1>4, DatabaseValues
  <2>4. \A k, m \in LocalNames : view'.files[k].seq = view'.files[m].seq /\ view'.files[k].seq # 0 => k = m
    BY <1>3, <1>4, <2>3 DEF Fits
  <2> QED
    BY <2>1, <2>2, <2>4 DEF Fits
<1>8. Below' /\ UpdateFits' /\ SentFits' /\ L!CheckRepairs'
  <2>1. \A m \in LocalNames : view'.files[m].seq <= s
    BY <1>1, <1>3, <1>4, DatabaseValues
  <2>2. Below'
    BY <1>1, <1>3, <2>1, DatabaseValues DEF Below
  <2>3. UpdateFits'
    BY <1>1, <1>2, <1>4 DEF UpdateFits, At
  <2>4. SentFits' /\ L!CheckRepairs'
    BY <1>1 DEF LocalInv, Always, SentFits, LastStored, L!CheckRepairs
  <2> QED
    BY <2>2, <2>3, <2>4
<1>9. ASSUME UntilTorn PROVE UntilTorn'
  <2>1. Keyless = {n} /\ Keyless' = {n} /\ Blockless = {n} /\ Blockless' = {n}
    BY <1>1, <1>2 DEF Keyless, Blockless, At
  <2>2. view'.files[n] # disk.files[n]
    BY <1>1, <1>3, <1>4, DatabaseValues
  <2>3. \A m \in LocalNames : Superseded(m) => Superseded(m)'
    BY <1>1, <1>4, <2>2 DEF Superseded
  <2>4. KeysRight'
    BY <1>3, <1>4, <1>9, <2>1 DEF UntilTorn, KeysRight, L!Wrong
  <2>5. BlocksRight'
    <3>1. ASSUME NEW m \in LocalNames, NEW c \in Contents
          PROVE  <<m, c>> \in view.blocks <=> view.files[m].file.valid /\ view.files[m].file.content = c /\ m # n
      BY <1>9, <2>1 DEF UntilTorn, BlocksRight
    <3>2. ASSUME NEW m \in LocalNames, NEW c \in Contents
          PROVE  <<m, c>> \in view'.blocks <=> view'.files[m].file.valid /\ view'.files[m].file.content = c /\ m # n
      BY <1>4, <3>1
    <3> QED
      BY <2>1, <3>2 DEF BlocksRight
  <2>6. BatchIsLater'
    BY <1>1, <1>3, <1>4, <1>9, DatabaseValues DEF UntilTorn, BatchIsLater
  <2>7. NumbersKept(disk)'
    BY <1>1, <1>9 DEF UntilTorn, NumbersKept
  <2>8. NumbersKept(view)'
    <3>1. ASSUME NEW g \in given, NEW m \in LocalNames, g.id = disk.id, g.seq = view'.files[m].seq
          PROVE  g.name = m /\ g.file = view'.files[m]
      <4>1. g.seq <= disk.seq
        BY <1>1, <3>1 DEF LocalInv, Always, SentFits, LastStored
      <4>2. m # n
        BY <1>1, <1>3, <1>4, <3>1, <4>1, DatabaseValues
      <4> QED
        BY <1>4, <1>9, <3>1, <4>2 DEF UntilTorn, NumbersKept
    <3> QED
      BY <1>1, <3>1 DEF NumbersKept
  <2>9. KeylessOnDisk' /\ GivenUpToSent'
    BY <1>1, <1>9, <2>3 DEF UntilTorn, KeylessOnDisk, GivenUpToSent, L!Wrong
  <2> QED
    BY <2>4, <2>5, <2>6, <2>7, <2>8, <2>9 DEF UntilTorn
<1> QED
  BY <1>1, <1>5, <1>6, <1>7, <1>8, <1>9 DEF LocalInv, Always

\* The new key leads to the file alone.
LEMMA PutKeyKeepsLocal ==
  ASSUME LocalInv, L!PutKey PROVE LocalInv'
<1> DEFINE n == update.name
           s == view.files[n].seq
<1>1. /\ n \in LocalNames /\ update.file \in L!Files /\ phase = "up" /\ update.step = "key"
      /\ update' = [update EXCEPT !.step = "blocks"]
      /\ view' = [view EXCEPT !.keys[s] = {n}]
      /\ UNCHANGED <<disk, sequence, phase, oldSequence, real, sent, given, torn>>
  BY UpdateIs DEF L!PutKey
<1>2. update'.step = "blocks" /\ update'.name = n /\ update'.file = update.file /\ update' \in Updates
  BY <1>1, UpdateIs DEF Updating, Updates
<1>3. view \in Database /\ disk \in Database /\ Fits(view) /\ Fits(disk) /\ view.files[n].file = update.file
  BY <1>1 DEF LocalInv, Always, LocalTypes, UpdateFits, At
<1>4. /\ view' \in Database /\ view'.files = view.files /\ view'.blocks = view.blocks /\ view'.id = view.id
      /\ \A q \in L!Seqs : view'.keys[q] = IF q = s THEN {n} ELSE view.keys[q]
  BY <1>1, <1>3 DEF Database
<1>5. LocalTypes'
  BY <1>1, <1>2, <1>4 DEF LocalInv, Always, LocalTypes
<1>6. Fits(disk)' /\ Fits(view)'
  BY <1>1, <1>3, <1>4 DEF Fits
<1>7. Below' /\ UpdateFits' /\ SentFits' /\ L!CheckRepairs'
  <2>1. UpdateFits'
    BY <1>1, <1>2, <1>3, <1>4 DEF UpdateFits, At
  <2>2. Below' /\ SentFits' /\ L!CheckRepairs'
    BY <1>1, <1>4 DEF LocalInv, Always, Below, SentFits, LastStored, L!CheckRepairs, L!HighestSeq
  <2> QED
    BY <2>1, <2>2
<1>8. ASSUME UntilTorn PROVE UntilTorn'
  <2>1. /\ Keyless = {n} /\ Keyless' = {} /\ Blockless = {n} /\ Blockless' = {n}
        /\ \A m : Superseded(m) <=> Superseded(m)'
    BY <1>1, <1>2, <1>4 DEF Keyless, Blockless, Superseded, At
  <2>2. KeysRight'
    <3>1. ASSUME NEW m \in LocalNames, m \in L!Wrong(view)' PROVE FALSE
      <4>1. /\ view'.files[m].seq # 0 /\ m \notin view'.keys[view'.files[m].seq] /\ view.files[m].seq \in L!Seqs
        BY <1>4, <1>6, <3>1, WrongIs
      <4>2. m # n
        BY <1>4, <4>1
      <4>3. view.files[m].seq # s
        BY <1>1, <1>3, <1>4, <4>1, <4>2 DEF Fits
      <4>4. m \in L!Wrong(view)
        BY <1>3, <1>4, <4>1, <4>3, WrongIs
      <4> QED
        BY <1>8, <2>1, <4>2, <4>4 DEF UntilTorn, KeysRight
    <3> QED
      BY <2>1, <3>1 DEF KeysRight, L!Wrong
  <2>3. BlocksRight'
    <3>1. ASSUME NEW m \in LocalNames, NEW c \in Contents
          PROVE  <<m, c>> \in view.blocks <=> view.files[m].file.valid /\ view.files[m].file.content = c /\ m # n
      BY <1>8, <2>1 DEF UntilTorn, BlocksRight
    <3>2. ASSUME NEW m \in LocalNames, NEW c \in Contents
          PROVE  <<m, c>> \in view'.blocks <=> view'.files[m].file.valid /\ view'.files[m].file.content = c /\ m # n
      BY <1>4, <3>1
    <3> QED
      BY <2>1, <3>2 DEF BlocksRight
  <2> QED
    BY <1>1, <1>4, <1>8, <2>1, <2>2, <2>3
    DEF UntilTorn, BatchIsLater, NumbersKept, KeylessOnDisk, GivenUpToSent, L!Wrong
<1> QED
  BY <1>1, <1>5, <1>6, <1>7, <1>8 DEF LocalInv, Always

\* The blocks of the file end the update.
LEMMA PutBlocksKeepsLocal ==
  ASSUME LocalInv, L!PutBlocks PROVE LocalInv'
<1> DEFINE n == update.name
<1>1. /\ n \in LocalNames /\ phase = "up" /\ update.step = "blocks" /\ update' = L!NoUpdate /\ update'.step = "none"
      /\ UNCHANGED <<disk, sequence, phase, oldSequence, real, sent, given, torn>>
  BY UpdateIs DEF L!PutBlocks, L!NoUpdate
<1>2. view \in Database /\ disk \in Database /\ Fits(view) /\ Fits(disk) /\ view.files[n].file = update.file
  BY <1>1 DEF LocalInv, Always, LocalTypes, UpdateFits, At
<1>3. /\ view' \in Database /\ view'.files = view.files /\ view'.keys = view.keys /\ view'.id = view.id
      /\ view'.blocks = view.blocks \cup L!NewBlocks(update)
  <2>1. L!NewBlocks(update) \in SUBSET (LocalNames \X Contents)
    BY <1>1, UpdateIs DEF L!NewBlocks
  <2>2. PICK ls \in SUBSET (LocalNames \X Contents) :
          view' = [view EXCEPT !.blocks = @ \cup L!NewBlocks(update), !.lists = @ \cup ls]
    BY <2>1 DEF L!PutBlocks
  <2> QED
    BY <1>2, <2>1, <2>2 DEF Database
<1>4. LocalTypes'
  BY <1>1, <1>3 DEF LocalInv, Always, LocalTypes, Updates
<1>5. Fits(disk)' /\ Fits(view)'
  BY <1>1, <1>2, <1>3 DEF Fits
<1>6. Below' /\ UpdateFits' /\ SentFits' /\ L!CheckRepairs'
  BY <1>1, <1>3 DEF LocalInv, Always, Below, UpdateFits, SentFits, LastStored, At, L!CheckRepairs, L!HighestSeq
<1>7. ASSUME UntilTorn PROVE UntilTorn'
  <2>1. /\ Keyless = {} /\ Keyless' = {} /\ Blockless = {n} /\ Blockless' = {}
        /\ \A m : Superseded(m) <=> Superseded(m)'
    BY <1>1, <1>3 DEF Keyless, Blockless, Superseded, At
  <2>2. KeysRight'
    BY <1>3, <1>7, <2>1 DEF UntilTorn, KeysRight, L!Wrong
  <2>3. \A m \in LocalNames, c \in Contents :
          <<m, c>> \in L!NewBlocks(update) <=> m = n /\ view.files[m].file.valid /\ view.files[m].file.content = c
    BY <1>2 DEF L!NewBlocks
  <2>4. BlocksRight'
    <3>1. ASSUME NEW m \in LocalNames, NEW c \in Contents
          PROVE  <<m, c>> \in view.blocks <=> view.files[m].file.valid /\ view.files[m].file.content = c /\ m # n
      BY <1>7, <2>1 DEF UntilTorn, BlocksRight
    <3>2. ASSUME NEW m \in LocalNames, NEW c \in Contents
          PROVE  <<m, c>> \in view'.blocks <=> view'.files[m].file.valid /\ view'.files[m].file.content = c
      BY <1>3, <2>3, <3>1
    <3> QED
      BY <2>1, <3>2 DEF BlocksRight
  <2> QED
    BY <1>1, <1>3, <1>7, <2>1, <2>2, <2>4
    DEF UntilTorn, BatchIsLater, NumbersKept, KeylessOnDisk, GivenUpToSent, L!Wrong
<1> QED
  BY <1>1, <1>4, <1>5, <1>6, <1>7 DEF LocalInv, Always

\* The batch is written, in the middle of an update perhaps.
LEMMA FlushKeepsLocal ==
  ASSUME LocalInv, L!Flush PROVE LocalInv'
<1>1. /\ phase = "up" /\ disk' = L!Flushed /\ view' = L!Flushed
      /\ UNCHANGED <<sequence, phase, oldSequence, update, real, sent, given, torn>>
  BY DEF L!Flush
<1>2. /\ view \in Database /\ disk \in Database /\ Fits(view) /\ Fits(disk) /\ view.id = disk.id
      /\ sequence \in 0..MaxSeq /\ disk.seq <= sequence /\ sequence \in Nat
      /\ \A n \in LocalNames : view.files[n].seq <= sequence /\ disk.files[n].seq <= disk.seq
  BY <1>1, LocalIndexAssumption DEF LocalInv, Always, LocalTypes, Below
<1>3. /\ L!Flushed \in Database /\ L!Flushed.files = view.files /\ L!Flushed.keys = view.keys
      /\ L!Flushed.blocks = view.blocks /\ L!Flushed.id = view.id /\ L!Flushed.seq = sequence
  BY <1>2 DEF L!Flushed, Database
<1>4. LocalTypes'
  BY <1>1, <1>2, <1>3 DEF LocalInv, Always, LocalTypes
<1>5. Fits(disk)' /\ Fits(view)'
  BY <1>1, <1>2, <1>3 DEF Fits
<1>6. Below' /\ UpdateFits' /\ SentFits' /\ L!CheckRepairs'
  <2>1. Below' /\ L!CheckRepairs'
    BY <1>1, <1>2, <1>3 DEF Below, L!CheckRepairs
  <2>2. UpdateFits'
    BY <1>1, <1>3 DEF LocalInv, Always, UpdateFits, At
  <2>3. sent' <= LastStored' /\ LastStored' = sequence
    BY <1>1, <1>2, <1>3, DatabaseValues DEF LocalInv, Always, LocalTypes, SentFits, LastStored
  <2>4. ASSUME NEW g \in given PROVE g.id <= disk.id /\ (g.id = disk.id => g.seq <= sequence)
    <3>1. g.id <= disk.id /\ (g.id = disk.id => g.seq <= disk.seq) /\ g.seq \in 1..MaxSeq
      BY <1>1 DEF LocalInv, Always, LocalTypes, SentFits, LastStored
    <3> QED
      BY <1>2, <3>1, DatabaseValues
  <2> QED
    BY <1>1, <1>2, <1>3, <2>1, <2>2, <2>3, <2>4 DEF SentFits
<1>7. ASSUME UntilTorn PROVE UntilTorn'
  <2>1. /\ Keyless' = Keyless /\ Blockless' = Blockless
        /\ \A m : Superseded(m)' <=> At("put") /\ update.name = m
    BY <1>1 DEF Keyless, Blockless, Superseded, At
  <2>2. KeysRight'
    BY <1>1, <1>3, <1>7, <2>1 DEF UntilTorn, KeysRight, L!Wrong
  <2>3. BlocksRight'
    BY <1>1, <1>3, <1>7, <2>1 DEF UntilTorn, BlocksRight
  <2>4. BatchIsLater' /\ NumbersKept(disk)' /\ NumbersKept(view)'
    BY <1>1, <1>2, <1>3, <1>7 DEF UntilTorn, BatchIsLater, NumbersKept
  <2>5. KeylessOnDisk'
    <3>1. ASSUME NEW n \in L!Wrong(disk)' PROVE Superseded(n)' \/ disk'.files[n].seq = disk'.seq
      <4>1. n \in L!Wrong(view)
        BY <1>1, <1>3, <3>1 DEF L!Wrong
      <4>2. n \in Keyless
        BY <1>7, <4>1 DEF UntilTorn, KeysRight
      <4>3. (At("put") \/ At("key")) /\ n = update.name
        BY <4>2 DEF Keyless
      <4>4. At("key") => view.files[n].seq = sequence
        BY <4>3 DEF LocalInv, Always, UpdateFits
      <4> QED
        BY <1>1, <1>3, <2>1, <4>3, <4>4
    <3> QED
      BY <3>1 DEF KeylessOnDisk
  <2>6. GivenUpToSent'
    <3>1. ASSUME NEW n \in LocalNames, view.files[n].seq \in 1..sent
          PROVE  \/ [id |-> disk.id, seq |-> view.files[n].seq, name |-> n, file |-> view.files[n]] \in given
                 \/ n \in L!Wrong(view) /\ At("put") /\ update.name = n
      <4>1. sent <= disk.seq /\ sent \in Nat
        BY <1>1, LocalIndexAssumption DEF LocalInv, Always, LocalTypes, SentFits, LastStored
      <4>2. view.files[n] = disk.files[n]
        BY <1>2, <1>7, <3>1, <4>1, DatabaseValues DEF UntilTorn, BatchIsLater
      <4>3. [id |-> disk.id, seq |-> view.files[n].seq, name |-> n, file |-> view.files[n]] \in given
            \/ (At("put") /\ update.name = n)
        BY <1>7, <3>1, <4>2 DEF UntilTorn, GivenUpToSent, Superseded
      <4>4. At("put") /\ update.name = n => n \in L!Wrong(view)
        <5>1. At("put") => \A q \in L!Seqs : update.name \notin view.keys[q]
          BY DEF LocalInv, Always, UpdateFits
        <5>2. view.files[n].seq \in L!Seqs /\ view.files[n].seq # 0
          BY <1>2, <3>1, <4>1, DatabaseValues
        <5> QED
          BY <1>2, <5>1, <5>2, WrongIs
      <4> QED
        BY <4>3, <4>4
    <3>2. disk'.id = disk.id /\ disk'.files = view.files /\ L!Wrong(disk)' = L!Wrong(view)
      BY <1>1, <1>2, <1>3 DEF L!Wrong
    <3> QED
      BY <1>1, <2>1, <3>1, <3>2 DEF GivenUpToSent
  <2> QED
    BY <2>2, <2>3, <2>4, <2>5, <2>6 DEF UntilTorn
<1> QED
  BY <1>1, <1>4, <1>5, <1>6, <1>7 DEF LocalInv, Always

\* A file is removed with its key and its blocks.
LEMMA RemoveLocalKeepsLocal ==
  ASSUME LocalInv, NEW n \in LocalNames, L!RemoveLocal(n) PROVE LocalInv'
<1> DEFINE e == L!WithoutInfo(view, n, TRUE)
<1>1. /\ phase = "up" /\ update.step = "none" /\ view.files[n] # L!NoFile
      /\ view' = [e EXCEPT !.files[n] = L!NoFile]
      /\ UNCHANGED <<disk, sequence, phase, oldSequence, update, real, sent, given, torn>>
  BY DEF L!RemoveLocal, L!Idle, L!NoUpdate
<1>2. /\ view \in Database /\ disk \in Database /\ Fits(view) /\ Fits(disk)
      /\ \A m \in LocalNames : view.files[m].seq <= sequence /\ disk.files[m].seq <= disk.seq
      /\ sequence \in Nat
  BY <1>1, LocalIndexAssumption DEF LocalInv, Always, LocalTypes, Below
<1>3. /\ e \in Database /\ e.files = view.files /\ e.id = view.id
      /\ \A q \in L!Seqs : e.keys[q] = IF q = view.files[n].seq THEN {} ELSE view.keys[q]
      /\ \A m \in LocalNames, c \in Contents :
           <<m, c>> \in e.blocks <=>
             <<m, c>> \in view.blocks /\ ~(m = n /\ view.files[n].file.valid /\ view.files[n].file.content = c)
  <2>1. PICK lists \in BOOLEAN : e = L!WithoutInfo(view, n, lists)
    OBVIOUS
  <2> HIDE DEF e
  <2> QED
    BY <1>2, <2>1, WithoutInfoIs
<1> HIDE DEF e
<1>4. /\ view' \in Database /\ view'.id = view.id /\ view'.keys = e.keys /\ view'.blocks = e.blocks
      /\ view'.files[n] = L!NoFile /\ \A m \in LocalNames : m # n => view'.files[m] = view.files[m]
  <2>1. L!NoFile \in Records
    BY DatabaseValues
  <2> QED
    BY <1>1, <1>3, <2>1 DEF Database
<1>5. LocalTypes'
  BY <1>1, <1>4 DEF LocalInv, Always, LocalTypes
<1>6. Fits(disk)'
  BY <1>1, <1>2 DEF Fits
<1>7. Fits(view)'
  BY <1>2, <1>3, <1>4, DatabaseValues DEF Fits
<1>8. Below' /\ UpdateFits' /\ SentFits' /\ L!CheckRepairs'
  <2>1. Below'
    BY <1>1, <1>2, <1>4, DatabaseValues DEF LocalInv, Always, Below
  <2>2. UpdateFits'
    BY <1>1 DEF LocalInv, Always, UpdateFits, At
  <2>3. SentFits' /\ L!CheckRepairs'
    BY <1>1 DEF LocalInv, Always, SentFits, LastStored, L!CheckRepairs
  <2> QED
    BY <2>1, <2>2, <2>3
<1>9. ASSUME UntilTorn PROVE UntilTorn'
  <2>1. Keyless = {} /\ Keyless' = {} /\ Blockless = {} /\ Blockless' = {} /\ ~At("put")
    BY <1>1 DEF Keyless, Blockless, At
  <2>2. KeysRight'
    <3>1. ASSUME NEW m \in LocalNames, m \in L!Wrong(view)' PROVE FALSE
      <4>1. /\ view'.files[m].seq # 0 /\ m \notin view'.keys[view'.files[m].seq]
        BY <1>4, <1>7, <3>1, WrongIs
      <4>2. m # n /\ view'.files[m] = view.files[m]
        BY <1>4, <4>1, DatabaseValues
      <4>3. view.files[m].seq # view.files[n].seq /\ view.files[m].seq \in L!Seqs
        BY <1>2, <4>1, <4>2, WrongIs DEF Fits
      <4>4. m \in L!Wrong(view)
        BY <1>2, <1>3, <1>4, <4>1, <4>2, <4>3, WrongIs
      <4> QED
        BY <1>9, <2>1, <4>4 DEF UntilTorn, KeysRight
    <3> QED
      BY <2>1, <3>1 DEF KeysRight, L!Wrong
  <2>3. BlocksRight'
    <3>1. ASSUME NEW m \in LocalNames, NEW c \in Contents
          PROVE  <<m, c>> \in view.blocks <=> view.files[m].file.valid /\ view.files[m].file.content = c
      BY <1>9, <2>1 DEF UntilTorn, BlocksRight
    <3>2. ASSUME NEW m \in LocalNames, NEW c \in Contents
          PROVE  <<m, c>> \in view'.blocks <=> view'.files[m].file.valid /\ view'.files[m].file.content = c
      BY <1>3, <1>4, <3>1, DatabaseValues
    <3> QED
      BY <2>1, <3>2 DEF BlocksRight
  <2>4. BatchIsLater'
    BY <1>1, <1>4, <1>9 DEF UntilTorn, BatchIsLater
  <2>5. NumbersKept(disk)'
    BY <1>1, <1>9 DEF UntilTorn, NumbersKept
  <2>6. NumbersKept(view)'
    <3>1. \A g \in given : g.seq # 0
      BY LocalIndexAssumption DEF LocalInv, Always, LocalTypes
    <3> QED
      BY <1>1, <1>4, <1>9, <3>1, DatabaseValues DEF UntilTorn, NumbersKept
  <2>7. \A m \in LocalNames : disk.files[m].seq # 0 /\ Superseded(m) => Superseded(m)'
    BY <1>1, <1>4, <2>1, DatabaseValues DEF Superseded
  <2>8. \A m \in L!Wrong(disk) : m \in LocalNames /\ disk.files[m].seq # 0
    BY <1>2, WrongIs DEF L!Wrong
  <2>9. KeylessOnDisk' /\ GivenUpToSent'
    BY <1>1, <1>9, <2>7, <2>8 DEF UntilTorn, KeylessOnDisk, GivenUpToSent, L!Wrong
  <2> QED
    BY <2>2, <2>3, <2>4, <2>5, <2>6, <2>9 DEF UntilTorn
<1> QED
  BY <1>1, <1>5, <1>6, <1>7, <1>8, <1>9 DEF LocalInv, Always

\* What is sent is the first number that has not been, under which there is one file.
LEMMA SendKeepsLocal ==
  ASSUME LocalInv, L!Send PROVE LocalInv'
<1> DEFINE later == {q \in L!Seqs : q > sent /\ disk.keys[q] # {}}
           s == L!Min(later)
<1>1. PICK n \in disk.keys[s] :
        /\ phase = "up" /\ later # {} /\ sent' = s
        /\ given' = given \cup {[id |-> disk.id, seq |-> s, name |-> n, file |-> disk.files[n]]}
        /\ UNCHANGED <<disk, view, sequence, phase, oldSequence, update, real, torn>>
  BY DEF L!Send
<1>2. s \in later /\ \A q \in later : s <= q
  <2>1. later \in SUBSET Nat
    BY DatabaseValues
  <2> QED
    BY <1>1, <2>1, SmallestIsThere
<1>3. /\ s \in L!Seqs /\ s \in Nat /\ s > sent /\ s # 0 /\ s \in 1..MaxSeq /\ s \in 0..MaxSeq
      /\ \A q \in L!Seqs : q > sent /\ disk.keys[q] # {} => s <= q
  BY <1>2, LocalIndexAssumption DEF L!Seqs
<1> HIDE DEF s, later
<1>4. /\ view \in Database /\ disk \in Database /\ Fits(view) /\ Fits(disk) /\ sent \in Nat
      /\ \A m \in LocalNames : disk.files[m].seq <= disk.seq
  BY LocalIndexAssumption DEF LocalInv, Always, LocalTypes, Below
<1>5. /\ n \in LocalNames /\ disk.files[n].seq = s /\ disk.files[n] \in Records /\ s <= disk.seq /\ disk.id \in Nat
      /\ \A m \in LocalNames : disk.files[m].seq = s => m = n
  <2>1. n \in LocalNames /\ disk.files[n].seq = s
    BY <1>3, <1>4, DatabaseValues DEF Fits
  <2> QED
    BY <1>3, <1>4, <2>1, DatabaseValues DEF Fits
<1> DEFINE new == [id |-> disk.id, seq |-> s, name |-> n, file |-> disk.files[n]]
<1>6. new \in [id : Nat, seq : 1..MaxSeq, name : LocalNames, file : Records]
  BY <1>3, <1>5
<1>7. given' = given \cup {new} /\ new.id = disk.id /\ new.seq = s /\ new.name = n /\ new.file = disk.files[n]
  BY <1>1
<1>8. LocalTypes'
  BY <1>1, <1>3, <1>6, <1>7 DEF LocalInv, Always, LocalTypes
<1>9. Fits(disk)' /\ Fits(view)' /\ Below' /\ UpdateFits' /\ L!CheckRepairs'
  BY <1>1 DEF LocalInv, Always, Fits, Below, UpdateFits, At, L!CheckRepairs
<1>10. SentFits'
  BY <1>1, <1>3, <1>4, <1>5, <1>7, DatabaseValues DEF LocalInv, Always, SentFits, LastStored
<1>11. ASSUME UntilTorn PROVE UntilTorn'
  <2>1. Keyless' = Keyless /\ Blockless' = Blockless /\ \A m : Superseded(m)' <=> Superseded(m)
    BY <1>1 DEF Keyless, Blockless, Superseded, At
  <2>2. KeysRight' /\ BlocksRight' /\ BatchIsLater' /\ KeylessOnDisk'
    BY <1>1, <1>11, <2>1 DEF UntilTorn, KeysRight, BlocksRight, BatchIsLater, KeylessOnDisk, L!Wrong
  <2>3. NumbersKept(disk)'
    BY <1>1, <1>5, <1>7, <1>11 DEF UntilTorn, NumbersKept
  <2>4. \A m \in LocalNames : view.files[m].seq = s => m = n /\ view.files[m] = disk.files[m]
    <3>1. ASSUME NEW m \in LocalNames, view.files[m].seq = s PROVE m = n /\ view.files[m] = disk.files[m]
      <4>1. view.files[m] = disk.files[m] \/ view.files[m] = L!NoFile \/ view.files[m].seq > disk.seq
        BY <1>11 DEF UntilTorn, BatchIsLater
      <4>2. view.files[m] # L!NoFile /\ ~(view.files[m].seq > disk.seq)
        BY <1>3, <1>4, <1>5, <3>1, DatabaseValues
      <4> QED
        BY <1>5, <3>1, <4>1, <4>2
    <3> QED
      BY <3>1
  <2>5. NumbersKept(view)'
    BY <1>1, <1>7, <1>11, <2>4 DEF UntilTorn, NumbersKept
  <2>6. GivenUpToSent'
    <3>1. ASSUME NEW m \in LocalNames, disk.files[m].seq \in 1..s
          PROVE  \/ [id |-> disk.id, seq |-> disk.files[m].seq, name |-> m, file |-> disk.files[m]] \in given'
                 \/ m \in L!Wrong(disk) /\ Superseded(m)
      <4>1. disk.files[m].seq \in L!Seqs /\ disk.files[m].seq # 0 /\ disk.files[m].seq \in Nat /\ disk.files[m].seq <= s
        BY <1>3, <1>4, <3>1, DatabaseValues
      <4>2. CASE disk.files[m].seq <= sent
        BY <1>4, <1>7, <1>11, <3>1, <4>1, <4>2 DEF UntilTorn, GivenUpToSent
      <4>3. CASE disk.files[m].seq > sent /\ m \notin L!Wrong(disk)
        <5>1. disk.keys[disk.files[m].seq] # {}
          BY <1>4, <4>1, <4>3, WrongIs
        <5>2. disk.files[m].seq = s
          BY <1>3, <4>1, <4>3, <5>1
        <5> QED
          BY <1>5, <1>7, <5>2
      <4>4. CASE disk.files[m].seq > sent /\ m \in L!Wrong(disk)
        <5>1. Superseded(m) \/ disk.files[m].seq = disk.seq
          BY <1>11, <4>4 DEF UntilTorn, KeylessOnDisk
        <5>2. ASSUME disk.files[m].seq = disk.seq PROVE FALSE
          <6>1. disk.files[m].seq = s
            <7>1. disk.seq \in Nat /\ disk.seq <= s /\ s <= disk.seq
              BY <1>4, <1>5, <4>1, <5>2, DatabaseValues
            <7> QED
              BY <1>3, <5>2, <7>1
          <6>2. m = n
            BY <1>5, <6>1
          <6> QED
            BY <1>4, <4>4, <6>1, <6>2, WrongIs
        <5> QED
          BY <4>4, <5>1, <5>2
      <4> QED
        BY <1>4, <4>1, <4>2, <4>3, <4>4
    <3> QED
      BY <1>1, <2>1, <3>1 DEF GivenUpToSent, L!Wrong
  <2> QED
    BY <2>2, <2>3, <2>5, <2>6 DEF UntilTorn
<1> QED
  BY <1>1, <1>8, <1>9, <1>10, <1>11 DEF LocalInv, Always

\* A crash leaves what is on disk: all of it, or half an update.
LEMMA CrashKeepsLocal ==
  ASSUME LocalInv, L!Crash PROVE LocalInv'
<1>1. /\ phase = "up" /\ phase' = "down" /\ view' = disk /\ update' = L!NoUpdate /\ update'.step = "none"
      /\ torn' = (torn \/ L!Wrong(disk) # {} \/ disk.blocks # L!ValidBlocks(disk))
      /\ UNCHANGED <<disk, sequence, oldSequence, real, sent, given>>
  BY DEF L!Crash, L!NoUpdate
<1>2. disk \in Database /\ Fits(disk)
  BY DEF LocalInv, Always, LocalTypes
<1>3. LocalTypes'
  BY <1>1 DEF LocalInv, Always, LocalTypes, Updates
<1>4. Fits(disk)' /\ Fits(view)'
  BY <1>1, <1>2 DEF Fits
<1>5. Below' /\ UpdateFits' /\ SentFits' /\ L!CheckRepairs'
  BY <1>1 DEF LocalInv, Always, Below, UpdateFits, SentFits, LastStored, At, L!CheckRepairs
<1>6. ASSUME ~torn' PROVE UntilTorn'
  <2>1. ~torn /\ L!Wrong(disk) = {} /\ disk.blocks = L!ValidBlocks(disk) /\ UntilTorn
    BY <1>1, <1>6 DEF LocalInv
  <2>2. Keyless' = {} /\ Blockless' = {} /\ L!Wrong(disk)' = {} /\ L!Wrong(view)' = {}
    BY <1>1, <2>1 DEF Keyless, Blockless, At, L!Wrong
  <2>3. KeysRight' /\ KeylessOnDisk'
    BY <2>2 DEF KeysRight, KeylessOnDisk
  <2>4. BlocksRight'
    <3>1. ASSUME NEW n \in LocalNames, NEW c \in Contents
          PROVE  <<n, c>> \in disk.blocks <=> disk.files[n].file.valid /\ disk.files[n].file.content = c
      BY <2>1 DEF L!ValidBlocks
    <3> QED
      BY <1>1, <2>2, <3>1 DEF BlocksRight
  <2>5. BatchIsLater' /\ NumbersKept(disk)' /\ NumbersKept(view)'
    BY <1>1, <2>1 DEF UntilTorn, BatchIsLater, NumbersKept
  <2>6. GivenUpToSent'
    BY <1>1, <2>1 DEF UntilTorn, GivenUpToSent
  <2> QED
    BY <2>3, <2>4, <2>5, <2>6 DEF UntilTorn
<1> QED
  BY <1>3, <1>4, <1>5, <1>6 DEF LocalInv, Always

-----------------------------------------------------------------------------
(* LocalIndex: start-up *)

\* While the folder is not up, a database whose files and keys stay, under its index ID or
\* a new one, keeps what was given out.
LEMMA StartKeepsUntilTorn ==
  ASSUME LocalInv, UntilTorn, phase # "up", view' = disk', UNCHANGED <<update, given>>,
         disk'.files = disk.files, disk'.keys = disk.keys, disk'.blocks = disk.blocks,
         \/ disk'.id = disk.id /\ sent' = sent
         \/ sent' = 0 /\ \A g \in given : g.id # disk'.id
  PROVE  UntilTorn' /\ L!Wrong(disk) = {}
<1>1. view = disk /\ update.step = "none"
  BY DEF LocalInv, Always, UpdateFits, L!NoUpdate
<1>2. /\ Keyless = {} /\ Keyless' = {} /\ Blockless = {} /\ Blockless' = {}
      /\ \A n : ~Superseded(n)
  BY <1>1 DEF Keyless, Blockless, At, Superseded
<1>3. L!Wrong(disk) = {} /\ L!Wrong(disk)' = {} /\ L!Wrong(view)' = {}
  BY <1>1, <1>2 DEF UntilTorn, KeysRight, L!Wrong
<1>4. KeysRight' /\ KeylessOnDisk'
  BY <1>3 DEF KeysRight, KeylessOnDisk
<1>5. BlocksRight'
  <2>1. view'.files = view.files /\ view'.blocks = view.blocks
    BY <1>1
  <2>2. BlocksRight
    BY DEF UntilTorn
  <2> QED
    BY <1>2, <2>1, <2>2 DEF BlocksRight
<1>6. BatchIsLater' /\ NumbersKept(disk)' /\ NumbersKept(view)'
  BY <1>1 DEF UntilTorn, BatchIsLater, NumbersKept
<1>7. GivenUpToSent'
  <2>1. CASE disk'.id = disk.id /\ sent' = sent
    BY <1>2, <2>1 DEF UntilTorn, GivenUpToSent
  <2>2. CASE sent' = 0
    BY <2>2, LocalIndexAssumption DEF GivenUpToSent
  <2> QED
    BY <2>1, <2>2
<1> QED
  BY <1>3, <1>4, <1>5, <1>6, <1>7 DEF UntilTorn

\* The stored sequence is taken, or recalculated.
LEMMA LoadKeepsLocal ==
  ASSUME LocalInv, L!Load PROVE LocalInv'
<1> DEFINE h == L!HighestSeq(disk)
<1>1. /\ phase = "down" /\ view = disk /\ update = L!NoUpdate /\ update.step = "none"
      /\ UNCHANGED <<update, real, sent, given, torn>>
      /\ disk \in Database /\ Fits(disk)
      /\ \A n \in LocalNames : disk.files[n].seq <= disk.seq
  BY DEF L!Load, L!NoUpdate, LocalInv, Always, LocalTypes, UpdateFits, Below
<1>2. CASE L!Stored
  <2>1. sequence' = disk.seq /\ phase' = "up" /\ UNCHANGED <<disk, view, oldSequence>>
    BY <1>2 DEF L!Stored
  <2>2. LocalTypes'
    BY <1>1, <2>1 DEF LocalInv, Always, LocalTypes, Database
  <2>3. Fits(disk)' /\ Fits(view)' /\ SentFits' /\ L!CheckRepairs'
    BY <1>1, <2>1 DEF LocalInv, Always, Fits, SentFits, LastStored, L!CheckRepairs
  <2>4. Below' /\ UpdateFits'
    BY <1>1, <2>1, DatabaseValues DEF Below, UpdateFits, At
  <2>5. UntilTorn => UntilTorn'
    BY <1>1, <2>1, StartKeepsUntilTorn
  <2> QED
    BY <1>1, <2>2, <2>3, <2>4, <2>5 DEF LocalInv, Always
<1>3. CASE L!Recalc
  <2>1. /\ oldSequence' = disk.seq /\ sequence' = h /\ phase' = "recalculated"
        /\ disk' = [disk EXCEPT !.seq = h] /\ view' = disk'
    BY <1>3 DEF L!Recalc
  <2>2. h \in 0..MaxSeq /\ \A n \in LocalNames : disk.files[n].seq <= h
    BY <1>1, HighestIs
  <2>3. h = L!HighestSeq(disk')
    BY <1>1, <2>1 DEF L!HighestSeq, Database
  <2> HIDE DEF h
  <2>4. /\ disk' \in Database /\ disk'.files = disk.files /\ disk'.keys = disk.keys
        /\ disk'.blocks = disk.blocks /\ disk'.id = disk.id /\ disk'.seq = h
    BY <1>1, <2>1, <2>2 DEF Database
  <2>5. LocalTypes'
    <3>1. disk.seq \in 0..MaxSeq
      BY <1>1 DEF Database
    <3> QED
      BY <1>1, <2>1, <2>2, <2>4, <3>1 DEF LocalInv, Always, LocalTypes
  <2>6. Fits(disk)' /\ Fits(view)'
    BY <1>1, <2>1, <2>4 DEF Fits
  <2>7. SentFits' /\ L!CheckRepairs'
    BY <1>1, <2>1, <2>4 DEF LocalInv, Always, SentFits, LastStored, L!CheckRepairs
  <2>8. Below' /\ UpdateFits'
    <3>1. L!HighestSeq(disk)' = h
      BY <2>3
    <3> QED
      BY <1>1, <2>1, <2>2, <2>4, <3>1 DEF Below, UpdateFits, At
  <2>9. UntilTorn => UntilTorn'
    BY <1>1, <2>1, <2>4, StartKeepsUntilTorn
  <2> QED
    BY <1>1, <2>5, <2>6, <2>7, <2>8, <2>9 DEF LocalInv, Always
<1> QED
  BY <1>2, <1>3 DEF L!Load

Repaired(d, number) == L!WithoutStrays(L!Renumbered(d, number))

\* What the repair makes of a database: every file is found by its number, and by no other.
LEMMA RepairedIs ==
  ASSUME NEW d \in Database, Fits(d), \A n \in LocalNames : d.files[n].seq <= d.seq,
         sequence = d.seq, sequence + L!Cardinality(L!Wrong(d)) <= MaxSeq, NEW number \in L!Renumberings(d)
  PROVE  LET e == Repaired(d, number) IN
         /\ e \in Database /\ e.id = d.id /\ e.blocks = d.blocks /\ e.seq = d.seq
         /\ Fits(e)
         /\ \A n \in LocalNames, q \in L!Seqs : n \in e.keys[q] <=> e.files[n].seq = q
         /\ L!Wrong(d) = {} => e.files = d.files /\ e.keys = d.keys
<1> DEFINE W == L!Wrong(d)
           fs == [n \in LocalNames |-> IF n \in W THEN [d.files[n] EXCEPT !.seq = number[n]] ELSE d.files[n]]
           rs == [q \in L!Seqs |-> IF \E n \in W : number[n] = q THEN {n \in W : number[n] = q} ELSE d.keys[q]]
           ks == [q \in L!Seqs |-> {n \in rs[q] : fs[n].seq = q}]
           e == Repaired(d, number)
<1>1. /\ number \in [W -> (sequence + 1)..(sequence + L!Cardinality(W))]
      /\ \A m, n \in W : number[m] = number[n] => m = n
  BY DEF L!Renumberings
<1>2. L!Cardinality(W) \in Nat /\ W \subseteq LocalNames /\ sequence + L!Cardinality(W) <= MaxSeq
  <2>1. W \subseteq LocalNames
    BY DEF L!Wrong
  <2>2. L!Cardinality(W) = Cardinality(W)
    BY DEF L!Cardinality, Cardinality
  <2> QED
    BY <2>1, <2>2, LocalIndexAssumption, FS_Subset, FS_CardinalityType
<1>3. /\ \A n \in W : number[n] \in Nat /\ number[n] > d.seq /\ number[n] \in 0..MaxSeq /\ number[n] \in L!Seqs
      /\ d.seq \in Nat
  <2>1. d.seq \in Nat
    BY DatabaseValues
  <2>2. ASSUME NEW n \in W
        PROVE  number[n] \in Nat /\ number[n] > d.seq /\ number[n] \in 0..MaxSeq /\ number[n] \in L!Seqs
    <3>1. number[n] \in (sequence + 1)..(sequence + L!Cardinality(W))
      BY <1>1, <2>2
    <3> HIDE DEF W
    <3> QED
      BY <1>2, <2>1, <3>1, LocalIndexAssumption DEF L!Seqs
  <2> QED
    BY <2>1, <2>2
<1>4. L!Renumbered(d, number) = [d EXCEPT !.files = fs, !.keys = rs]
  BY DEF L!Renumbered
<1>6. \A n \in LocalNames : /\ n \notin W => fs[n] = d.files[n]
                            /\ n \in W => fs[n].seq = number[n] /\ fs[n].file = d.files[n].file /\ fs[n] \in Records
  <2>1. ASSUME NEW n \in W PROVE fs[n].seq = number[n] /\ fs[n].file = d.files[n].file /\ fs[n] \in Records
    <3>1. d.files[n] \in Records /\ number[n] \in 0..MaxSeq /\ n \in LocalNames
      BY <1>2, <1>3, DatabaseValues
    <3> HIDE DEF W
    <3> QED
      BY <2>1, <3>1 DEF Records
  <2> QED
    BY <2>1
<1>7. \A q \in L!Seqs : rs[q] \subseteq LocalNames /\ ks[q] = {n \in rs[q] : fs[n].seq = q}
  BY <1>2, DatabaseValues
<1>8. /\ \A n \in W : rs[number[n]] = {n}
      /\ \A q \in L!Seqs : q <= d.seq => rs[q] = d.keys[q]
  BY <1>1, <1>3, DatabaseValues
<1>5. \A q \in L!Seqs : W = {} => rs[q] = d.keys[q]
  OBVIOUS
<1> HIDE DEF fs, rs, ks
<1>9. fs \in [LocalNames -> Records] /\ ks \in [L!Seqs -> SUBSET LocalNames] /\ rs \in [L!Seqs -> SUBSET LocalNames]
  <2>1. ASSUME NEW n \in LocalNames PROVE fs[n] \in Records
    BY <1>6, DatabaseValues
  <2> QED
    BY <1>7, <2>1 DEF fs, ks, rs
<1>10. ASSUME NEW n \in LocalNames, NEW q \in L!Seqs PROVE n \in ks[q] <=> fs[n].seq = q
  <2>1. n \in ks[q] => fs[n].seq = q
    BY <1>7
  <2>2. ASSUME fs[n].seq = q, n \in W PROVE n \in ks[q]
    BY <1>6, <1>7, <1>8, <2>2
  <2>3. ASSUME fs[n].seq = q, n \notin W PROVE n \in ks[q]
    <3>1. d.files[n].seq = q /\ q # 0 /\ q <= d.seq
      BY <1>6, <2>3, DatabaseValues
    <3>2. n \in d.keys[q]
      BY <2>3, <3>1, WrongIs
    <3> QED
      BY <1>7, <1>8, <2>3, <3>1, <3>2
  <2> QED
    BY <2>1, <2>2, <2>3
<1>11. \A n \in LocalNames : fs[n] = L!NoFile <=> fs[n].seq = 0
  BY <1>3, <1>6, DatabaseValues DEF Fits
<1>12. \A m, n \in LocalNames : fs[m].seq = fs[n].seq /\ fs[m].seq # 0 => m = n
  <2>1. ASSUME NEW m \in LocalNames, NEW n \in LocalNames, fs[m].seq = fs[n].seq, fs[m].seq # 0 PROVE m = n
    <3>1. CASE m \in W /\ n \in W
      BY <1>1, <1>6, <2>1, <3>1
    <3>2. CASE m \in W /\ n \notin W
      BY <1>3, <1>6, <2>1, <3>2, DatabaseValues
    <3>3. CASE m \notin W /\ n \in W
      BY <1>3, <1>6, <2>1, <3>3, DatabaseValues
    <3>4. CASE m \notin W /\ n \notin W
      BY <1>6, <2>1, <3>4 DEF Fits
    <3> QED
      BY <3>1, <3>2, <3>3, <3>4
  <2> QED
    BY <2>1
<1>13. ASSUME W = {} PROVE fs = d.files /\ ks = d.keys
  <2>1. \A n \in LocalNames : fs[n] = d.files[n]
    BY <1>6, <1>13
  <2>2. ASSUME NEW q \in L!Seqs PROVE ks[q] = d.keys[q]
    <3>1. rs[q] = d.keys[q]
      BY <1>5, <1>13
    <3>2. \A n \in d.keys[q] : d.files[n].seq = q /\ n \in LocalNames
      BY DatabaseValues DEF Fits
    <3>3. ks[q] = {n \in d.keys[q] : fs[n].seq = q}
      BY <1>7, <3>1
    <3>4. \A n \in d.keys[q] : fs[n].seq = q
      BY <2>1, <3>2
    <3> QED
      BY <3>3, <3>4
  <2>3. d.files = [n \in LocalNames |-> d.files[n]] /\ d.keys = [q \in L!Seqs |-> d.keys[q]]
    BY DEF Database
  <2>4. fs = [n \in LocalNames |-> fs[n]] /\ ks = [q \in L!Seqs |-> ks[q]]
    BY <1>9
  <2> QED
    BY <2>1, <2>2, <2>3, <2>4
<1> HIDE DEF W
<1>14. /\ e \in Database /\ e.files = fs /\ e.keys = ks /\ e.id = d.id /\ e.blocks = d.blocks /\ e.seq = d.seq
  <2> DEFINE x == [d EXCEPT !.files = fs, !.keys = rs]
  <2>1. x \in Database /\ x.files = fs /\ x.keys = rs /\ x.id = d.id /\ x.blocks = d.blocks /\ x.seq = d.seq
    BY <1>9 DEF Database
  <2>2. e = L!WithoutStrays(x)
    BY <1>4 DEF Repaired
  <2> HIDE DEF x, e
  <2>3. e = [x EXCEPT !.keys = [q \in L!Seqs |-> {n \in x.keys[q] : x.files[n].seq = q}]]
    BY <2>2 DEF L!WithoutStrays
  <2>4. [q \in L!Seqs |-> {n \in x.keys[q] : x.files[n].seq = q}] = ks
    BY <2>1 DEF ks
  <2> QED
    BY <1>9, <2>1, <2>3, <2>4 DEF Database
<1> HIDE DEF e
<1>15. Fits(e)
  BY <1>9, <1>10, <1>11, <1>12, <1>14 DEF Fits
<1> QED
  BY <1>10, <1>13, <1>14, <1>15 DEF e, W

\* The repair keeps what a crash has left whole, and mends the rest.
LEMMA RepairKeepsLocal ==
  ASSUME LocalInv, L!Repair PROVE LocalInv'
<1>1. /\ phase = "recalculated" /\ phase' = "repaired" /\ view = disk /\ update = L!NoUpdate /\ update.step = "none"
      /\ sequence = disk.seq /\ sequence = L!HighestSeq(disk)
      /\ sequence + L!Cardinality(L!Wrong(disk)) <= MaxSeq
      /\ UNCHANGED <<oldSequence, update, real, sent, given, torn>>
      /\ disk \in Database /\ Fits(disk)
      /\ \A n \in LocalNames : disk.files[n].seq <= disk.seq
  BY DEF L!Repair, L!NoUpdate, LocalInv, Always, LocalTypes, UpdateFits, Below
<1>2. PICK number \in L!Renumberings(disk) :
        LET d == L!WithoutStrays(L!Renumbered(disk, number))
        IN  disk' = [d EXCEPT !.seq = L!HighestSeq(d)] /\ view' = disk' /\ sequence' = L!HighestSeq(d)
  BY DEF L!Repair
<1> DEFINE e == Repaired(disk, number)
           h == L!HighestSeq(e)
<1>3. disk' = [e EXCEPT !.seq = h] /\ view' = disk' /\ sequence' = h
  BY <1>2 DEF Repaired
<1>4. /\ e \in Database /\ e.id = disk.id /\ e.blocks = disk.blocks
      /\ Fits(e)
      /\ \A n \in LocalNames, q \in L!Seqs : n \in e.keys[q] <=> e.files[n].seq = q
      /\ L!Wrong(disk) = {} => e.files = disk.files /\ e.keys = disk.keys
  <2>1. number \in L!Renumberings(disk)
    BY <1>2
  <2>2. /\ disk \in Database /\ Fits(disk) /\ \A n \in LocalNames : disk.files[n].seq <= disk.seq
        /\ sequence = disk.seq /\ sequence + L!Cardinality(L!Wrong(disk)) <= MaxSeq
    BY <1>1
  <2> QED
    BY ONLY <2>1, <2>2, RepairedIs
<1> HIDE DEF e
<1>5. h \in 0..MaxSeq /\ \A n \in LocalNames : e.files[n].seq <= h
  BY <1>4, HighestIs
<1> HIDE DEF h
<1>6. /\ disk' \in Database /\ disk'.files = e.files /\ disk'.keys = e.keys /\ disk'.seq = h
      /\ disk'.id = disk.id /\ disk'.blocks = disk.blocks
  BY <1>3, <1>4, <1>5 DEF Database
<1>7. LocalTypes'
  BY <1>1, <1>3, <1>5, <1>6 DEF LocalInv, Always, LocalTypes
<1>8. Fits(disk)' /\ Fits(view)'
  BY <1>3, <1>4, <1>6 DEF Fits
<1>9. Below' /\ UpdateFits' /\ SentFits' /\ L!CheckRepairs'
  <2>1. Below' /\ UpdateFits'
    BY <1>1, <1>3, <1>5, <1>6 DEF Below, UpdateFits, At
  <2>2. SentFits'
    BY <1>1, <1>6 DEF LocalInv, Always, SentFits, LastStored
  <2>3. L!CheckRepairs'
    BY <1>4, <1>5, <1>6 DEF L!CheckRepairs
  <2> QED
    BY <2>1, <2>2, <2>3
<1>10. ASSUME UntilTorn PROVE UntilTorn'
  <2>1. L!Wrong(disk) = {}
    <3>1. ~At("put") /\ ~At("key")
      BY <1>1 DEF At
    <3> QED
      BY <1>1, <1>10, <3>1 DEF UntilTorn, KeysRight, Keyless
  <2> QED
    BY <1>1, <1>3, <1>4, <1>6, <1>10, <2>1, StartKeepsUntilTorn
<1> QED
  BY <1>1, <1>7, <1>8, <1>9, <1>10 DEF LocalInv, Always

\* A sequence that has changed makes a new index ID, under which nothing has been given out.
LEMMA CheckUnchangedKeepsLocal ==
  ASSUME LocalInv, L!CheckUnchanged PROVE LocalInv'
<1>1. /\ phase = "repaired" /\ phase' = "up" /\ view = disk /\ update = L!NoUpdate /\ update.step = "none"
      /\ sequence = disk.seq
      /\ UNCHANGED <<sequence, oldSequence, update, real, given, torn>>
      /\ disk \in Database /\ Fits(disk)
      /\ \A n \in LocalNames : disk.files[n].seq <= disk.seq
      /\ sent <= oldSequence /\ \A g \in given : g.id <= disk.id /\ (g.id = disk.id => g.seq <= oldSequence)
  BY DEF L!CheckUnchanged, L!NoUpdate, LocalInv, Always, LocalTypes, UpdateFits, Below, SentFits, LastStored
<1>2. /\ disk' \in Database /\ view' = disk' /\ disk'.files = disk.files /\ disk'.keys = disk.keys
      /\ disk'.blocks = disk.blocks /\ disk'.seq = disk.seq
      /\ \/ disk'.id = disk.id /\ sent' = sent /\ oldSequence = sequence
         \/ disk'.id = disk.id + 1 /\ sent' = 0
  <2>1. CASE L!SequenceChanged
    BY <1>1, <2>1 DEF L!CheckUnchanged, Database
  <2>2. CASE ~L!SequenceChanged
    BY <1>1, <2>2 DEF L!CheckUnchanged, L!SequenceChanged
  <2> QED
    BY <2>1, <2>2
<1>3. \A g \in given : g.id \in Nat /\ disk.id \in Nat
  BY <1>1, DatabaseValues DEF LocalInv, Always, LocalTypes
<1>4. LocalTypes'
  BY <1>1, <1>2, LocalIndexAssumption DEF LocalInv, Always, LocalTypes
<1>5. Fits(disk)' /\ Fits(view)'
  BY <1>1, <1>2 DEF Fits
<1>6. Below' /\ UpdateFits' /\ SentFits' /\ L!CheckRepairs'
  <2>1. Below' /\ UpdateFits' /\ L!CheckRepairs'
    BY <1>1, <1>2, DatabaseValues DEF Below, UpdateFits, At, L!CheckRepairs
  <2>2. SentFits'
    BY <1>1, <1>2, <1>3, DatabaseValues DEF SentFits, LastStored
  <2> QED
    BY <2>1, <2>2
<1>7. ASSUME UntilTorn PROVE UntilTorn'
  <2>1. disk'.id = disk.id + 1 => \A g \in given : g.id # disk'.id
    BY <1>1, <1>3
  <2> QED
    BY <1>1, <1>2, <1>7, <2>1, StartKeepsUntilTorn
<1> QED
  BY <1>1, <1>4, <1>5, <1>6, <1>7 DEF LocalInv, Always

-----------------------------------------------------------------------------
\* The invariant holds in an empty database.
LEMMA LocalInvAtFirst == ASSUME L!Init PROVE LocalInv
<1> DEFINE e == [files |-> [n \in LocalNames |-> L!NoFile], keys |-> [q \in L!Seqs |-> {}],
                 blocks |-> {}, lists |-> {}, seq |-> 0, id |-> 1]
<1>1. /\ disk = e /\ view = disk /\ sequence = 0 /\ phase = "up" /\ oldSequence = 0 /\ update = L!NoUpdate
      /\ real = [n \in LocalNames |-> L!Gone] /\ sent = 0 /\ given = {} /\ torn = FALSE /\ update.step = "none"
  BY DEF L!Init, L!NoUpdate
<1>2. /\ e \in Database /\ e.seq = 0 /\ e.blocks = {}
      /\ \A n \in LocalNames : e.files[n] = L!NoFile
      /\ \A q \in L!Seqs : e.keys[q] = {}
  <2>1. /\ [n \in LocalNames |-> L!NoFile] \in [LocalNames -> Records]
        /\ [q \in L!Seqs |-> {}] \in [L!Seqs -> SUBSET LocalNames]
        /\ 0 \in 0..MaxSeq
    BY DatabaseValues, LocalIndexAssumption
  <2> QED
    BY <2>1 DEF Database
<1> HIDE DEF e
<1>3. LocalTypes
  <2>1. real \in [LocalNames -> L!Files \cup {L!Gone}] /\ 0 \in 0..MaxSeq
    BY <1>1, LocalIndexAssumption
  <2> QED
    BY <1>1, <1>2, <2>1 DEF LocalTypes, Updates
<1>4. Fits(disk) /\ Fits(view)
  BY <1>1, <1>2, DatabaseValues DEF Fits
<1>5. Below /\ UpdateFits /\ SentFits /\ L!CheckRepairs
  BY <1>1, <1>2, DatabaseValues DEF Below, UpdateFits, SentFits, LastStored, At, L!CheckRepairs
<1>6. L!Wrong(disk) = {} /\ L!Wrong(view) = {}
  BY <1>1, <1>2 DEF L!Wrong
<1>7. UntilTorn
  <2>1. BlocksRight /\ GivenUpToSent
    BY <1>1, <1>2, DatabaseValues, LocalIndexAssumption DEF BlocksRight, GivenUpToSent
  <2> QED
    BY <1>1, <1>6, <2>1 DEF UntilTorn, KeysRight, BatchIsLater, NumbersKept, KeylessOnDisk
<1> QED
  BY <1>3, <1>4, <1>5, <1>7 DEF LocalInv, Always

\* Every step keeps it.
LEMMA LocalInvIsKept == ASSUME LocalInv, L!Next \/ UNCHANGED L!vars PROVE LocalInv'
<1>1. ASSUME NEW n \in LocalNames, L!Change(n) PROVE LocalInv'
  <2>1. /\ UNCHANGED <<disk, view, sequence, phase, oldSequence, update, sent, given, torn>>
        /\ real \in [LocalNames -> L!Files \cup {L!Gone}]
        /\ \E f \in L!Files \cup {L!Gone} : real' = [real EXCEPT ![n] = f]
    BY <1>1 DEF L!Change, LocalInv, Always, LocalTypes
  <2>2. real' \in [LocalNames -> L!Files \cup {L!Gone}]
    BY <2>1
  <2> QED
    BY <2>1, <2>2, NothingKeepsLocal
<1>2. CASE UNCHANGED L!vars
  <2>1. real \in [LocalNames -> L!Files \cup {L!Gone}]
    BY DEF LocalInv, Always, LocalTypes
  <2> QED
    BY <1>2, <2>1, NothingKeepsLocal DEF L!vars
<1> QED
  BY <1>1, <1>2, BeginKeepsLocal, RemoveLocalKeepsLocal, RemoveInfoKeepsLocal, PutFileKeepsLocal, PutKeyKeepsLocal,
     PutBlocksKeepsLocal, FlushKeepsLocal, SendKeepsLocal, CrashKeepsLocal, LoadKeepsLocal, RepairKeepsLocal,
     CheckUnchangedKeepsLocal
  DEF L!Next

\* What the runs check follows from the invariant.
LEMMA LocalInvImplies == ASSUME LocalInv PROVE LocalIndexRight
<1>1. disk \in Database /\ view \in Database /\ Fits(disk) /\ Fits(view)
  BY DEF LocalInv, Always, LocalTypes
<1>2. L!NoNumberReused
  BY DEF LocalInv, UntilTorn, NumbersKept, L!NoNumberReused, L!NumbersUnique
<1>3. ASSUME L!Idle, ~torn
      PROVE  Keyless = {} /\ Blockless = {} /\ UntilTorn /\ ~At("put")
  <2>1. update.step = "none"
    BY <1>3 DEF L!Idle, L!NoUpdate
  <2> QED
    BY <1>3, <2>1 DEF LocalInv, Keyless, Blockless, At
<1>4. L!AllSent
  <2> SUFFICES ASSUME L!Idle, ~torn, view = disk, \A q \in L!Seqs : q > sent => disk.keys[q] = {},
                      NEW n \in LocalNames, disk.files[n] # L!NoFile
               PROVE  [id |-> disk.id, seq |-> disk.files[n].seq, name |-> n, file |-> disk.files[n]] \in given
    BY DEF L!AllSent
  <2>1. L!Wrong(disk) = {} /\ UntilTorn /\ ~Superseded(n)
    BY <1>3 DEF UntilTorn, KeysRight, Superseded
  <2>2. disk.files[n].seq # 0 /\ disk.files[n].seq \in L!Seqs /\ disk.files[n].seq \in Nat
    BY <1>1, WrongIs, DatabaseValues DEF Fits
  <2>3. n \in disk.keys[disk.files[n].seq]
    BY <1>1, <2>1, <2>2, WrongIs
  <2>4. disk.files[n].seq \in 1..sent
    <3>1. ~(disk.files[n].seq > sent)
      BY <2>2, <2>3
    <3>2. sent \in Nat
      BY LocalIndexAssumption DEF LocalInv, Always, LocalTypes
    <3> QED
      BY <2>2, <3>1, <3>2
  <2> QED
    BY <2>1, <2>4 DEF UntilTorn, GivenUpToSent
<1>5. L!CheckRepairs
  BY DEF LocalInv, Always
<1>6. L!BlockMapRight
  <2> SUFFICES ASSUME L!Idle, ~torn PROVE view.blocks = L!ValidBlocks(view)
    BY DEF L!BlockMapRight
  <2>1. ASSUME NEW n \in LocalNames, NEW c \in Contents
        PROVE  <<n, c>> \in view.blocks <=> view.files[n].file.valid /\ view.files[n].file.content = c
    BY <1>3 DEF UntilTorn, BlocksRight
  <2>2. view.blocks \subseteq LocalNames \X Contents
    BY <1>1 DEF Database
  <2>3. ASSUME NEW p \in view.blocks PROVE p \in L!ValidBlocks(view)
    <3>1. PICK n \in LocalNames, c \in Contents : p = <<n, c>>
      BY <2>2, <2>3
    <3> QED
      BY <2>1, <2>3, <3>1 DEF L!ValidBlocks
  <2>4. ASSUME NEW p \in L!ValidBlocks(view) PROVE p \in view.blocks
    <3>1. PICK n \in LocalNames : view.files[n].file.valid /\ p = <<n, view.files[n].file.content>>
      BY <2>4 DEF L!ValidBlocks
    <3>2. view.files[n].file.content \in Contents
      BY <1>1, <3>1, DatabaseValues
    <3> QED
      BY <2>1, <3>1, <3>2
  <2> QED
    BY <2>3, <2>4
<1> QED
  BY <1>2, <1>4, <1>5, <1>6 DEF LocalIndexRight

\* A number that was given out with a file under an index ID is not given to another, and
\* when all is quiet others have been sent every file as it is, if no crash has left half an
\* update; after the check at start-up every file is found by its number, whatever a crash
\* has left (updateLocalFiles, repairSequenceGCLocked, checkSequencesUnchanged).
THEOREM LocalIndexKeepsItsWord == L!Spec => []LocalIndexRight
<1>1. L!Init => LocalInv
  BY LocalInvAtFirst
<1>2. LocalInv /\ [L!Next]_(L!vars) => LocalInv'
  BY LocalInvIsKept
<1>3. LocalInv => LocalIndexRight
  BY LocalInvImplies
<1> QED
  BY <1>1, <1>2, <1>3, PTL DEF L!Spec

-----------------------------------------------------------------------------
(* DialSchedule: what keeps the dials of an address apart, and not too far apart *)

Entries == [present : BOOLEAN, next : [Addresses -> Int], age : 0..D!Long, attempts : {0, 1}]

DialTypes ==
  /\ entry \in Entries
  /\ ~entry.present => entry = D!NoEntry
  /\ sleep \in 0..StdSleep
  /\ rampup \in Nat \ {0}
  /\ connected \in BOOLEAN
  /\ waited \in [Addresses -> Nat]
  /\ since \in [Addresses -> Nat]
  /\ \A a \in Addresses : since[a] <= Frequency[a]
  /\ early \in [Addresses -> [count : 0..2, age : 0..D!Long]]

\* What an address has waited, and what is still to come, are within the bound.
Regular(a) ==
  /\ waited[a] + entry.next[a] <= Frequency[a] + StdSleep
  /\ waited[a] + sleep <= Frequency[a] + StdSleep
  /\ connected => waited[a] = 0

\* The address is not due sooner than its frequency says.
Paced(a) == since[a] >= Frequency[a] \/ entry.next[a] + since[a] >= Frequency[a]

\* For how long redialDevice keeps the times of the entry as they are.
Gap ==
  IF ~entry.present \/ entry.attempts = 0 THEN CoolDownInterval
  ELSE IF entry.age < CoolDownInterval THEN CoolDownInterval - entry.age ELSE 0

\* An address whose times were dropped once can be due too soon; they are dropped again no
\* sooner than the interval after that, and by then the try that came too soon is as old.
Spaced(a) ==
  /\ D!Initial => early[a].count = 0
  /\ early[a].count = 2 /\ Paced(a) => early[a].age + Gap >= CoolDownInterval
  /\ early[a].count = 2 /\ ~Paced(a) => early[a].age >= CoolDownInterval
  /\ early[a].count = 1 /\ ~Paced(a) => early[a].age + Gap >= CoolDownInterval

DialInv == DialTypes /\ \A a \in Addresses : Regular(a) /\ Spaced(a)

-----------------------------------------------------------------------------
(* DialSchedule: the operators *)

\* The smaller and the larger of two numbers.
LEMMA OfTwo ==
  ASSUME NEW x \in Int, NEW y \in Int
  PROVE  /\ D!Min({x, y}) = IF x <= y THEN x ELSE y
         /\ D!Max({x, y}) = IF x >= y THEN x ELSE y
<1>1. ASSUME NEW m \in {x, y}, \A k \in {x, y} : m <= k PROVE m = IF x <= y THEN x ELSE y
  BY <1>1
<1>2. ASSUME NEW m \in {x, y}, \A k \in {x, y} : m >= k PROVE m = IF x >= y THEN x ELSE y
  BY <1>2
<1>3. \E m \in {x, y} : \A k \in {x, y} : m <= k
  OBVIOUS
<1>4. \E m \in {x, y} : \A k \in {x, y} : m >= k
  OBVIOUS
<1>5. D!Min({x, y}) \in {x, y} /\ \A k \in {x, y} : D!Min({x, y}) <= k
  BY <1>3 DEF D!Min
<1>6. D!Max({x, y}) \in {x, y} /\ \A k \in {x, y} : D!Max({x, y}) >= k
  BY <1>4 DEF D!Max
<1> QED
  BY <1>1, <1>2, <1>5, <1>6

\* Times are counted up to a bound.
LEMMA CappedIs ==
  ASSUME NEW n \in Nat
  PROVE  D!Capped(n) = IF n <= D!Long THEN n ELSE D!Long
  BY OfTwo, DialAssumption DEF D!Capped, D!Long

\* The loop sleeps until the next address is due, and no longer than its standard sleep.
LEMMA NextDialIs ==
  ASSUME NEW e \in Entries
  PROVE  /\ D!NextDial(e) \in 0..StdSleep
         /\ \A a \in Addresses : e.next[a] >= 0 => D!NextDial(e) <= e.next[a]
<1> DEFINE N == {e.next[a] : a \in {b \in Addresses : e.next[b] >= 0}} \cup {StdSleep}
<1>1. e.next \in [Addresses -> Int]
  BY DEF Entries
<1>2. N \in SUBSET Nat /\ N # {} /\ StdSleep \in N
  BY <1>1, DialAssumption
<1>3. L!Min(N) \in N /\ \A k \in N : L!Min(N) <= k
  BY <1>2, SmallestIsThere
<1>4. D!NextDial(e) = L!Min(N)
  BY DEF D!NextDial, D!Min, L!Min
<1>5. \A a \in Addresses : e.next[a] >= 0 => e.next[a] \in N
  OBVIOUS
<1> HIDE DEF N
<1>6. D!NextDial(e) \in Nat /\ D!NextDial(e) <= StdSleep
  BY <1>2, <1>3, <1>4
<1>7. \A a \in Addresses : e.next[a] >= 0 => D!NextDial(e) <= e.next[a]
  BY <1>3, <1>4, <1>5
<1> QED
  BY <1>6, <1>7, DialAssumption

\* What set writes: the frequency of a usable address, the standard sleep for others due.
LEMMA ScheduledIs ==
  ASSUME entry \in Entries, NEW due, NEW usable, due \subseteq Addresses, usable \subseteq due
  PROVE  LET e == D!Scheduled(due, usable) IN
         /\ e \in Entries /\ e.age = entry.age /\ e.attempts = entry.attempts
         /\ e.present <=> entry.present \/ due # {}
         /\ \A a \in Addresses : e.next[a] = IF a \in usable THEN Frequency[a]
                                             ELSE IF a \in due THEN StdSleep ELSE entry.next[a]
<1> DEFINE p == entry.present \/ due # {}
           nx == [a \in Addresses |-> IF a \in usable THEN Frequency[a]
                                      ELSE IF a \in due THEN StdSleep ELSE entry.next[a]]
<1>1. p \in BOOLEAN
  BY DEF Entries
<1>2. nx \in [Addresses -> Int]
  BY DialAssumption DEF Entries
<1>3. D!Scheduled(due, usable) = [entry EXCEPT !.present = p, !.next = nx]
  BY DEF D!Scheduled, Entries
<1>4. \A a \in Addresses : nx[a] = IF a \in usable THEN Frequency[a]
                                   ELSE IF a \in due THEN StdSleep ELSE entry.next[a]
  OBVIOUS
<1>5. p <=> entry.present \/ due # {}
  OBVIOUS
<1> HIDE DEF p, nx
<1> QED
  BY <1>1, <1>2, <1>3, <1>4, <1>5 DEF Entries

\* The empty entry.
LEMMA NoEntryIs ==
  /\ D!NoEntry \in Entries /\ ~D!NoEntry.present /\ D!NoEntry.attempts = 0
  /\ \A a \in Addresses : D!NoEntry.next[a] = -1
  /\ D!Long \in Nat /\ CoolDownInterval < D!Long
  BY DialAssumption DEF D!NoEntry, D!Never, Entries, D!Long

\* redialDevice keeps the entry, or makes an empty one of it: only one whose attempts are
\* old, unless there was nothing to drop.
LEMMA RedialledIs ==
  ASSUME entry \in Entries, ~entry.present => entry = D!NoEntry
  PROVE  LET e == D!Redialled(entry) IN
         /\ e \in Entries
         /\ ~e.present => e = D!NoEntry
         /\ \/ e = entry
            \/ ~entry.present /\ e.next = entry.next /\ e.age = 0 /\ e.present
            \/ entry.present /\ entry.attempts # 0 /\ ~(entry.age < CoolDownInterval) /\ e = D!NoEntry
<1> DEFINE new == [D!NoEntry EXCEPT !.present = TRUE, !.age = 0, !.attempts = 1]
<1>1. /\ new \in Entries /\ new.present /\ new.age = 0 /\ new.attempts = 1 /\ new.next = D!NoEntry.next
  <2>1. 0 \in 0..D!Long
    BY NoEntryIs
  <2> HIDE DEF D!NoEntry
  <2> QED
    BY <2>1, NoEntryIs DEF Entries
<1>2. entry.attempts < CoolDownMaxAttempts
  BY DialAssumption DEF Entries
<1>3. D!Redialled(entry) = IF ~entry.present THEN new
                           ELSE IF entry.attempts = 0 \/ entry.age < CoolDownInterval THEN entry ELSE D!NoEntry
  BY <1>2, DialAssumption DEF D!Redialled, Entries
<1> HIDE DEF new
<1> QED
  BY <1>1, <1>3, NoEntryIs

-----------------------------------------------------------------------------
(* DialSchedule: the actions *)

\* What a round does to the sleep, to the entry and for an address.
LEMMA RoundDoes ==
  ASSUME DialTypes, D!Round
  PROVE  /\ entry' \in Entries /\ (~entry'.present => entry' = D!NoEntry)
         /\ sleep' \in 1..StdSleep
         /\ rampup' \in Nat \ {0} /\ (D!Initial' => D!Initial) /\ connected' = connected
         /\ entry' = D!NoEntry \/ (entry'.age = entry.age /\ entry'.attempts = entry.attempts
                                   /\ (entry.present => entry'.present))
         /\ waited' \in [Addresses -> Nat] /\ since' \in [Addresses -> Nat]
         /\ early' \in [Addresses -> {early[a] : a \in Addresses} \cup {D!Again(early[a]) : a \in Addresses}]
         /\ \A a \in Addresses :
              \/ /\ connected \/ (~D!Initial /\ entry.next[a] > 0 /\ sleep' <= entry.next[a])
                 /\ entry'.next[a] = entry.next[a] \/ (connected /\ entry.next[a] = -1 /\ entry'.next[a] = -1)
                 /\ waited'[a] = waited[a] /\ since'[a] = since[a] /\ early'[a] = early[a]
              \/ /\ ~connected /\ (D!Initial \/ entry.next[a] <= 0)
                 /\ entry'.next[a] = StdSleep
                 /\ waited'[a] = 0 /\ since'[a] = since[a] /\ early'[a] = early[a]
              \/ /\ ~connected /\ (D!Initial \/ entry.next[a] <= 0)
                 /\ entry'.next[a] = Frequency[a]
                 /\ waited'[a] = 0 /\ since'[a] = 0
                 /\ early'[a] = IF ~D!Initial /\ since[a] < Frequency[a] THEN D!Again(early[a]) ELSE early[a]
<1> DEFINE due == IF connected THEN {} ELSE D!Due
<1>1. PICK usable \in SUBSET due :
        /\ entry' = IF D!Initial THEN D!Scheduled(due, usable) ELSE D!Cleaned(D!Scheduled(due, usable))
        /\ sleep' = D!Max({1, IF D!Initial THEN rampup ELSE D!NextDial(D!Scheduled(due, usable))})
        /\ waited' = [a \in Addresses |-> IF a \in due THEN 0 ELSE waited[a]]
        /\ since' = [a \in Addresses |-> IF a \in usable THEN 0 ELSE since[a]]
        /\ early' = [a \in Addresses |-> IF a \in usable /\ ~D!Initial /\ since[a] < Frequency[a]
                                         THEN D!Again(early[a]) ELSE early[a]]
  BY DEF D!Round
<1>2. due \in SUBSET Addresses /\ \A a \in Addresses : a \in due <=> ~connected /\ (D!Initial \/ entry.next[a] <= 0)
  BY DEF D!Due
<1>3. rampup' = (IF D!Initial THEN 2 * rampup ELSE rampup) /\ connected' = connected
  BY DEF D!Round
<1> HIDE DEF due
<1> DEFINE e == D!Scheduled(due, usable)
<1>4. /\ e \in Entries /\ e.age = entry.age /\ e.attempts = entry.attempts
      /\ e.present <=> entry.present \/ due # {}
      /\ \A a \in Addresses : e.next[a] = IF a \in usable THEN Frequency[a]
                                          ELSE IF a \in due THEN StdSleep ELSE entry.next[a]
  <2>1. due \subseteq Addresses /\ usable \subseteq due
    BY <1>2
  <2>2. entry \in Entries
    BY DEF DialTypes
  <2> HIDE DEF DialTypes
  <2> QED
    BY <2>1, <2>2, ScheduledIs
<1>5. /\ entry' = (IF D!Initial THEN e ELSE D!Cleaned(e))
      /\ sleep' = D!Max({1, IF D!Initial THEN rampup ELSE D!NextDial(e)})
  BY <1>1
<1>6. ~e.present => e = D!NoEntry
  <2>1. CASE e.present
    BY <2>1
  <2>2. CASE ~e.present
    <3>1. entry = D!NoEntry /\ due = {}
      BY <1>4, <2>2 DEF DialTypes
    <3>2. e.present = FALSE /\ e.next = D!NoEntry.next
      BY <1>4, <2>2, <3>1, NoEntryIs DEF Entries
    <3> QED
      BY <1>4, <3>1, <3>2, NoEntryIs DEF Entries
  <2> QED
    BY <2>1, <2>2
<1> HIDE DEF e
<1>7. \/ entry' = e
      \/ ~D!Initial /\ e.next = D!Never /\ entry' = D!NoEntry
  BY <1>5 DEF D!Cleaned
<1>8. /\ entry' \in Entries /\ (~entry'.present => entry' = D!NoEntry)
      /\ entry' = D!NoEntry \/ (entry'.age = entry.age /\ entry'.attempts = entry.attempts
                                /\ (entry.present => entry'.present))
  BY <1>4, <1>6, <1>7, NoEntryIs
<1>9. rampup' \in Nat \ {0} /\ (D!Initial' => D!Initial)
  <2>1. rampup \in Nat \ {0} /\ StdSleep \in Nat
    BY DialAssumption DEF DialTypes
  <2> QED
    BY <1>3, <2>1 DEF D!Initial
<1>10. sleep' \in 1..StdSleep /\ \A a \in Addresses : ~D!Initial /\ e.next[a] > 0 => sleep' <= e.next[a]
  <2>1. D!NextDial(e) \in 0..StdSleep /\ \A a \in Addresses : e.next[a] >= 0 => D!NextDial(e) <= e.next[a]
    BY <1>4, NextDialIs
  <2>2. rampup \in Nat \ {0} /\ StdSleep \in Nat \ {0}
    BY DialAssumption DEF DialTypes
  <2>3. \A a \in Addresses : e.next[a] \in Int
    BY <1>4 DEF Entries
  <2> DEFINE n == IF D!Initial THEN rampup ELSE D!NextDial(e)
  <2>4. n \in 0..StdSleep /\ \A a \in Addresses : ~D!Initial /\ e.next[a] >= 0 => n <= e.next[a]
    BY <2>1, <2>2 DEF D!Initial
  <2>5. sleep' = D!Max({1, n})
    BY <1>5
  <2> HIDE DEF n
  <2>6. sleep' = IF 1 >= n THEN 1 ELSE n
    BY <2>4, <2>5, OfTwo
  <2> QED
    BY <2>2, <2>3, <2>4, <2>6
<1>11. /\ waited' \in [Addresses -> Nat] /\ since' \in [Addresses -> Nat]
       /\ early' \in [Addresses -> {early[a] : a \in Addresses} \cup {D!Again(early[a]) : a \in Addresses}]
  BY <1>1 DEF DialTypes
<1>12. ASSUME NEW a \in Addresses
       PROVE  \/ /\ connected \/ (~D!Initial /\ entry.next[a] > 0 /\ sleep' <= entry.next[a])
                 /\ entry'.next[a] = entry.next[a] \/ (connected /\ entry.next[a] = -1 /\ entry'.next[a] = -1)
                 /\ waited'[a] = waited[a] /\ since'[a] = since[a] /\ early'[a] = early[a]
              \/ /\ ~connected /\ (D!Initial \/ entry.next[a] <= 0)
                 /\ entry'.next[a] = StdSleep
                 /\ waited'[a] = 0 /\ since'[a] = since[a] /\ early'[a] = early[a]
              \/ /\ ~connected /\ (D!Initial \/ entry.next[a] <= 0)
                 /\ entry'.next[a] = Frequency[a]
                 /\ waited'[a] = 0 /\ since'[a] = 0
                 /\ early'[a] = IF ~D!Initial /\ since[a] < Frequency[a] THEN D!Again(early[a]) ELSE early[a]
  <2>1. /\ waited'[a] = (IF a \in due THEN 0 ELSE waited[a])
        /\ since'[a] = (IF a \in usable THEN 0 ELSE since[a])
        /\ early'[a] = (IF a \in usable /\ ~D!Initial /\ since[a] < Frequency[a] THEN D!Again(early[a]) ELSE early[a])
    BY <1>1
  <2>2. e.next[a] = (IF a \in usable THEN Frequency[a] ELSE IF a \in due THEN StdSleep ELSE entry.next[a])
    BY <1>4
  <2>3. a \in due <=> ~connected /\ (D!Initial \/ entry.next[a] <= 0)
    BY <1>2
  <2>4. entry.next[a] \in Int /\ Frequency[a] \in Nat /\ StdSleep \in Nat
    BY DialAssumption DEF DialTypes, Entries
  <2>5. entry' = e \/ (e.next[a] = -1 /\ entry'.next[a] = -1)
    BY <1>7, NoEntryIs DEF D!Never
  <2>6. a \in usable => a \in due
    BY <1>1
  <2>7. ~D!Initial /\ e.next[a] > 0 => sleep' <= e.next[a]
    BY <1>10
  <2>8. CASE a \in usable
    <3>1. entry'.next[a] = Frequency[a]
      BY <2>2, <2>4, <2>5, <2>8
    <3> QED
      BY <2>1, <2>3, <2>6, <2>8, <3>1
  <2>9. CASE a \in due /\ a \notin usable
    <3>1. entry'.next[a] = StdSleep
      BY <2>2, <2>4, <2>5, <2>9
    <3> QED
      BY <2>1, <2>3, <2>9, <3>1
  <2>10. CASE a \notin due
    <3>1. connected \/ (~D!Initial /\ entry.next[a] > 0)
      BY <2>3, <2>4, <2>10
    <3>2. e.next[a] = entry.next[a]
      BY <2>2, <2>6, <2>10
    <3>3. entry'.next[a] = entry.next[a] \/ (connected /\ entry.next[a] = -1 /\ entry'.next[a] = -1)
      BY <2>4, <2>5, <3>1, <3>2
    <3> QED
      BY <2>1, <2>6, <2>7, <2>10, <3>1, <3>2, <3>3
  <2> QED
    BY <2>6, <2>8, <2>9, <2>10
<1> QED
  BY <1>3, <1>8, <1>9, <1>10, <1>11, <1>12

\* One more try that is too soon.
LEMMA AgainIs ==
  ASSUME NEW e \in [count : 0..2, age : 0..D!Long]
  PROVE  /\ e.count = 0 \/ e.age >= CoolDownInterval => D!Again(e) = [count |-> 1, age |-> 0]
         /\ ~(e.count = 0 \/ e.age >= CoolDownInterval) => /\ D!Again(e).count = e.count + 1
                                                           /\ D!Again(e).age = e.age
                                                           /\ D!Again(e) = [count |-> e.count + 1, age |-> e.age]
  BY DEF D!Again

\* A round tries an address too soon at most twice in the interval: a third time would take
\* the times of the entry to have been dropped twice.
LEMMA RoundKeepsDials ==
  ASSUME DialInv, D!Round
  PROVE  DialInv'
<1>1. DialTypes /\ \A a \in Addresses : Regular(a) /\ Spaced(a)
  BY DEF DialInv
<1>2. /\ entry' \in Entries /\ (~entry'.present => entry' = D!NoEntry)
      /\ sleep' \in 1..StdSleep
      /\ rampup' \in Nat \ {0} /\ (D!Initial' => D!Initial) /\ connected' = connected
      /\ entry' = D!NoEntry \/ (entry'.age = entry.age /\ entry'.attempts = entry.attempts
                                /\ (entry.present => entry'.present))
      /\ waited' \in [Addresses -> Nat] /\ since' \in [Addresses -> Nat]
      /\ early' \in [Addresses -> {early[a] : a \in Addresses} \cup {D!Again(early[a]) : a \in Addresses}]
  BY <1>1, RoundDoes
<1>3. /\ CoolDownInterval \in Nat /\ StdSleep \in Nat \ {0} /\ D!Long \in Nat /\ CoolDownInterval < D!Long
      /\ entry.age \in 0..D!Long /\ entry.attempts \in {0, 1} /\ entry.present \in BOOLEAN
      /\ connected \in BOOLEAN /\ sleep \in 0..StdSleep
  BY <1>1, NoEntryIs, DialAssumption DEF DialTypes, Entries
<1>4. Gap \in 0..CoolDownInterval /\ Gap' \in 0..CoolDownInterval /\ Gap' >= Gap
  <2>1. ~entry.present => entry.attempts = 0
    BY <1>1, NoEntryIs DEF DialTypes
  <2>2. entry' = D!NoEntry => ~entry'.present /\ entry'.attempts = 0
    BY NoEntryIs
  <2>3. entry'.age \in 0..D!Long /\ entry'.attempts \in {0, 1} /\ entry'.present \in BOOLEAN
    BY <1>2 DEF Entries
  <2>4. Gap' = IF ~entry'.present \/ entry'.attempts = 0 THEN CoolDownInterval
               ELSE IF entry'.age < CoolDownInterval THEN CoolDownInterval - entry'.age ELSE 0
    BY DEF Gap
  <2>5. Gap = IF ~entry.present \/ entry.attempts = 0 THEN CoolDownInterval
              ELSE IF entry.age < CoolDownInterval THEN CoolDownInterval - entry.age ELSE 0
    BY DEF Gap
  <2> QED
    BY <1>2, <1>3, <2>1, <2>2, <2>3, <2>4, <2>5
<1>5. ASSUME NEW a \in Addresses
      PROVE  /\ Regular(a)' /\ Spaced(a)'
             /\ since'[a] <= Frequency[a] /\ early'[a] \in [count : 0..2, age : 0..D!Long]
  <2>1. /\ entry.next[a] \in Int /\ entry'.next[a] \in Int /\ Frequency[a] \in Nat
        /\ waited[a] \in Nat /\ waited'[a] \in Nat /\ since[a] \in Nat /\ since'[a] \in Nat
        /\ since[a] <= Frequency[a]
        /\ early[a] \in [count : 0..2, age : 0..D!Long]
        /\ early[a].count \in 0..2 /\ early[a].age \in 0..D!Long
    BY <1>1, <1>2, DialAssumption DEF DialTypes, Entries
  <2>2. Regular(a) /\ Spaced(a)
    BY <1>1
  <2>3. Paced(a) <=> since[a] >= Frequency[a] \/ entry.next[a] + since[a] >= Frequency[a]
    BY DEF Paced
  <2>4. Paced(a)' <=> since'[a] >= Frequency[a] \/ entry'.next[a] + since'[a] >= Frequency[a]
    BY DEF Paced
  <2>5. CASE /\ connected \/ (~D!Initial /\ entry.next[a] > 0 /\ sleep' <= entry.next[a])
             /\ entry'.next[a] = entry.next[a] \/ (connected /\ entry.next[a] = -1 /\ entry'.next[a] = -1)
             /\ waited'[a] = waited[a] /\ since'[a] = since[a] /\ early'[a] = early[a]
    <3>1. entry'.next[a] = entry.next[a]
      BY <2>5
    <3>2. Regular(a)'
      BY <1>2, <1>3, <2>1, <2>2, <2>5, <3>1 DEF Regular
    <3>3. Paced(a)' <=> Paced(a)
      BY <2>3, <2>4, <2>5, <3>1
    <3>4. Spaced(a)'
      BY <1>2, <1>3, <1>4, <2>1, <2>2, <2>5, <3>3 DEF Spaced
    <3> QED
      BY <2>1, <2>5, <3>2, <3>4
  <2>6. CASE /\ ~connected /\ (D!Initial \/ entry.next[a] <= 0)
             /\ entry'.next[a] = StdSleep
             /\ waited'[a] = 0 /\ since'[a] = since[a] /\ early'[a] = early[a]
    <3>1. Regular(a)'
      BY <1>2, <1>3, <2>1, <2>6 DEF Regular
    <3>2. D!Initial \/ (Paced(a) => Paced(a)')
      BY <1>3, <2>1, <2>3, <2>4, <2>6
    <3>3. Spaced(a)'
      BY <1>2, <1>3, <1>4, <2>1, <2>2, <2>6, <3>2 DEF Spaced
    <3> QED
      BY <2>1, <2>6, <3>1, <3>3
  <2>7. CASE /\ ~connected /\ (D!Initial \/ entry.next[a] <= 0)
             /\ entry'.next[a] = Frequency[a]
             /\ waited'[a] = 0 /\ since'[a] = 0
             /\ early'[a] = IF ~D!Initial /\ since[a] < Frequency[a] THEN D!Again(early[a]) ELSE early[a]
    <3>1. Regular(a)'
      BY <1>2, <1>3, <2>1, <2>7 DEF Regular
    <3>2. Paced(a)'
      BY <2>1, <2>4, <2>7
    <3>3. CASE D!Initial \/ since[a] >= Frequency[a]
      <4>1. early'[a] = early[a] /\ (D!Initial \/ Paced(a))
        BY <2>1, <2>3, <2>7, <3>3
      <4>2. Spaced(a)'
        BY <1>2, <1>3, <1>4, <2>1, <2>2, <3>2, <4>1 DEF Spaced
      <4> QED
        BY <2>1, <2>7, <3>1, <4>1, <4>2
    <3>4. CASE ~D!Initial /\ since[a] < Frequency[a]
      <4>1. ~Paced(a) /\ ~D!Initial' /\ early'[a] = D!Again(early[a])
        BY <1>2, <2>1, <2>3, <2>7, <3>4
      <4>2. CASE early[a].count = 0 \/ early[a].age >= CoolDownInterval
        <5>1. early'[a] = [count |-> 1, age |-> 0]
          BY <2>1, <4>1, <4>2, AgainIs
        <5>2. early'[a].count = 1 /\ early'[a] \in [count : 0..2, age : 0..D!Long]
          BY <1>3, <5>1
        <5>3. Spaced(a)'
          BY <3>2, <4>1, <5>2 DEF Spaced
        <5> QED
          BY <2>1, <2>7, <3>1, <5>2, <5>3
      <4>3. CASE ~(early[a].count = 0 \/ early[a].age >= CoolDownInterval)
        <5>1. early[a].count = 1 /\ early[a].age + Gap >= CoolDownInterval
          BY <1>3, <2>1, <2>2, <4>1, <4>3 DEF Spaced
        <5>2. /\ early'[a].count = 2 /\ early'[a].age = early[a].age
              /\ early'[a] = [count |-> 2, age |-> early[a].age]
          BY <2>1, <4>1, <4>3, <5>1, AgainIs
        <5>3. early'[a] \in [count : 0..2, age : 0..D!Long]
          BY <2>1, <5>2
        <5>4. Spaced(a)'
          BY <1>3, <1>4, <2>1, <3>2, <4>1, <5>1, <5>2 DEF Spaced
        <5> QED
          BY <2>1, <2>7, <3>1, <5>3, <5>4
      <4> QED
        BY <4>2, <4>3
    <3> QED
      BY <2>1, <3>3, <3>4
  <2> QED
    BY <1>1, <2>5, <2>6, <2>7, RoundDoes
<1>6. early' \in [Addresses -> [count : 0..2, age : 0..D!Long]]
  BY <1>2, <1>5
<1>7. DialTypes'
  BY <1>2, <1>3, <1>5, <1>6 DEF DialTypes
<1> QED
  BY <1>5, <1>7 DEF DialInv

\* When a connection comes, is lost, or has said so, the times stay; nothing has waited
\* while there is a connection.
LEMMA ConnectingKeepsDials ==
  ASSUME DialInv, D!Connect \/ D!Lose \/ D!Call
  PROVE  DialInv'
<1>1. DialTypes /\ \A a \in Addresses : Regular(a) /\ Spaced(a)
  BY DEF DialInv
<1>2. /\ entry' = entry /\ sleep' = sleep /\ rampup' = rampup /\ since' = since /\ early' = early
      /\ waited' = waited \/ waited' = [a \in Addresses |-> 0]
      /\ connected' \in BOOLEAN
      /\ connected' => connected \/ waited' = [a \in Addresses |-> 0]
  <2>1. CASE D!Connect
    BY <2>1 DEF D!Connect
  <2>2. CASE D!Lose
    BY <2>2 DEF D!Lose
  <2>3. CASE D!Call
    <3>1. entry' = entry /\ sleep' = sleep /\ rampup' = rampup /\ connected' = connected /\ UNCHANGED D!history
      BY <2>3 DEF D!Call
    <3>2. since' = since /\ early' = early /\ waited' = waited
      BY <3>1 DEF D!history
    <3>3. connected \in BOOLEAN
      BY <1>1 DEF DialTypes
    <3> QED
      BY <3>1, <3>2, <3>3
  <2> QED
    BY <2>1, <2>2, <2>3
<1>3. DialTypes'
  BY <1>1, <1>2 DEF DialTypes
<1>4. ASSUME NEW a \in Addresses PROVE Regular(a)' /\ Spaced(a)'
  <2>1. Spaced(a)'
    BY <1>1, <1>2 DEF Spaced, Paced, Gap, D!Initial
  <2>2. waited[a] \in Nat /\ entry.next[a] \in Int /\ sleep \in Int /\ Frequency[a] \in Nat /\ StdSleep \in Nat
    BY <1>1, DialAssumption DEF DialTypes, Entries
  <2>3. Regular(a)'
    <3>1. waited'[a] = waited[a] \/ waited'[a] = 0
      BY <1>2
    <3>2. connected' => waited'[a] = 0
      BY <1>1, <1>2 DEF Regular
    <3>3. Regular(a)
      BY <1>1
    <3> QED
      BY <1>2, <2>2, <3>1, <3>2, <3>3 DEF Regular
  <2> QED
    BY <2>1, <2>3
<1> QED
  BY <1>3, <1>4 DEF DialInv

\* When the loop is called, the times of the entry are dropped only if its attempts are as
\* old as the interval: after that they are kept for as long.
LEMMA WakeKeepsDials ==
  ASSUME DialInv, D!Wake
  PROVE  DialInv'
<1>1. DialTypes /\ \A a \in Addresses : Regular(a) /\ Spaced(a)
  BY DEF DialInv
<1>2. /\ entry' = D!Redialled(entry) /\ sleep > 0 /\ sleep' = 0
      /\ rampup' = rampup /\ connected' = connected
      /\ waited' = waited /\ since' = since /\ early' = early
  BY DEF D!Wake
<1>3. /\ entry' \in Entries
      /\ ~entry'.present => entry' = D!NoEntry
      /\ \/ entry' = entry
         \/ ~entry.present /\ entry'.next = entry.next /\ entry'.age = 0 /\ entry'.present
         \/ entry.present /\ entry.attempts # 0 /\ ~(entry.age < CoolDownInterval) /\ entry' = D!NoEntry
  BY <1>1, <1>2, RedialledIs DEF DialTypes
<1>4. DialTypes'
  BY <1>1, <1>2, <1>3, DialAssumption DEF DialTypes
<1>5. /\ CoolDownInterval \in Nat /\ StdSleep \in Nat \ {0} /\ D!Long \in Nat
      /\ entry.age \in 0..D!Long /\ entry.attempts \in {0, 1} /\ sleep \in 0..StdSleep
      /\ entry'.age \in 0..D!Long /\ entry'.attempts \in {0, 1}
  BY <1>1, <1>3, NoEntryIs, DialAssumption DEF DialTypes, Entries
<1>6. Gap \in 0..CoolDownInterval /\ Gap' \in 0..CoolDownInterval
  BY <1>5 DEF Gap
<1>7. Gap' >= Gap /\ (entry'.next = entry.next \/ (Gap = 0 /\ Gap' = CoolDownInterval /\ entry' = D!NoEntry))
  <2>1. CASE entry' = entry
    <3>1. Gap' = Gap
      BY <2>1 DEF Gap
    <3> QED
      BY <1>6, <2>1, <3>1
  <2>2. CASE ~entry.present /\ entry'.next = entry.next /\ entry'.age = 0 /\ entry'.present
    <3>1. Gap' = CoolDownInterval
      BY <1>5, <2>2 DEF Gap
    <3> QED
      BY <1>6, <2>2, <3>1
  <2>3. CASE entry.present /\ entry.attempts # 0 /\ ~(entry.age < CoolDownInterval) /\ entry' = D!NoEntry
    <3>1. Gap = 0
      BY <2>3 DEF Gap
    <3>2. ~entry'.present
      BY <2>3, NoEntryIs
    <3>3. Gap' = CoolDownInterval
      BY <3>2 DEF Gap
    <3> QED
      BY <1>6, <2>3, <3>1, <3>3
  <2> QED
    BY <1>3, <2>1, <2>2, <2>3
<1>8. ASSUME NEW a \in Addresses PROVE Regular(a)' /\ Spaced(a)'
  <2>1. /\ waited[a] \in Nat /\ entry.next[a] \in Int /\ since[a] \in Nat /\ Frequency[a] \in Nat
        /\ early[a].count \in 0..2 /\ early[a].age \in 0..D!Long
    BY <1>1, DialAssumption DEF DialTypes, Entries
  <2>2. entry'.next[a] = entry.next[a] \/ (Gap = 0 /\ Gap' = CoolDownInterval /\ entry'.next[a] = -1)
    BY <1>7, NoEntryIs
  <2>3. Regular(a) /\ Spaced(a)
    BY <1>1
  <2>4. Regular(a)'
    BY <1>2, <1>5, <2>1, <2>2, <2>3 DEF Regular
  <2>5. Paced(a) <=> since[a] >= Frequency[a] \/ entry.next[a] + since[a] >= Frequency[a]
    BY DEF Paced
  <2>6. Paced(a)' <=> since[a] >= Frequency[a] \/ entry'.next[a] + since[a] >= Frequency[a]
    BY <1>2 DEF Paced
  <2>7. \/ Paced(a)' <=> Paced(a)
        \/ Gap = 0 /\ Gap' = CoolDownInterval /\ ~Paced(a)' /\ Paced(a)
    BY <2>1, <2>2, <2>5, <2>6
  <2>8. D!Initial' <=> D!Initial
    BY <1>2 DEF D!Initial
  <2>9. Spaced(a)'
    BY <1>2, <1>5, <1>6, <1>7, <2>1, <2>3, <2>7, <2>8 DEF Spaced
  <2> QED
    BY <2>4, <2>9
<1> QED
  BY <1>4, <1>8 DEF DialInv

\* As time passes, what an address has waited grows by what its time and the sleep lose, and
\* what redialDevice still waits for loses no more than the attempts age.
LEMMA TickKeepsDials ==
  ASSUME DialInv, D!Tick
  PROVE  DialInv'
<1>1. DialTypes /\ \A a \in Addresses : Regular(a) /\ Spaced(a)
  BY DEF DialInv
<1>2. /\ sleep > 0 /\ sleep' = sleep - 1
      /\ entry' = [entry EXCEPT !.next = [a \in Addresses |-> D!Max({entry.next[a] - 1, -1})], !.age = D!Capped(entry.age + 1)]
      /\ waited' = [a \in Addresses |-> IF connected THEN 0 ELSE D!Capped(waited[a] + 1)]
      /\ since' = [a \in Addresses |-> D!Min({since[a] + 1, Frequency[a]})]
      /\ early' = [a \in Addresses |-> [early[a] EXCEPT !.age = D!Capped(early[a].age + 1)]]
      /\ rampup' = rampup /\ connected' = connected
  BY <1>1 DEF D!Tick, DialTypes, Entries
<1>3. /\ CoolDownInterval \in Nat /\ StdSleep \in Nat \ {0} /\ D!Long \in Nat /\ CoolDownInterval < D!Long
      /\ entry.age \in 0..D!Long /\ entry.attempts \in {0, 1} /\ sleep \in 0..StdSleep
      /\ entry.present \in BOOLEAN /\ entry \in Entries /\ connected \in BOOLEAN
  BY <1>1, NoEntryIs, DialAssumption DEF DialTypes, Entries
<1>4. D!Capped(entry.age + 1) = (IF entry.age + 1 <= D!Long THEN entry.age + 1 ELSE D!Long)
  BY <1>3, CappedIs
<1>5. /\ entry' \in Entries /\ entry'.present = entry.present /\ entry'.attempts = entry.attempts
      /\ entry'.age = D!Capped(entry.age + 1)
      /\ entry'.next = [a \in Addresses |-> D!Max({entry.next[a] - 1, -1})]
  <2> DEFINE nx == [a \in Addresses |-> D!Max({entry.next[a] - 1, -1})]
             ag == D!Capped(entry.age + 1)
  <2>1. \A a \in Addresses : D!Max({entry.next[a] - 1, -1}) \in Int
    <3> TAKE a \in Addresses
    <3>1. entry.next[a] - 1 \in Int /\ -1 \in Int
      BY <1>3 DEF Entries
    <3> QED
      BY <3>1, OfTwo
  <2>2. nx \in [Addresses -> Int] /\ ag \in 0..D!Long
    BY <1>3, <1>4, <2>1
  <2>3. entry' = [entry EXCEPT !.next = nx, !.age = ag]
    BY <1>2
  <2> HIDE DEF nx, ag
  <2>4. /\ entry' \in Entries /\ entry'.present = entry.present /\ entry'.attempts = entry.attempts
        /\ entry'.age = ag /\ entry'.next = nx
    BY <1>3, <2>2, <2>3 DEF Entries
  <2> QED
    BY <2>4 DEF nx, ag
<1>6. ~entry'.present => entry' = D!NoEntry
  <2> SUFFICES ASSUME ~entry'.present PROVE entry' = D!NoEntry
    OBVIOUS
  <2>1. entry = D!NoEntry
    BY <1>1, <1>5 DEF DialTypes
  <2>2. entry.age = D!Long /\ D!NoEntry.age = D!Long /\ D!NoEntry.next \in [Addresses -> Int]
    BY <2>1 DEF D!NoEntry, D!Never
  <2>3. entry'.age = D!NoEntry.age
    BY <1>3, <1>4, <1>5, <2>2
  <2>4. D!Max({-1 - 1, -1}) = -1
    BY OfTwo
  <2>5. entry'.next = D!NoEntry.next
    <3>1. \A a \in Addresses : entry.next[a] = -1
      BY <2>1, NoEntryIs
    <3>2. entry'.next = [a \in Addresses |-> -1]
      BY <1>5, <2>4, <3>1
    <3> QED
      BY <3>2 DEF D!NoEntry, D!Never
  <2>6. entry'.present = D!NoEntry.present /\ entry'.attempts = D!NoEntry.attempts
    BY <1>5, <2>1
  <2>7. entry' \in Entries /\ D!NoEntry \in Entries
    BY <1>5, NoEntryIs
  <2> QED
    BY <2>3, <2>5, <2>6, <2>7 DEF Entries
<1>7. Gap \in 0..CoolDownInterval /\ Gap' \in 0..CoolDownInterval /\ Gap' + 1 >= Gap
  <2>1. entry'.age = entry.age + 1 \/ (entry'.age = D!Long /\ entry.age = D!Long)
    BY <1>3, <1>4, <1>5
  <2>2. Gap' = IF ~entry.present \/ entry.attempts = 0 THEN CoolDownInterval
               ELSE IF entry'.age < CoolDownInterval THEN CoolDownInterval - entry'.age ELSE 0
    BY <1>5 DEF Gap
  <2>3. Gap = IF ~entry.present \/ entry.attempts = 0 THEN CoolDownInterval
              ELSE IF entry.age < CoolDownInterval THEN CoolDownInterval - entry.age ELSE 0
    BY DEF Gap
  <2> QED
    BY <1>3, <2>1, <2>2, <2>3
<1>8. ASSUME NEW a \in Addresses
      PROVE  /\ waited'[a] \in Nat /\ since'[a] \in Nat /\ since'[a] <= Frequency[a]
             /\ early'[a] \in [count : 0..2, age : 0..D!Long]
             /\ Regular(a)' /\ Spaced(a)'
  <2>1. /\ waited[a] \in Nat /\ entry.next[a] \in Int /\ since[a] \in Nat /\ Frequency[a] \in Nat
        /\ since[a] <= Frequency[a]
        /\ early[a] \in [count : 0..2, age : 0..D!Long]
        /\ early[a].count \in 0..2 /\ early[a].age \in 0..D!Long
    BY <1>1, DialAssumption DEF DialTypes, Entries
  <2>2. Regular(a) /\ Spaced(a)
    BY <1>1
  <2>3. entry'.next[a] = IF entry.next[a] - 1 >= -1 THEN entry.next[a] - 1 ELSE -1
    <3>1. entry'.next[a] = D!Max({entry.next[a] - 1, -1})
      BY <1>5
    <3> DEFINE x == entry.next[a] - 1
               y == -1
    <3>2. x \in Int /\ y \in Int /\ entry'.next[a] = D!Max({x, y})
      BY <2>1, <3>1
    <3> HIDE DEF x, y
    <3>3. entry'.next[a] = IF x >= y THEN x ELSE y
      BY <3>2, OfTwo
    <3> QED
      BY <3>3 DEF x, y
  <2>4. waited'[a] \in Nat /\ waited'[a] <= waited[a] + 1 /\ (connected => waited'[a] = 0)
    <3>1. waited'[a] = IF connected THEN 0 ELSE D!Capped(waited[a] + 1)
      BY <1>2
    <3>2. D!Capped(waited[a] + 1) = IF waited[a] + 1 <= D!Long THEN waited[a] + 1 ELSE D!Long
      BY <2>1, CappedIs
    <3> QED
      BY <1>3, <2>1, <3>1, <3>2
  <2>5. since'[a] = IF since[a] + 1 <= Frequency[a] THEN since[a] + 1 ELSE Frequency[a]
    <3>1. since'[a] = D!Min({since[a] + 1, Frequency[a]})
      BY <1>2
    <3>2. since[a] + 1 \in Int /\ Frequency[a] \in Int
      BY <2>1
    <3> QED
      BY <3>1, <3>2, OfTwo
  <2>6. /\ early'[a].count = early[a].count
        /\ early'[a].age = early[a].age + 1 \/ early'[a].age = D!Long
        /\ early'[a].age >= early[a].age
        /\ early'[a] \in [count : 0..2, age : 0..D!Long]
    <3>1. D!Capped(early[a].age + 1) = IF early[a].age + 1 <= D!Long THEN early[a].age + 1 ELSE D!Long
      BY <2>1, CappedIs
    <3> DEFINE ag == D!Capped(early[a].age + 1)
    <3>2. early'[a] = [early[a] EXCEPT !.age = ag]
      BY <1>2
    <3>3. ag \in 0..D!Long /\ (ag = early[a].age + 1 \/ ag = D!Long) /\ ag >= early[a].age
      BY <1>3, <2>1, <3>1
    <3> HIDE DEF ag
    <3> QED
      BY <2>1, <3>2, <3>3
  <2>7. Regular(a)'
    BY <1>2, <1>3, <2>1, <2>2, <2>3, <2>4 DEF Regular
  <2>8. Paced(a) => Paced(a)'
    <3>1. Paced(a) <=> since[a] >= Frequency[a] \/ entry.next[a] + since[a] >= Frequency[a]
      BY DEF Paced
    <3>2. Paced(a)' <=> since'[a] >= Frequency[a] \/ entry'.next[a] + since'[a] >= Frequency[a]
      BY DEF Paced
    <3> QED
      BY <2>1, <2>3, <2>5, <3>1, <3>2
  <2>9. D!Initial' <=> D!Initial
    BY <1>2 DEF D!Initial
  <2>10. /\ early'[a].age \in 0..D!Long
         /\ early'[a].age >= CoolDownInterval \/ early'[a].age + Gap' >= early[a].age + Gap
    <3>1. early'[a].age \in 0..D!Long
      BY <2>6
    <3>2. CASE early'[a].age = early[a].age + 1
      <4>1. Gap \in Int /\ Gap' \in Int /\ early[a].age \in Int /\ Gap' + 1 >= Gap
        BY <1>7, <1>3, <2>1
      <4>2. \A x, y, z, w \in Int : w = x + 1 /\ y + 1 >= z => w + y >= x + z
        OBVIOUS
      <4>3. early'[a].age \in Int
        BY <1>3, <3>1
      <4> QED
        BY <3>1, <3>2, <4>1, <4>2, <4>3
    <3>3. CASE early'[a].age = D!Long
      BY <1>3, <3>1, <3>3
    <3> QED
      BY <2>6, <3>2, <3>3, <3>1
  <2>11. Spaced(a)'
    BY <1>3, <1>7, <2>1, <2>2, <2>6, <2>8, <2>9, <2>10 DEF Spaced
  <2> QED
    BY <2>1, <2>4, <2>5, <2>6, <2>7, <2>11
<1>9. /\ waited' \in [Addresses -> Nat] /\ since' \in [Addresses -> Nat]
      /\ early' \in [Addresses -> [count : 0..2, age : 0..D!Long]]
  <2> DEFINE es == [a \in Addresses |-> [early[a] EXCEPT !.age = D!Capped(early[a].age + 1)]]
  <2>1. early' = es /\ \A a \in Addresses : es[a] \in [count : 0..2, age : 0..D!Long]
    BY <1>2, <1>8
  <2> QED
    BY <1>2, <1>8, <2>1
<1>10. sleep' \in 0..StdSleep
  BY <1>2, <1>3
<1>11. DialTypes'
  BY <1>1, <1>2, <1>5, <1>6, <1>8, <1>9, <1>10 DEF DialTypes
<1> QED
  BY <1>8, <1>11 DEF DialInv

\* At first nothing is scheduled, and nothing has been tried.
LEMMA DialsAtFirst ==
  ASSUME D!Init
  PROVE  DialInv
<1>1. /\ entry = D!NoEntry /\ sleep = 0 /\ rampup = 1 /\ connected = FALSE
      /\ waited = [a \in Addresses |-> 0] /\ since = Frequency
      /\ early = [a \in Addresses |-> [count |-> 0, age |-> 0]]
  BY DEF D!Init
<1>2. DialTypes
  <2>1. early \in [Addresses -> [count : 0..2, age : 0..D!Long]]
    <3>1. [count |-> 0, age |-> 0] \in [count : 0..2, age : 0..D!Long]
      BY NoEntryIs
    <3> QED
      BY <1>1, <3>1
  <2>2. entry \in Entries /\ (~entry.present => entry = D!NoEntry)
    BY <1>1, NoEntryIs
  <2>3. /\ waited \in [Addresses -> Nat] /\ since \in [Addresses -> Nat]
        /\ \A a \in Addresses : since[a] <= Frequency[a]
    BY <1>1, DialAssumption
  <2>4. sleep \in 0..StdSleep /\ rampup \in Nat \ {0}
    BY <1>1, DialAssumption
  <2>5. connected \in BOOLEAN
    BY <1>1
  <2> QED
    BY <2>1, <2>2, <2>3, <2>4, <2>5 DEF DialTypes
<1>3. ASSUME NEW a \in Addresses PROVE Regular(a) /\ Spaced(a)
  <2>1. waited[a] = 0 /\ entry.next[a] = -1 /\ early[a].count = 0 /\ Frequency[a] \in Nat /\ StdSleep \in Nat
    BY <1>1, NoEntryIs, DialAssumption
  <2> QED
    BY <1>1, <2>1 DEF Regular, Spaced
<1> QED
  BY <1>2, <1>3 DEF DialInv

\* Every step of the dials keeps the times, and so does a step of anything else.
LEMMA DialsAreKept ==
  ASSUME DialInv, D!Next \/ UNCHANGED D!vars
  PROVE  DialInv'
<1>1. CASE D!Next
  BY <1>1, RoundKeepsDials, ConnectingKeepsDials, WakeKeepsDials, TickKeepsDials DEF D!Next
<1>2. CASE UNCHANGED D!vars
  BY <1>2 DEF D!vars, D!history, DialInv, DialTypes, Regular, Spaced, Paced, Gap, D!Initial
<1> QED
  BY <1>1, <1>2

\* An address without a connection is tried as often as its dialer says, give or take a sleep
\* of the loop, and one that loses its connections again and again is not tried too soon more
\* than a few times in the cool-down interval, for any addresses, frequencies and intervals
\* (nextDialRegistry, and the sleep of connect).
THEOREM DevicesAreDialledInTime == D!Spec => []DialsRight
<1>1. D!Init => DialInv
  BY DialsAtFirst
<1>2. DialInv /\ [D!Next]_(D!vars) => DialInv'
  BY DialsAreKept
<1>3. DialInv => DialsRight
  <2> SUFFICES ASSUME DialInv, NEW a \in Addresses
               PROVE  waited[a] <= Frequency[a] + StdSleep /\ early[a].count <= CoolDownMaxAttempts
    BY DEF DialsRight, D!RegularDials, D!NotHammered
  <2>1. DialTypes /\ Regular(a)
    BY DEF DialInv
  <2>2. /\ waited[a] \in Nat /\ sleep \in Nat /\ Frequency[a] \in Nat /\ StdSleep \in Nat
        /\ early[a].count \in 0..2
    BY <2>1, DialAssumption DEF DialTypes
  <2> QED
    BY <2>1, <2>2, DialAssumption DEF Regular
<1> QED
  BY <1>1, <1>2, <1>3, PTL DEF D!Spec
-----------------------------------------------------------------------------
(* These three side by side with the index database in four settings and the scan of a folder    *)
(* in four: the specification that the run Bookkeeping checks. It is below the proofs so that      *)
(* these need not carry the theorems of eight settings.                                          *)

CONSTANTS r1, r2, n1, n2, local, noFile, noCounts, noDevice,
          Root, dir, sub, below, file, top
VARIABLES
  which,
  have, versions, localNeed, globalCount, needCount, tracked, droppingRemote, removing,
  onDisk, db, other, ignored, healthy, time, pc, subs, snap, listed, ignoredParent, hashing, found, used, batch,
  removals, row, toIgnore, suspect, forced, known, forcing, clean, checked, patterns, corrupted, scans

fileSetVars == <<have, versions, localNeed, globalCount, needCount, tracked, droppingRemote, removing>>
localVars == <<disk, view, sequence, phase, oldSequence, update, real, sent, given, torn, fileChanges, crashes>>
dialVars == <<entry, sleep, rampup, connected, leaving, dialNow, tried, waited, calm, losses, owed, since, early>>
scanVars == <<onDisk, db, other, ignored, healthy, time, pc, subs, snap, listed, ignoredParent, hashing, found, used,
              batch, removals, row, toIgnore, suspect, forced, known, forcing, clean, checked, patterns, corrupted, scans>>

V(vec, deleted, mod) == [vec |-> vec, deleted |-> deleted, mod |-> mod]
Old == V(<<1, 0>>, FALSE, 3)
Deleted == V(<<2, 0>>, TRUE, 3)
Again == V(<<3, 0>>, FALSE, 4)
Other == V(<<0, 1>>, FALSE, 2)    \* in conflict with all of those
Empty == V(<<0, 0>>, TRUE, 1)     \* the local device's, deleted, in conflict
AllRemotes == {r1, r2}
AllDevices == {r1, r2, local}

\* FileSet, with its theorem, with versions in conflict, an empty one, and items that become
\* invalid.
Conflicts == INSTANCE FileSetProofs WITH
  Local <- local, Remotes <- AllRemotes, Names <- {n1}, Versions <- {Old, Deleted, Other, Empty},
  Ignoring <- AllDevices, Dropped <- {}, Asked <- {}, LocalOnly <- {}, MaxCount <- 3,
  NoFile <- noFile, NoCounts <- noCounts, NoDevice <- noDevice, dropping <- droppingRemote

\* With successive versions, drops, and items that become invalid or are removed.
Successive == INSTANCE FileSetProofs WITH
  Local <- local, Remotes <- AllRemotes, Names <- {n1}, Versions <- {Old, Deleted, Again},
  Ignoring <- AllDevices, Dropped <- AllRemotes, Asked <- AllRemotes, LocalOnly <- {n1}, MaxCount <- 2,
  NoFile <- noFile, NoCounts <- noCounts, NoDevice <- noDevice, dropping <- droppingRemote

\* With two items, and drops in between.
Drops == INSTANCE FileSetProofs WITH
  Local <- local, Remotes <- AllRemotes, Names <- {n1, n2}, Versions <- {Old, Deleted},
  Ignoring <- {}, Dropped <- AllRemotes, Asked <- AllRemotes, LocalOnly <- {}, MaxCount <- 3,
  NoFile <- noFile, NoCounts <- noCounts, NoDevice <- noDevice, dropping <- droppingRemote

\* With two items that are deleted or in conflict, of which nothing is taken away.
Counts == INSTANCE FileSetProofs WITH
  Local <- local, Remotes <- AllRemotes, Names <- {n1, n2}, Versions <- {Deleted, Other},
  Ignoring <- {}, Dropped <- {}, Asked <- {}, LocalOnly <- {}, MaxCount <- 3,
  NoFile <- noFile, NoCounts <- noCounts, NoDevice <- noDevice, dropping <- droppingRemote

\* Scan, with its theorem: a directory with a file, and a file beside it, in a folder that sends and
\* where patterns change twice.
Tree == dir :> {} @@ file :> {dir} @@ top :> {}
Missing == [kind |-> "absent", stat |-> 0, data |-> 0]
Sends == INSTANCE ScanProofs WITH
  Order <- <<dir, file, top>>, Above <- Tree, Present <- dir :> Missing @@ file :> Missing @@ top :> Missing,
  Type <- "sendreceive", MaxBatch <- 1, RecheckApart <- FALSE, Renaming <- TRUE, Unreadable <- {},
  MaxClock <- 3, MaxIgnores <- 2, MaxCorrupted <- 0, MaxScans <- 2,
  disk <- onDisk, remote <- other, clock <- time

\* In one that only receives.
Receives == INSTANCE ScanProofs WITH
  Order <- <<dir, file, top>>, Above <- Tree, Present <- dir :> Missing @@ file :> Missing @@ top :> Missing,
  Type <- "receiveonly", MaxBatch <- 1, RecheckApart <- FALSE, Renaming <- FALSE, Unreadable <- {},
  MaxClock <- 3, MaxIgnores <- 1, MaxCorrupted <- 0, MaxScans <- 2,
  disk <- onDisk, remote <- other, clock <- time

\* Two files, one of them unreadable, with forced rescans.
Forced == INSTANCE ScanProofs WITH
  Order <- <<file, top>>, Above <- file :> {} @@ top :> {}, Present <- file :> Missing @@ top :> Missing,
  Type <- "sendreceive", MaxBatch <- 1, RecheckApart <- TRUE, Renaming <- FALSE, Unreadable <- {top},
  MaxClock <- 3, MaxIgnores <- 0, MaxCorrupted <- 1, MaxScans <- 1,
  disk <- onDisk, remote <- other, clock <- time

\* A directory with an empty directory and, after it, a file, where only patterns change: a
\* directory that is ignored may have one in it that is ignored too, and what is not.
Existing(kind) == [Missing EXCEPT !.kind = kind]
Deep == INSTANCE ScanProofs WITH
  Order <- <<dir, sub, below, file>>, Above <- dir :> {} @@ sub :> {dir} @@ below :> {dir, sub} @@ file :> {dir},
  Present <- dir :> Existing("dir") @@ sub :> Existing("dir") @@ below :> Missing
             @@ file :> [kind |-> "file", stat |-> 1, data |-> 1],
  Type <- "sendreceive", MaxBatch <- 1, RecheckApart <- FALSE, Renaming <- FALSE, Unreadable <- {},
  MaxClock <- 1, MaxIgnores <- 2, MaxCorrupted <- 0, MaxScans <- 2,
  disk <- onDisk, remote <- other, clock <- time

\* As the theorems about FileSet and Scan take them.
ASSUME DatabaseAssumption ==
  Conflicts!Configured /\ Successive!Configured /\ Drops!Configured /\ Counts!Configured
ASSUME ScanAssumption == Sends!Configured /\ Receives!Configured /\ Forced!Configured /\ Deep!Configured

\* A component that does not run begins in one way.
InitOne ==
  /\ which \in {"registry", "conflicts", "successive", "drops", "counts", "local", "dials",
              "sends", "receives", "forced", "deep"}
  /\ Init /\ L!Init /\ D!Init
  /\ IF which \in {"drops", "counts"} THEN Drops!Init ELSE Successive!Init
  /\ CASE which = "forced" -> Forced!Init [] which = "deep" -> Deep!Init [] OTHER -> Sends!Init
  /\ which # "registry" => config = "none" /\ remote = "absent"

NextOne ==
  \/ which = "registry" /\ Next /\ UNCHANGED <<which, fileSetVars, localVars, dialVars, scanVars>>
  \/ which = "conflicts" /\ Conflicts!Next /\ UNCHANGED <<which, vars, localVars, dialVars, scanVars>>
  \/ which = "successive" /\ Successive!Next /\ UNCHANGED <<which, vars, localVars, dialVars, scanVars>>
  \/ which = "drops" /\ Drops!Next /\ UNCHANGED <<which, vars, localVars, dialVars, scanVars>>
  \/ which = "counts" /\ Counts!Next /\ UNCHANGED <<which, vars, localVars, dialVars, scanVars>>
  \/ which = "local" /\ L!Next /\ UNCHANGED <<which, vars, fileSetVars, dialVars, scanVars>>
  \/ which = "dials" /\ D!Next /\ UNCHANGED <<which, vars, fileSetVars, localVars, scanVars>>
  \/ which = "sends" /\ Sends!Next /\ UNCHANGED <<which, vars, fileSetVars, localVars, dialVars>>
  \/ which = "receives" /\ Receives!Next /\ UNCHANGED <<which, vars, fileSetVars, localVars, dialVars>>
  \/ which = "forced" /\ Forced!Next /\ UNCHANGED <<which, vars, fileSetVars, localVars, dialVars>>
  \/ which = "deep" /\ Deep!Next /\ UNCHANGED <<which, vars, fileSetVars, localVars, dialVars>>

SpecOne == InitOne /\ [][NextOne]_<<which, vars, fileSetVars, localVars, dialVars, scanVars>>

-----------------------------------------------------------------------------
(* Its properties, as their modules state them *)

\* FileSet: the version lists are those of the files, in every setting; where versions succeed
\* each other the global version is the newest valid one; what the local device needs, and how
\* much that is, is what a recount gives, where nothing is taken away, the global counts where
\* nothing becomes invalid, and how much the remotes need where neither happens.
FileSetRight ==
  /\ which = "conflicts" => Conflicts!FileSetRight
  /\ which = "successive" => Successive!FileSetRight
  /\ which = "drops" => Drops!FileSetRight
  /\ which = "counts" => Counts!FileSetRight

\* Scan: what a scan has covered is on record as it is on disk, the blocks are those of the
\* size and time on record, no item claims changes it is not based on, what is changed in a
\* receive-only folder stays there, and a forced rescan finds the data there is; each where
\* the code can keep it.
ScanRight ==
  /\ which = "sends" => Sends!ScanRight
  /\ which = "receives" => Receives!ScanRight
  /\ which = "forced" => Forced!ScanRight
  /\ which = "deep" => Deep!ScanRight

-----------------------------------------------------------------------------
(* The index database *)

\* The lists, needs and counts of the index database are those of the files in all settings of
\* the run, as they are in each that FileSet's theorem is about (FileSetProofs).
THEOREM DatabaseFollowsFiles == SpecOne => []FileSetRight
<1> DEFINE allVars == <<which, vars, fileSetVars, localVars, dialVars, scanVars>>
<1>1. Conflicts!Configured /\ Successive!Configured /\ Drops!Configured /\ Counts!Configured
  BY DatabaseAssumption
<1>2. /\ Conflicts!Spec => []Conflicts!FileSetRight
      /\ Successive!Spec => []Successive!FileSetRight
      /\ Drops!Spec => []Drops!FileSetRight
      /\ Counts!Spec => []Counts!FileSetRight
  BY <1>1, Conflicts!IndexIsThatOfTheFiles, Successive!IndexIsThatOfTheFiles,
     Drops!IndexIsThatOfTheFiles, Counts!IndexIsThatOfTheFiles, PTL
\* Each setting begins as its specification does.
<1>3. /\ InitOne /\ which = "conflicts" => Conflicts!Init
      /\ InitOne /\ which = "successive" => Successive!Init
      /\ InitOne /\ which = "drops" => Drops!Init
      /\ InitOne /\ which = "counts" => Counts!Init
  BY DEF InitOne, Conflicts!Init, Successive!Init, Drops!Init, Counts!Init, Conflicts!Devices,
     Successive!Devices, Drops!Devices, Counts!Devices, Conflicts!Zero, Successive!Zero, Drops!Zero, Counts!Zero
\* The setting stays, and its database takes its steps or none.
<1>4. /\ [NextOne]_allVars /\ which = "conflicts" => (which = "conflicts")'
      /\ [NextOne]_allVars /\ which = "successive" => (which = "successive")'
      /\ [NextOne]_allVars /\ which = "drops" => (which = "drops")'
      /\ [NextOne]_allVars /\ which = "counts" => (which = "counts")'
      /\ [NextOne]_allVars /\ which \notin {"conflicts", "successive", "drops", "counts"}
           => (which \notin {"conflicts", "successive", "drops", "counts"})'
  BY DEF NextOne
<1>5. /\ [NextOne]_allVars /\ which = "conflicts" => [Conflicts!Next]_(Conflicts!vars)
      /\ [NextOne]_allVars /\ which = "successive" => [Successive!Next]_(Successive!vars)
      /\ [NextOne]_allVars /\ which = "drops" => [Drops!Next]_(Drops!vars)
      /\ [NextOne]_allVars /\ which = "counts" => [Counts!Next]_(Counts!vars)
  BY DEF NextOne, fileSetVars, Conflicts!vars, Successive!vars, Drops!vars, Counts!vars
<1>6. /\ which = "conflicts" /\ SpecOne => []Conflicts!FileSetRight
      /\ which = "successive" /\ SpecOne => []Successive!FileSetRight
      /\ which = "drops" /\ SpecOne => []Drops!FileSetRight
      /\ which = "counts" /\ SpecOne => []Counts!FileSetRight
  BY <1>2, <1>3, <1>4, <1>5, PTL DEF SpecOne, Conflicts!Spec, Successive!Spec, Drops!Spec, Counts!Spec
\* Another setting has none of them.
<1>7. which \notin {"conflicts", "successive", "drops", "counts"} => FileSetRight
  BY DEF FileSetRight
<1>8. /\ which = "conflicts" /\ Conflicts!FileSetRight => FileSetRight
      /\ which = "successive" /\ Successive!FileSetRight => FileSetRight
      /\ which = "drops" /\ Drops!FileSetRight => FileSetRight
      /\ which = "counts" /\ Counts!FileSetRight => FileSetRight
  BY DEF FileSetRight
<1>9. which \notin {"conflicts", "successive", "drops", "counts"}
      \/ which = "conflicts" \/ which = "successive" \/ which = "drops" \/ which = "counts"
  OBVIOUS
<1> QED
  BY <1>4, <1>6, <1>7, <1>8, <1>9, PTL DEF SpecOne

-----------------------------------------------------------------------------
(* The scan *)

\* The records of the folder are right after scans in all settings of the run, as they are in
\* each that Scan's theorem is about (ScanProofs).
THEOREM ScansAreRight == SpecOne => []ScanRight
<1> DEFINE allVars == <<which, vars, fileSetVars, localVars, dialVars, scanVars>>
<1>1. Sends!Configured /\ Receives!Configured /\ Forced!Configured /\ Deep!Configured
  BY ScanAssumption
<1>2. /\ Sends!Spec => []Sends!ScanRight
      /\ Receives!Spec => []Receives!ScanRight
      /\ Forced!Spec => []Forced!ScanRight
      /\ Deep!Spec => []Deep!ScanRight
  BY <1>1, Sends!ScanIsRight, Receives!ScanIsRight, Forced!ScanIsRight, Deep!ScanIsRight, PTL
\* Each setting begins as its specification does.
<1>3. /\ InitOne /\ which = "sends" => Sends!Init
      /\ InitOne /\ which = "receives" => Receives!Init
      /\ InitOne /\ which = "forced" => Forced!Init
      /\ InitOne /\ which = "deep" => Deep!Init
  BY DEF InitOne, Sends!Init, Receives!Init, Sends!Paths, Receives!Paths, Sends!NoFile, Receives!NoFile,
     Sends!Absent, Receives!Absent, Sends!Item, Receives!Item, Sends!NoChanges, Receives!NoChanges
\* The setting stays, and its scan takes its steps or none.
<1>4. /\ [NextOne]_allVars /\ which = "sends" => (which = "sends")'
      /\ [NextOne]_allVars /\ which = "receives" => (which = "receives")'
      /\ [NextOne]_allVars /\ which = "forced" => (which = "forced")'
      /\ [NextOne]_allVars /\ which = "deep" => (which = "deep")'
      /\ [NextOne]_allVars /\ which \notin {"sends", "receives", "forced", "deep"}
           => (which \notin {"sends", "receives", "forced", "deep"})'
  BY DEF NextOne
<1>5. /\ [NextOne]_allVars /\ which = "sends" => [Sends!Next]_(Sends!vars)
      /\ [NextOne]_allVars /\ which = "receives" => [Receives!Next]_(Receives!vars)
      /\ [NextOne]_allVars /\ which = "forced" => [Forced!Next]_(Forced!vars)
      /\ [NextOne]_allVars /\ which = "deep" => [Deep!Next]_(Deep!vars)
  BY DEF NextOne, scanVars, Sends!vars, Receives!vars, Forced!vars, Deep!vars, Sends!outside, Receives!outside,
     Forced!outside, Deep!outside, Sends!walking, Receives!walking, Forced!walking, Deep!walking,
     Sends!passing, Receives!passing, Forced!passing, Deep!passing, Sends!scope, Receives!scope, Forced!scope,
     Deep!scope, Sends!scanning, Receives!scanning, Forced!scanning, Deep!scanning, Sends!rescans, Receives!rescans,
     Forced!rescans, Deep!rescans, Sends!bounds, Receives!bounds, Forced!bounds, Deep!bounds
<1>6. /\ which = "sends" /\ SpecOne => []Sends!ScanRight
      /\ which = "receives" /\ SpecOne => []Receives!ScanRight
      /\ which = "forced" /\ SpecOne => []Forced!ScanRight
      /\ which = "deep" /\ SpecOne => []Deep!ScanRight
  BY <1>2, <1>3, <1>4, <1>5, PTL DEF SpecOne, Sends!Spec, Receives!Spec, Forced!Spec, Deep!Spec
\* Another setting has none of them.
<1>7. which \notin {"sends", "receives", "forced", "deep"} => ScanRight
  BY DEF ScanRight
<1>8. /\ which = "sends" /\ Sends!ScanRight => ScanRight
      /\ which = "receives" /\ Receives!ScanRight => ScanRight
      /\ which = "forced" /\ Forced!ScanRight => ScanRight
      /\ which = "deep" /\ Deep!ScanRight => ScanRight
  BY DEF ScanRight
<1>9. which \notin {"sends", "receives", "forced", "deep"}
      \/ which = "sends" \/ which = "receives" \/ which = "forced" \/ which = "deep"
  OBVIOUS
<1> QED
  BY <1>4, <1>6, <1>7, <1>8, <1>9, PTL DEF SpecOne
=============================================================================
