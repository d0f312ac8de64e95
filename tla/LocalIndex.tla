------------------------------ MODULE LocalIndex ------------------------------
(***************************************************************************)
(* The local device's files in the database of a folder, with the index of  *)
(* their sequence numbers, the block maps and the metadata                  *)
(* (lib/db/lowlevel.go, meta.go, set.go), what a crash leaves of them, and  *)
(* the check at start-up. The view is the database with the open batch.     *)
(***************************************************************************)
EXTENDS Integers, FiniteSetsExt

CONSTANTS
  Names,
  Contents,       \* of a file; a content stands for its block and its block list
  CrashInRepair,  \* TRUE: a crash is possible between the steps of the check at start-up
  MaxSeq,         \* bound on the sequence numbers
  MaxChanges,     \* bound on changes in the file system
  MaxCrashes      \* bound on crashes

VARIABLES
  disk,       \* the database as a crash leaves it
  view,       \* the same with what is in the batch
  sequence,   \* the local sequence of the metadata in memory
  phase,      \* of the folder's database: "up", and the steps of start-up
  oldSequence,\* the sequence that was stored before the check
  update,     \* the file being updated and the next step
  real,       \* what the file system has
  sent,       \* the latest sequence number sent to a device with our index ID
  \* history
  given,      \* what was sent under each index ID and number
  torn,       \* a crash has left half an update
  changes, crashes

vars == <<disk, view, sequence, phase, oldSequence, update, real, sent, given, torn, changes, crashes>>

\* A file with its content, not invalid (ignored, say) or invalid.
Gone == [content |-> "none", valid |-> FALSE]
Files == {[content |-> c, valid |-> v] : c \in Contents, v \in BOOLEAN}
NoFile == [file |-> Gone, seq |-> 0]
NoUpdate == [step |-> "none"]
Seqs == 1..MaxSeq

Init ==
  /\ disk = [files |-> [n \in Names |-> NoFile], keys |-> [q \in Seqs |-> {}],
             blocks |-> {}, lists |-> {}, seq |-> 0, id |-> 1]
  /\ view = disk
  /\ sequence = 0
  /\ phase = "up"
  /\ oldSequence = 0
  /\ update = NoUpdate
  /\ real = [n \in Names |-> Gone]
  /\ sent = 0
  /\ given = {}
  /\ torn = FALSE
  /\ changes = 0
  /\ crashes = 0

Change(n) ==
  /\ changes < MaxChanges
  /\ \E f \in Files \cup {Gone} : f # real[n] /\ real' = [real EXCEPT ![n] = f]
  /\ changes' = changes + 1
  /\ UNCHANGED <<disk, view, sequence, phase, oldSequence, update, sent, given, torn, crashes>>

Idle == phase = "up" /\ update = NoUpdate

\* updateLocalFiles, for a file that is not unchanged.
Begin(n) ==
  /\ Idle
  /\ real[n] \notin {Gone, view.files[n].file}
  /\ sequence < MaxSeq
  /\ update' = [step |-> "remove", name |-> n, file |-> real[n]]
  /\ UNCHANGED <<disk, view, sequence, phase, oldSequence, real, sent, given, torn, changes, crashes>>

\* removeLocalBlockAndSequenceInfo.
\* Mutant: the old sequence key stays.
WithoutInfo_KeyKept(d, n, lists) ==
  LET f == d.files[n].file IN
  [d EXCEPT !.blocks = IF f.valid THEN @ \ {<<n, f.content>>} ELSE @,
            !.lists = IF f.valid /\ lists THEN @ \ {<<n, f.content>>} ELSE @]
WithoutInfo(d, n, lists) ==
  LET f == d.files[n].file IN
  [d EXCEPT !.keys = [q \in Seqs |-> IF q = d.files[n].seq THEN {} ELSE @[q]],
            !.blocks = IF f.valid THEN @ \ {<<n, f.content>>} ELSE @,
            !.lists = IF f.valid /\ lists THEN @ \ {<<n, f.content>>} ELSE @]

SameBlocks == view.files[update.name].file.content = update.file.content

RemoveInfo ==
  /\ update.step = "remove"
  /\ view' = IF view.files[update.name] = NoFile THEN view ELSE WithoutInfo(view, update.name, ~SameBlocks)
  /\ update' = [step |-> "put", name |-> update.name, file |-> update.file, same |-> SameBlocks]
  /\ UNCHANGED <<disk, sequence, phase, oldSequence, real, sent, given, torn, changes, crashes>>

\* Mutant: the number of the file before is given again.
NextLocalSeq_Old == IF view.files[update.name].seq = 0 THEN sequence + 1 ELSE view.files[update.name].seq
NextLocalSeq == sequence + 1
PutFile ==
  /\ update.step = "put"
  /\ sequence' = NextLocalSeq
  /\ view' = [view EXCEPT !.files[update.name] = [file |-> update.file, seq |-> NextLocalSeq]]
  /\ update' = [update EXCEPT !.step = "key"]
  /\ UNCHANGED <<disk, phase, oldSequence, real, sent, given, torn, changes, crashes>>

PutKey ==
  /\ update.step = "key"
  /\ view' = [view EXCEPT !.keys[view.files[update.name].seq] = {update.name}]
  /\ update' = [update EXCEPT !.step = "blocks"]
  /\ UNCHANGED <<disk, sequence, phase, oldSequence, real, sent, given, torn, changes, crashes>>

\* Mutant: only if the blocks have changed, like the block lists.
NewBlocks_IfChanged(u) == IF u.file.valid /\ ~u.same THEN {<<u.name, u.file.content>>} ELSE {}
NewBlocks(u) == IF u.file.valid THEN {<<u.name, u.file.content>>} ELSE {}
PutBlocks ==
  /\ update.step = "blocks"
  /\ view' = [view EXCEPT !.blocks = @ \cup NewBlocks(update),
                          !.lists = @ \cup (IF update.same THEN {} ELSE NewBlocks(update))]
  /\ update' = NoUpdate
  /\ UNCHANGED <<disk, sequence, phase, oldSequence, real, sent, given, torn, changes, crashes>>

\* A put or a checkpoint flushes the batch when it is large enough, and the commit does;
\* the hook adds the metadata.
Flushed == [view EXCEPT !.seq = sequence]
Flush ==
  /\ phase = "up"
  /\ disk # Flushed
  /\ disk' = Flushed
  /\ view' = Flushed
  /\ UNCHANGED <<sequence, phase, oldSequence, update, real, sent, given, torn, changes, crashes>>

\* removeLocalFiles, for an item that is gone and that nobody else has.
RemoveLocal(n) ==
  /\ Idle
  /\ real[n] = Gone
  /\ view.files[n] # NoFile
  /\ view' = [WithoutInfo(view, n, TRUE) EXCEPT !.files[n] = NoFile]
  /\ UNCHANGED <<disk, sequence, phase, oldSequence, update, real, sent, given, torn, changes, crashes>>

\* An index handler sends what the sequence index has next.
Send ==
  /\ phase = "up"
  /\ LET later == {q \in Seqs : q > sent /\ disk.keys[q] # {}} IN
     /\ later # {}
     /\ \E n \in disk.keys[Min(later)] :
          /\ sent' = Min(later)
          /\ given' = given \cup {[id |-> disk.id, seq |-> Min(later), name |-> n, file |-> disk.files[n]]}
  /\ UNCHANGED <<disk, view, sequence, phase, oldSequence, update, real, torn, changes, crashes>>

Wrong(d) == {n \in Names : d.files[n] # NoFile /\ d.keys[d.files[n].seq] # {n}}
ValidBlocks(d) == {<<n, d.files[n].file.content>> : n \in {m \in Names : d.files[m].file.valid}}
Crash ==
  /\ crashes < MaxCrashes
  /\ \/ phase = "up"
     \/ CrashInRepair /\ phase # "down"
  /\ crashes' = crashes + 1
  /\ phase' = "down"
  /\ view' = disk
  /\ torn' = (torn \/ Wrong(disk) # {} \/ disk.blocks # ValidBlocks(disk))
  /\ update' = NoUpdate
  /\ UNCHANGED <<disk, sequence, oldSequence, real, sent, given, changes>>

\* loadMetadataTracker: what is stored is taken, or, if there are later sequence keys or it
\* was long ago that it was, everything is checked.
Stored == /\ sequence' = disk.seq
          /\ phase' = "up"
          /\ UNCHANGED <<disk, view, oldSequence>>
HighestSeq(d) == Max({d.files[n].seq : n \in Names} \cup {0})
Recalc ==
  /\ oldSequence' = disk.seq
  /\ sequence' = HighestSeq(disk)
  /\ disk' = [disk EXCEPT !.seq = HighestSeq(disk)]
  /\ view' = disk'
  /\ phase' = "recalculated"
Load ==
  /\ phase = "down"
  /\ \/ /\ \A q \in Seqs : q > disk.seq => disk.keys[q] = {}
        /\ Stored
     \/ Recalc
  /\ UNCHANGED <<update, real, sent, given, torn, changes, crashes>>

\* repairSequenceGCLocked, and recalcMeta again.
Renumberings(d) ==
  {number \in [Wrong(d) -> (sequence + 1)..(sequence + Cardinality(Wrong(d)))] :
     \A m, n \in Wrong(d) : number[m] = number[n] => m = n}
\* Mutant: the new sequence key is not written.
Renumbered_NoKey(d, number) ==
  [d EXCEPT !.files = [n \in Names |-> IF n \in Wrong(d) THEN [d.files[n] EXCEPT !.seq = number[n]] ELSE d.files[n]]]
Renumbered(d, number) ==
  [d EXCEPT !.files = [n \in Names |-> IF n \in Wrong(d) THEN [d.files[n] EXCEPT !.seq = number[n]] ELSE d.files[n]],
            !.keys = [q \in Seqs |-> IF \E n \in Wrong(d) : number[n] = q THEN {n \in Wrong(d) : number[n] = q}
                                     ELSE d.keys[q]]]
WithoutStrays(d) ==
  [d EXCEPT !.keys = [q \in Seqs |-> {n \in @[q] : d.files[n].seq = q}]]
Repair ==
  /\ phase = "recalculated"
  /\ sequence + Cardinality(Wrong(disk)) <= MaxSeq
  /\ \E number \in Renumberings(disk) :
       LET d == WithoutStrays(Renumbered(disk, number))
       IN  /\ disk' = [d EXCEPT !.seq = HighestSeq(d)]
           /\ view' = disk'
           /\ sequence' = HighestSeq(d)
  /\ phase' = "repaired"
  /\ UNCHANGED <<oldSequence, update, real, sent, given, torn, changes, crashes>>

\* checkSequencesUnchanged, and the new index ID made by NewFileSet.
\* Mutant: only a sequence that has grown counts.
SequenceChanged_Grown == oldSequence < sequence
SequenceChanged == oldSequence # sequence
CheckUnchanged ==
  /\ phase = "repaired"
  /\ phase' = "up"
  /\ IF SequenceChanged
     THEN /\ disk' = [disk EXCEPT !.id = @ + 1]
          /\ view' = disk'
          /\ sent' = 0
     ELSE UNCHANGED <<disk, view, sent>>
  /\ UNCHANGED <<sequence, oldSequence, update, real, given, torn, changes, crashes>>

Next ==
  \/ \E n \in Names : Change(n) \/ Begin(n) \/ RemoveLocal(n)
  \/ RemoveInfo \/ PutFile \/ PutKey \/ PutBlocks \/ Flush \/ Send
  \/ Crash \/ Load \/ Repair \/ CheckUnchanged

Spec == Init /\ [][Next]_vars

-----------------------------------------------------------------------------
(* Properties *)

Databases == [files : [Names -> [file : Files \cup {Gone}, seq : 0..MaxSeq]], keys : [Seqs -> SUBSET Names],
              blocks : SUBSET (Names \X Contents), lists : SUBSET (Names \X Contents), seq : 0..MaxSeq, id : 1..MaxCrashes+1]
TypeOK ==
  /\ disk \in Databases
  /\ view.files \in [Names -> [file : Files \cup {Gone}, seq : 0..MaxSeq]]
  /\ phase = "up" => sequence >= disk.seq
  /\ phase \in {"up", "down", "recalculated", "repaired"}

\* A sequence number that was sent with a file under an index ID is never given to another
\* under it, whatever was removed, lost in a crash or recalculated: devices that have it
\* would not ask again.
NumbersUnique == phase = "up" =>
  \A g \in given, n \in Names :
    g.id = disk.id /\ g.seq = disk.files[n].seq => g.name = n /\ g.file = disk.files[n]
NoNumberReused == ~torn => NumbersUnique

\* When nothing is left to do, other devices have been sent every file as it is.
AllSent ==
  /\ Idle /\ ~torn /\ view = disk
  /\ \A q \in Seqs : q > sent => disk.keys[q] = {}
  => \A n \in Names : disk.files[n] = NoFile
                      \/ [id |-> disk.id, seq |-> disk.files[n].seq, name |-> n, file |-> disk.files[n]] \in given

\* Whatever half of an update a crash has left, after the check every file is found by its
\* sequence number, under no other number, and none is above the metadata's.
CheckRepairs == phase = "repaired" =>
  \A n \in Names, q \in Seqs : n \in disk.keys[q] <=> disk.files[n].seq = q /\ q <= disk.seq

\* The block map is that of the valid files.
BlockMapRight == Idle /\ ~torn => view.blocks = ValidBlocks(view)

\* The block list of every valid file is found.
BlockListsFound == Idle /\ ~torn => ValidBlocks(view) \subseteq view.lists
=============================================================================
