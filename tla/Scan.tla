--------------------------------- MODULE Scan ---------------------------------
(***************************************************************************)
(* A scan of a folder (lib/model/folder.go, lib/scanner): the walk over the *)
(* disk and the hashers, then a pass over the database for what is deleted  *)
(* or ignored, both with a snapshot and with batches of changes, while the  *)
(* user works on the disk and on the ignore patterns and another device     *)
(* changes items. With forced rescans, and with what tells a receive-only   *)
(* folder from one that sends: flags, merging with the global state, Revert.*)
(***************************************************************************)
EXTENDS Integers, Sequences, FiniteSets

CONSTANTS
  Order,        \* the paths, in the order of their names
  Above,        \* the directories that each path is in
  Root,         \* no path
  Present,      \* what is in the folder at first
  Type,         \* "sendreceive" or "receiveonly"
  MaxBatch,     \* changes in a full batch
  RecheckApart, \* whether recheckFile looks at the database before it asks for the rescan
  Renaming,     \* whether the user renames files
  Unreadable,   \* paths whose ownership or attributes cannot be read
  MaxClock,     \* bound on the changes on disk and by the other device
  MaxIgnores,   \* bound on the changes of the ignore patterns
  MaxCorrupted, \* bound on the changes that leave size and time as they are
  MaxScans      \* bound on the scans and reverts

VARIABLES
  disk,       \* what is at each path
  db,         \* the local files in the index database
  remote,     \* those of the other device
  ignored,    \* the paths that match an ignore pattern
  healthy,    \* whether the folder passes its checks
  clock,      \* the time, which is also what the changes of a file have as size and time
  pc,         \* "idle", "begin", "walk" or "delete"
  subs,       \* the subdirectories to scan, with all paths below them; Root: everything
  snap,       \* the snapshot: [local, remote]
  listed,     \* what the walk has still to visit
  ignoredParent,
  hashing,    \* files on their way through the hashers
  found,      \* items that have left the walker or the hashers
  used,       \* alreadyUsedOrExisting
  batch,      \* changes for the database, the last for each path
  removals,   \* paths to take off the local record
  row,        \* the place of the pass over the database in Order
  toIgnore,   \* directories to mark as ignored unless something below them is not
  suspect,    \* files whose data was found to differ from their block hashes
  forced,     \* forcedRescanPaths
  known,      \* how much of the other device's changes the item on disk is based on
  forcing,    \* the paths that the scan was forced to hash again
  clean,      \* no change of the disk and no error since the scan has begun, and the walk not cut short
  checked,    \* paths that a clean scan covered, with no change since: <<path, "stat" or "data">>
  patterns, corrupted, scans

outside == <<disk, remote, ignored, healthy, clock>>
walking == <<listed, ignoredParent, hashing, found, used>>
passing == <<row, toIgnore>>
scope == <<pc, subs, snap, forcing>>
scanning == <<scope, walking, batch, removals, passing>>
rescans == <<suspect, forced>>
bounds == <<patterns, corrupted, scans>>
vars == <<outside, db, scanning, rescans, known, clean, checked, bounds>>

Paths == {Order[i] : i \in DOMAIN Order}

Below(p) == {q \in Paths : p \in Above[q]}
Top == {q \in Paths : Above[q] = {}}
Children(p) == {q \in Paths : Above[q] = Above[p] \cup {p}}

\* The order of the names, and the order of a walk: directory by directory, with what is in it.
Before(p, q) == \E i, j \in DOMAIN Order : i < j /\ Order[i] = p /\ Order[j] = q
Earlier(p, q) ==
  \/ p \in Above[q]
  \/ \E a \in Above[p] \cup {p}, b \in Above[q] \cup {q} : Above[a] = Above[b] /\ Before(a, b)

-----------------------------------------------------------------------------
(* Files *)

\* stat stands for size and modification time, data for the blocks.
Item(kind, stat, data) == [kind |-> kind, stat |-> stat, data |-> data]
Absent == Item("absent", 0, 0)
Directory == Item("dir", 0, 0)
NoFile == [item |-> Absent, deleted |-> FALSE, flag |-> "none", version |-> <<0, 0>>]
NoChanges == [p \in {} |-> NoFile]
File(item, version, flag) == [item |-> item, deleted |-> FALSE, flag |-> flag, version |-> version]

Maximum(x, y) == IF x > y THEN x ELSE y

\* Versions: the counters of this device and of the other.
Updated(v) == <<Maximum(v[1] + 1, clock), v[2]>>
DropOthers(v) == <<v[1], 0>>
Covers(v, w) == v[1] >= w[1] /\ v[2] >= w[2]

Invalid(f) == f.flag # "none"
ShouldConflict(f) == f.flag \in {"ignored", "receiveonly"}

\* Without blocks and size.
NoContent(i) == Item(i.kind, 0, 0)
Flagged(f, flag) == [f EXCEPT !.item = NoContent(@), !.flag = flag]
\* The time of a deletion is now.
Deleted(f) == [f EXCEPT !.item = Item(@.kind, clock, 0), !.deleted = TRUE, !.version = Updated(@)]

\* isEquivalent, where a flag is left out of account, and the blocks when a scan asks.
Equivalent(f, g, flag, ignoreBlocks) ==
  /\ f.flag # "mustrescan" /\ g.flag # "mustrescan"
  /\ f.item.kind = g.item.kind /\ f.deleted = g.deleted
  /\ (f.flag \in {"none", flag}) = (g.flag \in {"none", flag})
  /\ f.item.kind = "file" => /\ f.item.stat = g.item.stat
                             /\ ignoreBlocks \/ f.item.data = g.item.data

\* For two valid files in conflict. The order of the devices decides between equal times.
WinsConflict(f, g) ==
  IF f.deleted # g.deleted THEN ~f.deleted
  ELSE f.item.stat > g.item.stat \/ (f.item.stat = g.item.stat /\ f.version[1] > g.version[1])

\* The global file: the newest valid one.
Global(local, other) ==
  IF other = NoFile THEN local
  ELSE IF local = NoFile \/ Invalid(local) THEN other
  ELSE IF Covers(other.version, local.version) THEN other
  ELSE IF Covers(local.version, other.version) \/ WinsConflict(local, other) THEN local
  ELSE other

\* The other device's file is the global one, and this device needs it.
Needed(p) ==
  /\ remote[p] # NoFile
  /\ Global(db[p], remote[p]) = remote[p]
  /\ db[p] = NoFile => ~remote[p].deleted
  /\ db[p] # NoFile => ~Covers(db[p].version, remote[p].version)

-----------------------------------------------------------------------------
Init ==
  /\ disk = Present
  /\ db = [p \in Paths |-> NoFile]
  /\ remote = [p \in Paths |-> NoFile]
  /\ ignored = {}
  /\ healthy = TRUE
  /\ clock = 1
  /\ pc = "idle" /\ subs = {} /\ snap = [local |-> db, remote |-> remote]
  /\ listed = {} /\ ignoredParent = Root /\ hashing = {} /\ found = {} /\ used = {}
  /\ batch = NoChanges /\ removals = {} /\ row = 1 /\ toIgnore = {} /\ forcing = {}
  /\ suspect = {} /\ forced = {}
  /\ known = [p \in Paths |-> 0]
  /\ clean = FALSE /\ checked = {}
  /\ patterns = 0 /\ corrupted = 0 /\ scans = 0

-----------------------------------------------------------------------------
(* The user and the other device *)

DirectoryThere(p) == \A q \in Above[p] : disk[q] = Directory
NothingBelow(p) == \A q \in Children(p) : disk[q] = Absent

DiskChanged(change) ==
  /\ disk' = change
  /\ clean' = FALSE /\ checked' = {}
  /\ UNCHANGED <<scanning, db, remote, ignored, healthy, rescans, known, patterns, scans>>

Tick == clock < MaxClock /\ clock' = clock + 1

\* A file is written anew or changed.
Write(p) ==
  /\ Tick
  /\ DirectoryThere(p) /\ disk[p].kind # "dir"
  /\ DiskChanged([disk EXCEPT ![p] = Item("file", clock + 1, clock + 1)])
  /\ UNCHANGED corrupted

MakeDirectory(p) ==
  /\ Tick
  /\ DirectoryThere(p) /\ disk[p] = Absent /\ Children(p) # {}
  /\ DiskChanged([disk EXCEPT ![p] = Directory])
  /\ UNCHANGED corrupted

Delete(p) ==
  /\ Tick
  /\ disk[p] # Absent /\ NothingBelow(p)
  /\ DiskChanged([disk EXCEPT ![p] = Absent])
  /\ UNCHANGED corrupted

\* A file keeps its size and time when it is renamed.
Rename(p, q) ==
  /\ Renaming /\ Tick
  /\ disk[p].kind = "file" /\ disk[q] = Absent /\ DirectoryThere(q)
  /\ DiskChanged([disk EXCEPT ![p] = Absent, ![q] = disk[p]])
  /\ UNCHANGED corrupted

\* The data changes, and size and time do not.
Corrupt(p) ==
  /\ corrupted < MaxCorrupted
  /\ disk[p].kind = "file" /\ disk[p].data > 0
  /\ DiskChanged([disk EXCEPT ![p].data = -disk[p].data])
  /\ corrupted' = corrupted + 1
  /\ UNCHANGED clock

ChangePatterns(p) ==
  /\ patterns < MaxIgnores
  /\ pc = "idle"      \* they are loaded when a scan begins
  /\ ignored' = IF p \in ignored THEN ignored \ {p} ELSE ignored \cup {p}
  /\ patterns' = patterns + 1
  /\ checked' = {}
  /\ UNCHANGED <<scanning, disk, db, remote, healthy, clock, rescans, known, clean, corrupted, scans>>

ChangeHealth ==
  /\ healthy' = ~healthy
  /\ healthy => pc \in {"walk", "delete"}
  /\ UNCHANGED <<scanning, bounds, disk, db, remote, ignored, clock, rescans, known, clean, checked>>

\* The other device changes or deletes its file.
ChangeRemote(p) ==
  /\ Tick
  /\ \E deleted \in BOOLEAN :
       /\ deleted => remote[p] # NoFile /\ ~remote[p].deleted
       /\ remote' = [remote EXCEPT ![p] =
            [item |-> Item("file", clock + 1, IF deleted THEN 0 ELSE clock + 1), deleted |-> deleted, flag |-> "none",
             version |-> <<remote[p].version[1], Maximum(remote[p].version[2] + 1, clock + 1)>>]]
  /\ remote[p].item.kind # "dir" /\ Children(p) = {}
  /\ UNCHANGED <<scanning, bounds, disk, db, ignored, healthy, rescans, known, clean, checked>>

\* It takes this device's file where that is the global one.
TakeRemote(p) ==
  /\ db[p] # NoFile /\ ~Invalid(db[p]) /\ db[p] # remote[p]
  /\ remote[p] # NoFile => ~Covers(remote[p].version, db[p].version) /\ Global(db[p], remote[p]) = db[p]
  /\ remote' = [remote EXCEPT ![p] = db[p]]
  /\ UNCHANGED <<scanning, bounds, disk, db, ignored, healthy, clock, rescans, known, clean, checked>>

-----------------------------------------------------------------------------
(* The scan *)

\* The flag of what is scanned or deleted here.
localFlags == IF Type = "receiveonly" THEN "receiveonly" ELSE "none"

\* unifySubs: up as long as the parent is not in the database, and nothing below another one.
ParentKnown(p) == \A a \in Above[p] : p \in Children(a) => db[a] # NoFile
Unified(p) ==
  {q \in Above[p] \cup {p} : ParentKnown(q) /\ \A r \in (Above[p] \cup {p}) \ (Above[q] \cup {q}) : ~ParentKnown(r)}
UnifySubs(ps) == LET us == UNION {Unified(p) : p \in ps} IN {u \in us : Above[u] \cap us = {}}

Covered(p) == subs = {} \/ ({p} \cup Above[p]) \cap subs # {}

\* A scan is asked for: by a timer, by the watcher, by a caller.
StartScan(ps) ==
  /\ pc = "idle" /\ scans < MaxScans
  /\ pc' = "begin" /\ subs' = ps
  /\ scans' = scans + 1
  /\ UNCHANGED <<outside, walking, passing, db, snap, forcing, batch, removals, rescans, known, clean, checked, patterns, corrupted>>

\* handleForcedRescans marks the files, then scans them.
HandleForcedRescans ==
  /\ pc = "idle" /\ forced # {}
  /\ db' = [p \in Paths |-> IF p \in forced /\ db[p] # NoFile THEN Flagged(db[p], "mustrescan") ELSE db[p]]
  /\ forced' = {}
  /\ pc' = "begin" /\ subs' = forced /\ forcing' = forced
  /\ checked' = {}
  /\ UNCHANGED <<outside, walking, passing, bounds, snap, batch, removals, suspect, known, clean>>

\* What the walk finds at the beginning: it does not go through what is no directory.
Visited(p) == disk[p] # Absent /\ \A q \in Above[p] : disk[q] = Directory

\* A scan is over, and what it worked with is let go.
ScanOver ==
  /\ pc' = "idle" /\ subs' = {}
  /\ snap' = [local |-> [p \in Paths |-> NoFile], remote |-> [p \in Paths |-> NoFile]]
  /\ listed' = {} /\ ignoredParent' = Root /\ hashing' = {} /\ found' = {} /\ used' = {}
  /\ row' = 1 /\ toIgnore' = {} /\ forcing' = {} /\ clean' = FALSE

\* scanSubdirs, up to where the walk is under way.
BeginScan ==
  /\ pc = "begin" /\ healthy
  /\ LET us == UnifySubs(subs) IN
     /\ subs' = us
     /\ listed' = {p \in IF us = {} THEN Top ELSE us : Visited(p)}
  /\ pc' = "walk"
  /\ snap' = [local |-> db, remote |-> remote]
  /\ clean' = TRUE
  /\ ignoredParent' = Root /\ hashing' = {} /\ found' = {} /\ used' = {}
  /\ batch' = NoChanges /\ removals' = {} /\ row' = 1 /\ toIgnore' = {}
  /\ UNCHANGED <<outside, bounds, forcing, db, rescans, known, checked>>

ScanFails ==
  /\ pc = "begin" /\ ~healthy
  /\ ScanOver
  /\ UNCHANGED <<outside, bounds, db, batch, removals, rescans, known, checked>>

\* Mutant of Rescanned: the versions of others stay.
Rescanned_Kept(f) == Updated(f.version)

\* The version of an item that differs from f on record. When f is not what is on disk, the
\* changes of others are not in the item.
Rescanned(f) == IF ShouldConflict(f) THEN DropOthers(Updated(f.version)) ELSE Updated(f.version)

\* walkRegular, walkDir: what the walk finds at p, unless it is what is on record.
Result(p) ==
  LET old == snap.local[p]
      new == File(disk[p], Rescanned(old), localFlags)
  IN IF old # NoFile /\ Equivalent(old, new, localFlags, TRUE) THEN {} ELSE {<<p, new>>}

\* The ignored directories that the walk has passed on the way to p, which is not ignored.
PassedOver(p) == IF ignoredParent \in Above[p] THEN {q \in Above[p] : q = ignoredParent \/ ignoredParent \in Above[q]} ELSE {}

\* The walk visits a path. The stat is of this moment, the hash of a later one.
Visit(p) ==
  /\ pc = "walk" /\ p \in listed /\ \A q \in listed : ~Earlier(q, p)
  /\ listed' = (listed \ {p}) \cup IF disk[p] = Directory THEN {q \in Children(p) : disk[q] # Absent} ELSE {}
  /\ IF disk[p] = Absent THEN UNCHANGED <<ignoredParent, hashing, found>>
     ELSE IF p \in ignored
     THEN /\ ignoredParent' = IF disk[p] = Directory /\ (ignoredParent = Root \/ ignoredParent \notin Above[p])
                              THEN p ELSE ignoredParent
          /\ UNCHANGED <<hashing, found>>
     ELSE /\ p \notin Unreadable
          /\ ignoredParent' = Root
          /\ LET results == UNION {Result(q) : q \in PassedOver(p) \cup {p}} IN
             /\ hashing' = hashing \cup {r \in results : r[2].item.kind = "file"}
             /\ found' = found \cup {r \in results : r[2].item.kind = "dir"}
  /\ UNCHANGED <<outside, passing, bounds, db, scope, used, batch, removals, rescans, known, clean, checked>>

\* An error of CreateFileInfo ends the walk, and nobody hears of it.
VisitFails(p) ==
  /\ pc = "walk" /\ p \in listed /\ \A q \in listed : ~Earlier(q, p)
  /\ p \in Unreadable \ ignored /\ disk[p] # Absent
  /\ listed' = {} /\ clean' = FALSE
  /\ UNCHANGED <<outside, passing, bounds, db, scope, ignoredParent, hashing, found, used, batch, removals, rescans, known, checked>>

\* A hasher reads a file, which may have been replaced since the walk was there.
Hash(r) ==
  /\ pc = "walk" /\ r \in hashing
  /\ hashing' = hashing \ {r}
  /\ IF disk[r[1]].kind = "file"
     THEN found' = found \cup {<<r[1], [r[2] EXCEPT !.item.data = disk[r[1]].data]>>} /\ UNCHANGED clean
     ELSE clean' = FALSE /\ UNCHANGED found     \* an error that is kept for the user
  /\ UNCHANGED <<outside, passing, bounds, db, scope, listed, ignoredParent, used, batch, removals, rescans, known, checked>>

-----------------------------------------------------------------------------
(* Batches *)

Full == Cardinality(DOMAIN batch) >= MaxBatch

\* Changes on top of others; and one change.
Upon(new, b) == [p \in DOMAIN new \cup DOMAIN b |-> IF p \in DOMAIN new THEN new[p] ELSE b[p]]
Just(p, f) == [q \in {p} |-> f]

\* updateLocals.
Applied(files, b) == [p \in Paths |-> IF p \in DOMAIN b THEN b[p] ELSE files[p]]

\* Updates are written if the folder is still healthy.
Written == healthy \/ DOMAIN batch = {}

\* scanBatch.Flush: the removals, then the updates.
FlushAll ==
  /\ LET rest == [p \in Paths |-> IF p \in removals THEN NoFile ELSE db[p]]
     IN db' = IF Written THEN Applied(rest, batch) ELSE rest
  /\ forced' = IF Written THEN forced \ DOMAIN batch ELSE forced
  /\ batch' = NoChanges /\ removals' = {}

\* FlushIfFull comes before each step that adds to the batch. It writes the updates only,
\* and the scan ends when the folder is not healthy any more.
FlushIfFull ==
  /\ pc \in {"walk", "delete"} /\ Full
  /\ batch' = NoChanges
  /\ IF healthy
     THEN /\ db' = Applied(db, batch)
          /\ forced' = forced \ DOMAIN batch
          /\ UNCHANGED <<walking, passing, scope, removals, clean>>
     ELSE ScanOver /\ removals' = {} /\ UNCHANGED <<db, forced>>
  /\ UNCHANGED <<outside, bounds, suspect, known, checked>>

Stop ==
  /\ pc \in {"walk", "delete"}
  /\ ScanOver /\ batch' = NoChanges /\ removals' = {}
  /\ UNCHANGED <<outside, bounds, db, rescans, known, checked>>

\* In a receive-only folder an item that looks like the global one is taken to be it.
Merges(f, g) == Type = "receiveonly" /\ Equivalent(g, f, "receiveonly", TRUE)

\* scanBatch.Update, for one file of each of some paths.
UpdateBatch(files) ==
  LET global(p) == Global(snap.local[p], snap.remote[p])
      ownOnly(p) == global(p).flag = "receiveonly"
      removed == {p \in DOMAIN files : ownOnly(p) /\ files[p].deleted}
      kept == DOMAIN files \ removed
      merged == {p \in kept : global(p) # NoFile /\ ~ownOnly(p) /\ Merges(files[p], global(p))}
  IN /\ batch' = Upon([p \in kept |-> IF p \in merged THEN global(p) ELSE files[p]], batch)
     /\ removals' = removals \cup removed
     /\ known' = [p \in Paths |-> IF p \in merged THEN Maximum(known[p], global(p).version[2]) ELSE known[p]]

\* osutil.IsDeleted
IsDeleted(p) == disk[p] = Absent

SameBlocks(q, f) ==
  LET g == snap.local[q] IN f.item.kind = "file" /\ g.item.kind = "file" /\ ~g.deleted /\ g.item.data = f.item.data
                            /\ g.item.stat # 0

\* findRename: a file with the same blocks that is gone, and what has been looked at on the
\* way: [gone, used].
FindRename(p, f) ==
  LET candidates == {q \in Paths \ ({p} \cup used \cup ignored) : SameBlocks(q, f) /\ ~ShouldConflict(snap.local[q])}
      gone == {q \in candidates : IsDeleted(q) /\ \A r \in candidates : IsDeleted(r) => ~Before(r, q)}
      before == {q \in candidates : \A g \in gone : q = g \/ Before(q, g)}
  IN [gone |-> gone, used |-> before \cup IF SameBlocks(p, f) THEN {p} ELSE {}]

\* A result of the walk goes to the batch, in a folder that sends with the deletion of the
\* file it was renamed from.
Consume(r) ==
  /\ pc = "walk" /\ r \in found /\ ~Full
  /\ found' = found \ {r}
  /\ LET rename == IF Type = "receiveonly" THEN [gone |-> {}, used |-> {}] ELSE FindRename(r[1], r[2])
     IN /\ UpdateBatch([p \in {r[1]} \cup rename.gone |-> IF p = r[1] THEN r[2] ELSE Deleted(snap.local[p])])
        /\ used' = used \cup rename.used
  /\ UNCHANGED <<outside, passing, bounds, db, scope, listed, ignoredParent, hashing, rescans, clean, checked>>

\* The walk is over: everything is written, and the second pass begins with a new snapshot.
EndWalk ==
  /\ pc = "walk" /\ listed = {} /\ hashing = {} /\ found = {}
  /\ FlushAll
  /\ IF Written
     THEN /\ pc' = "delete"
          /\ snap' = [local |-> db', remote |-> remote]
          /\ ignoredParent' = Root /\ used' = {}
          /\ UNCHANGED <<passing, subs, forcing, listed, hashing, found, clean>>
     ELSE ScanOver
  /\ UNCHANGED <<outside, bounds, suspect, known, checked>>

-----------------------------------------------------------------------------
(* The pass over the database *)

AllIgnored(ps) == [p \in ps |-> Flagged(snap.local[p], "ignored")]

\* An item that was not what was on record and is gone is deleted without a version, so that
\* nobody takes the deletion for newer than what there is.
Gone(f) ==
  LET d == [Deleted(f) EXCEPT !.flag = localFlags]
  IN IF ShouldConflict(f) THEN [d EXCEPT !.version = <<0, 0>>] ELSE d

\* A deletion that was marked as a change of this device only. A folder of another type, or
\* one where it is deleted globally, makes a plain deletion of it; nothing is left of it on
\* record (see UpdateBatch) when no other device has the item.
OwnDeletion(p) ==
  LET f == snap.local[p]
      g == Global(f, snap.remote[p])
  IN IF g.flag = "receiveonly" THEN Just(p, f)
     ELSE IF Type # "receiveonly" \/ g.deleted THEN Just(p, [f EXCEPT !.flag = "none"])
     ELSE NoChanges

\* One item of scanSubdirsDeletedAndIgnored. Directories that are to be ignored wait until
\* the pass has left them: what is not ignored, and there, keeps the directories it is in.
Check(p) ==
  LET f == snap.local[p]
      left == ignoredParent # Root /\ ignoredParent \notin Above[p]
      parent == IF left THEN Root ELSE ignoredParent
      dirs == IF left THEN {} ELSE toIgnore
      looked == p \notin ignored /\ (f.flag = "ignored" \/ ~f.deleted)
      stays == looked /\ ~IsDeleted(p)
      hidden == p \in ignored /\ f.flag # "ignored"
      delayed == hidden /\ f.item.kind = "dir"
      files == IF hidden /\ ~delayed THEN AllIgnored({p})
               ELSE IF looked /\ ~stays THEN Just(p, Gone(f))
               ELSE IF p \notin ignored /\ ~looked /\ f.flag = "receiveonly" THEN OwnDeletion(p)
               ELSE NoChanges
  IN /\ UpdateBatch(Upon(files, AllIgnored(IF left THEN toIgnore ELSE {})))
     /\ toIgnore' = IF stays THEN {} ELSE IF delayed THEN dirs \cup {p} ELSE dirs
     /\ ignoredParent' = IF stays THEN Root ELSE IF delayed /\ parent = Root THEN p ELSE parent

\* The pass comes to the next item.
CheckNext ==
  /\ pc = "delete" /\ row <= Len(Order) /\ ~Full
  /\ row' = row + 1
  /\ LET p == Order[row] IN
     IF snap.local[p] # NoFile /\ Covered(p) THEN Check(p) ELSE UNCHANGED <<batch, removals, known, toIgnore, ignoredParent>>
  /\ UNCHANGED <<outside, bounds, db, scope, listed, hashing, found, used, rescans, clean, checked>>

\* What is left to be ignored, at the end of the pass.
CheckLast ==
  /\ pc = "delete" /\ row > Len(Order) /\ ~Full /\ toIgnore # {}
  /\ UpdateBatch(AllIgnored(toIgnore))
  /\ toIgnore' = {}
  /\ UNCHANGED <<outside, walking, bounds, db, scope, row, rescans, clean, checked>>

EndScan ==
  /\ pc = "delete" /\ row > Len(Order) /\ toIgnore = {}
  /\ FlushAll
  /\ ScanOver
  /\ checked' = IF clean /\ Written THEN checked \cup ({p \in Paths : Covered(p)} \X {"stat"}) \cup (forcing \X {"data"})
              ELSE checked
  /\ UNCHANGED <<outside, bounds, suspect, known>>

-----------------------------------------------------------------------------
(* What else works on the folder, while nothing is scanned *)

OnDisk(p, f) ==
  IF f = NoFile \/ f.deleted THEN disk[p] = Absent
  ELSE disk[p].kind = f.item.kind /\ disk[p].stat = f.item.stat

\* In the same directories: what is pulled may be what keeps an ignored item from being hidden.
Related(p, q) == ({p} \cup Above[p]) \cap ({q} \cup Above[q]) # {}

\* The puller takes over a file of the other device, where the disk has what is on record.
Pull(p) ==
  /\ pc = "idle" /\ healthy
  /\ Needed(p)
  /\ LET g == remote[p] IN
     IF p \in ignored
     THEN /\ db' = [db EXCEPT ![p] = Flagged(g, "ignored")]
          /\ UNCHANGED <<disk, known>>
     ELSE /\ ~Invalid(db[p]) /\ OnDisk(p, db[p])
          /\ DirectoryThere(p) /\ NothingBelow(p)
          /\ disk' = [disk EXCEPT ![p] = IF g.deleted THEN Absent ELSE g.item]
          /\ db' = [db EXCEPT ![p] = g]
          /\ known' = [known EXCEPT ![p] = g.version[2]]
  /\ forced' = forced \ {p}
  /\ checked' = {c \in checked : c[1] \in ignored => ~Related(p, c[1])}
  /\ UNCHANGED <<scanning, bounds, remote, ignored, healthy, clock, suspect, clean>>

\* Request has read data that is not what the block hashes say: recheckFile looks at the
\* database and then asks for the rescan.
Recheck(p) ==
  /\ db[p].item.kind = "file" /\ ~db[p].deleted /\ ~Invalid(db[p])
  /\ disk[p].kind = "file" /\ disk[p].data # db[p].item.data
  /\ IF RecheckApart THEN suspect' = suspect \cup {p} /\ UNCHANGED forced
                     ELSE forced' = forced \cup {p} /\ UNCHANGED suspect
  /\ UNCHANGED <<outside, scanning, bounds, db, known, clean, checked>>

ScheduleForceRescan(p) ==
  /\ p \in suspect
  /\ suspect' = suspect \ {p}
  /\ forced' = forced \cup {p}
  /\ UNCHANGED <<outside, scanning, bounds, db, known, clean, checked>>

\* What Revert makes of a local change when there is another file: nothing is older.
Reverted(p) ==
  LET f == [db[p] EXCEPT !.flag = "none"]
      g == remote[p]
  IN IF Equivalent(g, f, "receiveonly", FALSE) THEN g ELSE [f EXCEPT !.version = <<0, 0>>]

\* receiveOnlyFolder.revert: files that only this device has are deleted, then directories
\* that are empty; other changes become older than everything.
Revert ==
  /\ Type = "receiveonly" /\ pc = "idle" /\ scans < MaxScans
  /\ LET changed == {p \in Paths : db[p].flag = "receiveonly"}
         own == {p \in changed : remote[p] = NoFile}
         dead == {p \in own : db[p].deleted}
         files == {p \in own \ dead : db[p].item.kind = "file" /\ p \notin ignored /\ disk[p].kind # "dir"}
         dirs == {p \in own \ dead : db[p].item.kind = "dir" /\ p \notin ignored
                                     /\ \A q \in Children(p) : disk[q] = Absent \/ q \in files}
         deleted(p) == [Deleted(db[p]) EXCEPT !.flag = "none", !.version = <<0, 0>>]
     IN /\ disk' = [p \in Paths |-> IF p \in files \cup dirs THEN Absent ELSE disk[p]]
        /\ db' = [p \in Paths |-> IF p \in files \cup dirs THEN deleted(p)
                                  ELSE IF p \in dead THEN [db[p] EXCEPT !.flag = "none", !.version = <<0, 0>>]
                                  ELSE IF p \in changed \ own THEN Reverted(p)
                                  ELSE db[p]]
        /\ known' = [p \in Paths |-> IF p \in changed \ own THEN db'[p].version[2] ELSE known[p]]
        /\ forced' = forced \ (files \cup dirs \cup dead \cup (changed \ own))
  /\ scans' = scans + 1
  /\ checked' = {}
  /\ UNCHANGED <<scanning, remote, ignored, healthy, clock, suspect, clean, patterns, corrupted>>

-----------------------------------------------------------------------------
Next ==
  \/ \E p \in Paths : \/ Write(p) \/ MakeDirectory(p) \/ Delete(p) \/ Corrupt(p) \/ ChangePatterns(p)
                      \/ ChangeRemote(p) \/ TakeRemote(p) \/ StartScan({p}) \/ Visit(p) \/ VisitFails(p)
                      \/ Pull(p) \/ Recheck(p) \/ ScheduleForceRescan(p)
  \/ \E p, q \in Paths : Rename(p, q)
  \/ StartScan({}) \/ HandleForcedRescans \/ BeginScan \/ ScanFails \/ ChangeHealth
  \/ \E r \in hashing : Hash(r)
  \/ \E r \in found : Consume(r)
  \/ FlushIfFull \/ Stop \/ EndWalk \/ CheckNext \/ CheckLast \/ EndScan \/ Revert

Spec == Init /\ [][Next]_vars

-----------------------------------------------------------------------------
(* Properties *)

\* An ignored item is hidden unless something below it is not ignored and there.
Hidden(p) == p \in ignored /\ \A q \in Below(p) : q \in ignored \/ disk[q] = Absent

\* A directory may stay as it is when an ignored one that it is in is not hidden: what the pass
\* finds there makes it forget all directories it has put off.
Spared(p) == db[p].item.kind = "dir" /\ \E q \in Above[p] : q \in ignored /\ ~Hidden(q)

\* In the order of the names, nothing else comes between a directory and what is in it (as
\* "a-b" does between "a" and "a/c").
InOrder == \A p, q, r \in Paths : Before(p, q) /\ Before(q, r) /\ r \in Below(p) => q \in Below(p)

\* What a scan has covered while nothing changed is on record: what is ignored is marked as
\* ignored, what is gone as deleted, and the rest has the size and time it has on disk.
ScanFindsAll ==
  \A p \in Paths : <<p, "stat">> \in checked /\ pc = "idle" /\ (p \notin ignored \/ InOrder) =>
    IF Hidden(p) THEN db[p] = NoFile \/ db[p].flag = "ignored" \/ Spared(p)
    ELSE IF disk[p] = Absent THEN db[p] = NoFile \/ db[p].deleted \/ db[p].flag = "ignored"
    ELSE OnDisk(p, db[p]) /\ db[p].flag \in {"none", localFlags}

\* What a forced scan has covered while nothing changed has the blocks it has on disk.
RescanRepairs ==
  \A p \in Paths : <<p, "data">> \in checked /\ pc = "idle" /\ disk[p].kind = "file" /\ p \notin ignored =>
    db[p].item.data = disk[p].data

\* A file that the next scan takes for unchanged has the blocks that are on record, unless
\* its data changed while size and time did not.
BlocksFollowStat ==
  \A p \in Paths :
    db[p].item.kind = "file" /\ ~db[p].deleted /\ ~Invalid(db[p]) /\ disk[p].kind = "file" /\ disk[p].stat = db[p].item.stat
      => db[p].item.data \in {disk[p].data, -disk[p].data}

\* A valid file claims no changes of the other device that the item on disk is not based on:
\* the other device would lose them, and without a conflict.
ClaimsOnlyWhatIsKnown ==
  \A p \in Paths : ~Invalid(db[p]) => db[p].version[2] <= known[p]

\* What is announced of a receive-only folder, except that it is deleted, is what the other
\* device has made, whose time is that of its change, or older than everything.
ChangesStayHere ==
  Type = "receiveonly" => \A p \in Paths :
    ~Invalid(db[p]) /\ ~db[p].deleted => db[p].version = <<0, 0>> \/ db[p].item.stat = db[p].version[2]

\* In a receive-only folder the scan may take the other device's blocks for those on disk. A file
\* that is renamed away between the look at its time and the hashing of its data, and back later,
\* is taken for unchanged with other data. And a database that is looked at before the rescan is
\* asked for may have another item by then.
ScanRight ==
  /\ ScanFindsAll
  /\ Type # "receiveonly" => RescanRepairs
  /\ ~Renaming => BlocksFollowStat
  /\ ~RecheckApart => ClaimsOnlyWhatIsKnown
  /\ ChangesStayHere
=============================================================================
