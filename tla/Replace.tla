-------------------------------- MODULE Replace --------------------------------
(***************************************************************************)
(* How the puller puts one wanted item in the place of what is on disk      *)
(* (handleDir, handleSymlink, deleteFile, deleteDir, shortcutFile and       *)
(* performFinish of lib/model/folder_sendrecv.go), while the user changes   *)
(* the same item and changes are only known after a scan.                   *)
(***************************************************************************)
EXTENDS Naturals, FiniteSets

CONSTANTS
  Versioning,   \* whether a versioner archives what is replaced
  Conflicts,    \* whether conflict copies are kept (MaxConflicts is not 0)
  UserAtShortcut,\* whether the user acts when only metadata of the item is to be pulled
  UserAtGap,    \* whether the user acts between removing the old and placing the new item
  MaxActs,      \* bound on what the user does
  MaxCrashes    \* bound on crashes

VARIABLES
  disk,     \* the item on disk: its type, contents, and what a stat shows
  child,    \* what is in the directory, if it is one
  local,    \* the entry of the database, with its version in relation to the wanted one
  want,     \* the global entry
  at,       \* "idle", "cleared" when the old item is gone, "placed" when the new is there
  kept,     \* contents in conflict copies and in the archive
  mine,     \* contents of the user that the wanted version does not know
  acts, crashes

vars == <<disk, child, local, want, at, kept, mine, acts, crashes>>

NoItem == [type |-> "none", data |-> "none", stamp |-> "none"]
Old == [type |-> "file", data |-> "O", stamp |-> "o"]
OldDir == [type |-> "dir", data |-> "none", stamp |-> "o"]
OldLink == [type |-> "link", data |-> "L", stamp |-> "o"]
Edited == [type |-> "file", data |-> "U", stamp |-> "u"]
UserDir == [type |-> "dir", data |-> "none", stamp |-> "u"]

Wanted ==
  {[type |-> "file", data |-> "W", stamp |-> "w"],
   [type |-> "dir", data |-> "none", stamp |-> "w"],
   [type |-> "file", data |-> "O", stamp |-> "w"],
   [type |-> "link", data |-> "V", stamp |-> "w"], NoItem}

Entry(item, version) == [item |-> item, version |-> version]

\* Versions are older than the wanted one, or in conflict and lose or win, or that one,
\* or newer.  Deletions lose against what is not deleted.
Concurrent(item) ==
  IF item = NoItem /\ want # NoItem THEN {"loses"}
  ELSE IF item # NoItem /\ want = NoItem THEN {"wins"} ELSE {"loses", "wins"}

\* The simplest of the initial states: nothing is there, and a directory is wanted.
NothingThere == disk = NoItem /\ want.type = "dir" /\ local = Entry(NoItem, "old")

Init ==
  /\ want \in Wanted
  /\ disk \in {NoItem, Old, OldDir, OldLink} \ {want}
  /\ child \in IF disk.type = "dir" THEN {"none", "ignored", "deletable"} ELSE {"none"}
  /\ local \in {Entry(disk, v) : v \in (Concurrent(disk) \cap {"loses"}) \cup {"old"}}
  /\ at = "idle"
  /\ kept = {}
  /\ mine = IF local.version = "loses" /\ disk.type = "file" THEN {disk.data} ELSE {}
  /\ acts = 0
  /\ crashes = 0

Needed == local.version \in {"old", "loses"}
\* Mutant: the blocks are not compared.
SameBlocks_Type == local.item.type = "file" /\ want.type = "file"
SameBlocks == local.item.type = "file" /\ local.item.data = want.data

-----------------------------------------------------------------------------
(* The user and the scanner *)

UserActs(item, newChild, data) ==
  /\ acts < MaxActs
  /\ at = "idle" \/ UserAtGap
  /\ Needed /\ SameBlocks => UserAtShortcut
  /\ acts' = acts + 1
  /\ disk' = item
  /\ child' = newChild
  /\ mine' = data
  /\ UNCHANGED <<local, want, at, kept, crashes>>

Edit == disk.type # "dir" /\ UserActs(Edited, child, {"U"})
Remove == disk # NoItem /\ child = "none" /\ UserActs(NoItem, "none", {})
MakeDir == disk = NoItem /\ UserActs(UserDir, "none", mine)
AddChild ==
  /\ disk.type = "dir"
  /\ child = "none"
  /\ UserActs(disk, "unknown", mine \cup {"C"})

\* Mutant: what is no longer on disk is not looked for.
Differs_Present ==
  disk # NoItem /\ <<disk.type, disk.stamp>> # <<local.item.type, local.item.stamp>>
Differs == <<disk.type, disk.stamp>> # <<local.item.type, local.item.stamp>>

\* A scan records what differs as a change of this device.
Scan ==
  /\ at = "idle"
  /\ \/ /\ Differs
        /\ \E v \in IF Needed \/ local.version = "wins" THEN Concurrent(disk) ELSE {"newer"} :
             local' = Entry(disk, v)
        /\ UNCHANGED child
     \/ /\ child = "unknown"
        /\ child' = "known"
        /\ UNCHANGED local
  /\ UNCHANGED <<disk, want, at, kept, mine, acts, crashes>>

-----------------------------------------------------------------------------
(* The puller *)

\* Mutant: the item is compared by its type.
Unchanged_Type == local.item # NoItem /\ disk.type = local.item.type
\* scanIfItemChanged: the item is as the database has it.
Unchanged == local.item # NoItem /\ ~Differs

InConflict == local.version = "loses"

\* Mutant: a conflict with a file is only looked for if a file replaces it.
MovesForConflict_File == local.item.type = "file" /\ InConflict /\ want.type = "file"
MovesForConflict == local.item.type = "file" /\ InConflict

\* Mutant: what is known to nobody is removed with the directory.
ChildInTheWay_Known == child \in {"known", "ignored"}
\* deleteDirOnDiskHandleChildren: only what may be deleted goes with the directory.
ChildInTheWay == child \in {"unknown", "known", "ignored"}

\* Mutant: the directory is replaced, and what is in it stays.
ChildAfter_Kept == child
ChildAfter == "none"

\* deleteItemOnDisk, or moveForConflict.
Clear ==
  /\ disk' = NoItem
  /\ child' = ChildAfter
  /\ disk.type = "dir" => ~ChildInTheWay
  /\ kept' = IF disk.type = "file" /\ (IF MovesForConflict THEN Conflicts ELSE Versioning)
             THEN kept \cup {disk.data} ELSE kept

Pulls(type) == at = "idle" /\ Needed /\ want.type = type

\* The old item is removed if it is what the database says.
ClearForNew ==
  /\ at' = "cleared"
  /\ \/ disk = NoItem /\ UNCHANGED <<disk, child, kept>>
     \/ disk # NoItem /\ Unchanged /\ Clear
  /\ UNCHANGED <<local, want, mine, acts, crashes>>

\* performFinish, with a finished temporary file.
Finish == Pulls("file") /\ ~SameBlocks /\ ClearForNew

HandleSymlink == Pulls("link") /\ ClearForNew

\* handleDir: a directory that is there only gets the permissions.
HandleDir ==
  /\ Pulls("dir")
  /\ \/ disk.type # "dir" /\ ClearForNew
     \/ /\ disk.type = "dir"
        /\ disk' = want
        /\ at' = "placed"
        /\ UNCHANGED <<child, local, want, kept, mine, acts, crashes>>

\* shortcutFile: permissions and times of whatever is there are set.
ShortcutFile ==
  /\ Pulls("file") /\ SameBlocks
  /\ disk' = IF disk = NoItem THEN disk ELSE [disk EXCEPT !.stamp = want.stamp]
  /\ at' = "placed"
  /\ UNCHANGED <<child, local, want, kept, mine, acts, crashes>>

\* checkToBeDeleted, deleteFile and deleteDir.
Delete ==
  /\ Pulls("none")
  /\ at' = "placed"
  /\ \/ disk = NoItem /\ local.item = NoItem /\ UNCHANGED <<disk, child, kept>>
     \/ disk # NoItem /\ Unchanged /\ Clear
  /\ UNCHANGED <<local, want, mine, acts, crashes>>

\* The temporary file is renamed over what is there; a directory or link is created only
\* where nothing is.
Place ==
  /\ at = "cleared"
  /\ \/ /\ disk = NoItem \/ (want.type = "file" /\ disk.type # "dir")
        /\ disk' = want
        /\ at' = "placed"
     \/ /\ disk # NoItem /\ (want.type # "file" \/ disk.type = "dir")
        /\ at' = "idle"
        /\ UNCHANGED disk
  /\ UNCHANGED <<child, local, want, kept, mine, acts, crashes>>

Record ==
  /\ at = "placed"
  /\ at' = "idle"
  /\ local' = Entry(want, "want")
  /\ UNCHANGED <<disk, child, want, kept, mine, acts, crashes>>

\* A crash: what was to be recorded is not.
Crash ==
  /\ crashes < MaxCrashes
  /\ at # "idle"
  /\ crashes' = crashes + 1
  /\ at' = "idle"
  /\ UNCHANGED <<disk, child, local, want, kept, mine, acts>>

User == Edit \/ Remove \/ MakeDir \/ AddChild
Pull == Finish \/ HandleSymlink \/ HandleDir \/ ShortcutFile \/ Delete \/ Place \/ Record
Next == User \/ Scan \/ Pull \/ Crash

Spec == Init /\ [][Next]_vars

\* Scans are scheduled for what is in the way, and pulls are retried.
FairSpec == Spec /\ WF_vars(Scan) /\ WF_vars(Pull)

-----------------------------------------------------------------------------
(* Properties *)

TypeOK ==
  /\ disk.type \in {"none", "file", "dir", "link"}
  /\ child # "none" => disk.type = "dir"
  /\ local.version \in {"old", "loses", "wins", "want", "newer"}
  /\ at \in {"idle", "cleared", "placed"}
  /\ acts \in 0..MaxActs /\ crashes \in 0..MaxCrashes

\* What the user has written and the wanted version does not know is never lost: it is
\* on disk, or in a conflict copy or the archive - whatever is pulled, and wherever it
\* crashes.
MineKept == \A d \in mine : d \in kept \/ disk.data = d \/ (d = "C" /\ child # "none")

\* A change on disk that the database does not have yet is one that the next scan sees:
\* pulling never hides it by recording the stat of other contents.
ChangesAreSeen ==
  at = "idle" /\ disk.type = "file" /\ disk.data # local.item.data => Differs

\* When the user is done, the wanted item comes to be there, or the device has its own
\* version of it, after any crash - unless something in a directory is in the way.
Converges == <>[](~Needed \/ child \in {"ignored", "known"})

\* What is recorded as pulled was there (a crash leaves the old entry, never a new entry
\* without the item), unless the user has changed it since.
RecordedIsThere ==
  acts = 0 /\ local.version = "want" => disk = want
=============================================================================
