------------------------------ MODULE FileSet ------------------------------
(***************************************************************************)
(* The index of one folder (lib/db): what each device has of each item,    *)
(* the version lists that name the global version, the bucket of items     *)
(* the local device needs, and the metadata that is kept up to date along  *)
(* the way instead of being counted: how many files and deletions there    *)
(* are globally, and how many each device needs.                           *)
(*                                                                         *)
(* updateMutex admits one update at a time, so the update of one item is   *)
(* one action; readers may come between two of them.                       *)
(***************************************************************************)
EXTENDS VersionList, FiniteSets

CONSTANTS
    Local,    \* this device
    Remotes,  \* the devices the folder is shared with
    Names,    \* items
    Versions, \* versions an item can have: [vec, deleted, mod]
    Ignoring, \* the devices that have items invalid at times
    Dropped,  \* the remotes whose files are dropped at times
    Asked,    \* the remotes whose sequence number is asked for at times
    LocalOnly,\* the items that change locally in a receive-only folder
    MaxCount, \* bound on the counts, which can grow when they are wrong
    NoFile, NoCounts, NoDevice

\* A version is named by its vector, and an empty one belongs to a deletion; NoDevice is
\* no device, and the local device is not remote.

VARIABLES
    have,        \* the files on record, per device and item
    versions,    \* the version list of each item
    localNeed,   \* the items in the need bucket
    globalCount, \* metadata: the valid global files
    needCount,   \* metadata: the needed files, per device
    tracked,     \* metadata: remotes with a sequence number above 0
    dropping,    \* the remote that is being dropped
    removing     \* items a scan has decided to take off the local record

vars == <<have, versions, localNeed, globalCount, needCount, tracked, dropping,
          removing>>

Devices == Remotes \cup {Local}
File == [ver : Versions, inv : BOOLEAN]

\* The files of an item, per device.
files(n) == [d \in Devices |-> have[d][n]]

----------------------------------------------------------------------------
(* Counts.                                                                 *)

Counts == [files : Nat, deleted : Nat]
Zero == [files |-> 0, deleted |-> 0]

AddFile(c, f) == IF f.ver.deleted THEN [c EXCEPT !.deleted = @ + 1]
                                  ELSE [c EXCEPT !.files = @ + 1]

\* Mutant of RemoveFile: counts below zero.
RemoveFile_Negative(c, f) == IF f.ver.deleted THEN [c EXCEPT !.deleted = @ - 1]
                                              ELSE [c EXCEPT !.files = @ - 1]

\* A count that would become negative is set to zero.
RemoveFile(c, f) == IF f.ver.deleted
                    THEN [c EXCEPT !.deleted = IF @ = 0 THEN 0 ELSE @ - 1]
                    ELSE [c EXCEPT !.files = IF @ = 0 THEN 0 ELSE @ - 1]

\* Invalid files do not count globally.
AddGlobal(c, f) == IF f.inv THEN c ELSE AddFile(c, f)
RemoveGlobal(c, f) == IF f.inv THEN c ELSE RemoveFile(c, f)

\* Mutant of allNeededCounts: counts the deletions, too.
allNeededCounts_Deletions == globalCount

\* A device without files needs everything but deletions.
allNeededCounts == [globalCount EXCEPT !.deleted = 0]
NeedSize(d) == IF needCount[d] = NoCounts THEN allNeededCounts ELSE needCount[d]

\* The need count of d, created when d first occurs, without the old global
\* file if d needed it, with the new one if d needs that.
Adjusted(d, before, old, after, new) ==
    LET c == IF before THEN RemoveFile(NeedSize(d), old) ELSE NeedSize(d)
    IN  IF after THEN AddFile(c, new) ELSE c

----------------------------------------------------------------------------
Init ==
    /\ have = [d \in Devices |-> [n \in Names |-> NoFile]]
    /\ versions = [n \in Names |-> <<>>]
    /\ localNeed = {}
    /\ globalCount = Zero
    /\ needCount = [d \in Devices |-> IF d = Local THEN Zero ELSE NoCounts]
    /\ tracked = {}
    /\ dropping = NoDevice
    /\ removing = {}

Unchanged(o, f) == o # NoFile /\ Equal(o.ver.vec, f.ver.vec) /\ o.inv = f.inv

\* The file of the new global version as updateGlobal gets it: f, which is
\* not on record for it to read yet, if it has that version, or the file of
\* the first device that does.
GlobalAfter(vl, f, fs) ==
    IF Equal(GetGlobal(vl).ver.vec, f.ver.vec) THEN f
                                               ELSE fs[FirstDevice(GetGlobal(vl))]

\* Device d has file f of item n: one file of updateRemoteFiles or
\* updateLocalFiles, with updateGlobal.
Update(d, n, f) ==
    /\ dropping = NoDevice
    /\ ~Unchanged(have[d][n], f)
    /\ f.inv => d \in Ignoring
    /\ ~(d = Local /\ n \in removing)
    /\ \A e \in Devices : needCount[e] # NoCounts =>
            needCount[e].files < MaxCount /\ needCount[e].deleted < MaxCount
    /\ have' = [have EXCEPT ![d][n] = f]
    /\ tracked' = tracked \cup ({d} \ {Local})
    /\ LET old == versions[n]
           new == update(old, d, f, files(n))
           oldGlobal == IF old = <<>> THEN NoFile
                                      ELSE files(n)[FirstDevice(GetGlobal(old))]
           global == GlobalAfter(new, f, files(n))
           changed == UpdateChangesGlobal(old, new)
           \* Those whose need can change.
           others == IF changed THEN {Local} \cup tracked ELSE {}
       IN  /\ versions' = [versions EXCEPT ![n] = new]
           /\ globalCount' =
                IF ~changed THEN globalCount
                ELSE AddGlobal(IF old = <<>> THEN globalCount
                               ELSE RemoveGlobal(globalCount, oldGlobal), global)
           /\ needCount' =
                [e \in Devices |->
                    IF e \in others \cup {d}
                    THEN Adjusted(e, Need(old, e), oldGlobal, Need(new, e), global)
                    ELSE needCount[e]]
           /\ localNeed' = IF Local \notin others \cup {d} THEN localNeed
                           ELSE IF Need(new, Local) THEN localNeed \cup {n}
                           ELSE IF Need(old, Local) THEN localNeed \ {n}
                           ELSE localNeed
    /\ UNCHANGED <<dropping, removing>>

\* removeFromGlobal, for device d and item n, and the deletion of the file.
Forget(d, n) ==
    LET old == versions[n]
        new == pop(old, d)
        oldGlobal == files(n)[FirstDevice(GetGlobal(old))]
        global == files(n)[FirstDevice(GetGlobal(new))]
        changed == PopChangesGlobal(old, d)
        \* The one that is removed may come to need the item ...
        gained == Need(new, d) /\ ~Need(old, d)
        \* ... and the others may cease to.
        lost == {e \in {Local} \cup tracked :
                    /\ changed /\ (e # d \/ e = Local)
                    /\ Needs(GetGlobal(old), new, e) /\ ~Need(new, e)}
    IN  /\ have' = [have EXCEPT ![d][n] = NoFile]
        /\ versions' = [versions EXCEPT ![n] = new]
        /\ globalCount' =
             IF ~changed THEN globalCount
             ELSE IF new = <<>> THEN RemoveGlobal(globalCount, oldGlobal)
             ELSE AddGlobal(RemoveGlobal(globalCount, oldGlobal), global)
        /\ needCount' =
             [e \in Devices |->
                 IF e = d /\ gained THEN AddFile(NeedSize(e), global)
                 ELSE IF e \in lost THEN RemoveFile(NeedSize(e), oldGlobal)
                 ELSE needCount[e]]
        /\ localNeed' = IF d = Local /\ gained THEN localNeed \cup {n}
                        ELSE IF Local \in lost THEN localNeed \ {n}
                        ELSE localNeed

\* A scan of a receive-only folder finds an item deleted that only the local
\* device has, changed: its snapshot has that as the global version.
DecideRemoval(n) ==
    /\ n \in LocalOnly
    /\ have[Local][n] # NoFile /\ have[Local][n].inv
    /\ FirstDevice(GetGlobal(versions[n])) = Local
    /\ removing' = removing \cup {n}
    /\ UNCHANGED <<have, versions, localNeed, globalCount, needCount, tracked,
                   dropping>>

\* It takes the item off the local record with its next batch.
RemoveLocal(n) ==
    /\ dropping = NoDevice
    /\ n \in removing
    /\ removing' = removing \ {n}
    /\ Forget(Local, n)
    /\ UNCHANGED <<tracked, dropping>>

\* FileSet.Drop: everything a remote has ...
BeginDrop(d) ==
    /\ dropping = NoDevice
    /\ dropping' = d
    /\ UNCHANGED <<have, versions, localNeed, globalCount, needCount, tracked,
                   removing>>

DropFile(n) ==
    /\ dropping # NoDevice
    /\ have[dropping][n] # NoFile
    /\ Forget(dropping, n)
    /\ UNCHANGED <<tracked, dropping, removing>>

\* ... and then its metadata, if there is any.
ResetAll ==
    /\ dropping # NoDevice
    /\ \A n \in Names : have[dropping][n] = NoFile
    /\ needCount' = [needCount EXCEPT ![dropping] =
                        IF @ = NoCounts THEN NoCounts ELSE allNeededCounts]
    /\ tracked' = tracked \ {dropping}
    /\ dropping' = NoDevice
    /\ UNCHANGED <<have, versions, localNeed, globalCount, removing>>

\* Asking for a sequence number makes the device occur in the metadata.
Sequence(d) ==
    /\ needCount[d] = NoCounts
    /\ needCount' = [needCount EXCEPT ![d] = allNeededCounts]
    /\ UNCHANGED <<have, versions, localNeed, globalCount, tracked, dropping,
                   removing>>

----------------------------------------------------------------------------
Needed(d) == {n \in Names : Need(versions[n], d)}
GlobalFile(n) == files(n)[FirstDevice(GetGlobal(versions[n]))]
CountOf(N) == [files   |-> Cardinality({n \in N : ~GlobalFile(n).ver.deleted}),
               deleted |-> Cardinality({n \in N : GlobalFile(n).ver.deleted})]
ValidGlobals == {n \in Names : versions[n] # <<>> /\ ~GlobalFile(n).inv}

\* When the folder starts, now and then: the metadata is counted anew, and the
\* need bucket is corrected.
Recalculate ==
    /\ dropping = NoDevice
    /\ localNeed' = Needed(Local)
    /\ globalCount' = CountOf(ValidGlobals)
    /\ tracked' = {d \in Remotes : \E n \in Names : have[d][n] # NoFile}
    /\ needCount' = [d \in Devices |-> IF d \in tracked' \cup {Local}
                                       THEN CountOf(Needed(d)) ELSE NoCounts]
    /\ removing' = {}
    /\ UNCHANGED <<have, versions, dropping>>

Next ==
    \/ \E d \in Devices, n \in Names, f \in File : Update(d, n, f)
    \/ \E n \in Names : DecideRemoval(n) \/ RemoveLocal(n) \/ DropFile(n)
    \/ \E d \in Dropped : BeginDrop(d)
    \/ \E d \in Asked : Sequence(d)
    \/ ResetAll
    \/ Recalculate

Spec == Init /\ [][Next]_vars

----------------------------------------------------------------------------
TypeOK ==
    /\ have \in [Devices -> [Names -> File \cup {NoFile}]]
    /\ \A n \in Names : versions[n] \in Seq([ver : Versions, devs : Seq(Devices),
                                            invs : Seq(Devices)])
    /\ localNeed \subseteq Names
    /\ globalCount \in Counts
    /\ needCount \in [Devices -> Counts \cup {NoCounts}]
    /\ tracked \subseteq Remotes
    /\ dropping \in Remotes \cup {NoDevice}
    /\ removing \subseteq Names

\* A version list says of every device what is on record for it, once.
ListsMatchFiles ==
    \A n \in Names, d \in Devices :
        LET at == {i \in DOMAIN versions[n] : HasDevice(versions[n][i], d)}
        IN  IF have[d][n] = NoFile THEN at = {}
            ELSE \E i \in DOMAIN versions[n] :
                    /\ at = {i}
                    /\ versions[n][i].ver = have[d][n].ver
                    /\ (d \in ToSet(versions[n][i].invs)) = have[d][n].inv
                    /\ (d \in ToSet(versions[n][i].devs)) = ~have[d][n].inv

\* The global counts are those of the global files.
GlobalCountRight == dropping = NoDevice => globalCount = CountOf(ValidGlobals)

\* The need bucket, which the local device pulls by, holds what it needs, and its count is
\* that of those items.
LocalNeedRight ==
    dropping = NoDevice => localNeed = Needed(Local) /\ needCount[Local] = CountOf(Needed(Local))

\* The count of what a remote that sent files needs is that of the files it needs.
NeedCountsRight ==
    dropping = NoDevice => \A d \in tracked : NeedSize(d) = CountOf(Needed(d))

\* The global version is the newest: no device has a newer one valid.
GlobalIsNewest ==
    \A n \in Names, d \in Devices :
        have[d][n] # NoFile /\ ~have[d][n].inv =>
            Compare(GetGlobal(versions[n]).ver.vec, have[d][n].ver.vec) # "Lesser"

\* The vectors of an item's versions are of the same devices, and name them; what is absent is
\* no file, no counts and no device.
Configured ==
    /\ IsFiniteSet(Names) /\ Local \notin Remotes /\ NoDevice \notin Devices /\ Dropped \subseteq Remotes
    /\ NoFile \notin File /\ NoCounts \notin Counts
    /\ \A v \in Versions : v.deleted \in BOOLEAN /\ v.vec \in [DOMAIN v.vec -> Nat]
    /\ \A v, w \in Versions : DOMAIN v.vec = DOMAIN w.vec /\ (v.vec = w.vec => v = w)

\* Only deletions have a version without counters.
OnlyDeletionsEmpty == \A v \in Versions : IsEmpty(v.vec) => v.deleted

\* Versions succeed each other: none is in conflict with another.
InSuccession == \A v, w \in Versions : ~Concurrent(v.vec, w.vec)

\* The version lists are those of the files. What is derived from them is what a recount
\* gives: the newest version, where versions are not in conflict (arrival decides where
\* three are); the local needs, where nothing is taken away (what a device no longer needs
\* then is looked for, and what it comes to need is not); the global counts, where no file
\* is invalid (such a file of the global version is not counted); and the needs of
\* remotes, where both hold, and nobody makes a device known before it has sent files.
FileSetRight ==
    /\ ListsMatchFiles
    /\ InSuccession => GlobalIsNewest
    /\ Dropped = {} /\ LocalOnly = {} => LocalNeedRight
    /\ Ignoring = {} => GlobalCountRight
    /\ Ignoring = {} /\ Dropped = {} /\ Asked = {} /\ OnlyDeletionsEmpty => NeedCountsRight
=============================================================================
