---------------------------- MODULE VersionList ----------------------------
(***************************************************************************)
(* The list of the versions of one item that a folder's devices have       *)
(* (lib/db/structs.go): for each version the devices that have it valid    *)
(* and those that have it invalid, the newest version in front.  The first *)
(* version that is valid anywhere is the global one.                       *)
(*                                                                         *)
(* A file is [ver, inv]: one of the item's versions, and whether the       *)
(* device has it marked invalid.  A version is a record with its vector,   *)
(* whether it is a deletion, and its modification time.                    *)
(***************************************************************************)
EXTENDS VersionVector, SequencesExt

FileVersion(ver, devs, invs) == [ver |-> ver, devs |-> devs, invs |-> invs]

newFileVersion(d, f) == IF f.inv THEN FileVersion(f.ver, <<>>, <<d>>)
                                 ELSE FileVersion(f.ver, <<d>>, <<>>)

IsInvalid(fv) == fv.devs = <<>>
FirstDevice(fv) == Head(fv.devs \o fv.invs)
HasDevice(fv, d) == d \in ToSet(fv.devs) \cup ToSet(fv.invs)

\* 0 if the list is empty; the first version if all are invalid.
findGlobal(vl) ==
    LET i == SelectInSeq(vl, LAMBDA fv : ~IsInvalid(fv))
    IN  IF i = 0 /\ vl # <<>> THEN 1 ELSE i
GetGlobal(vl) == vl[findGlobal(vl)]

findDevice(vl, d) == SelectInSeq(vl, LAMBDA fv : HasDevice(fv, d))
Has(vl, d) == findDevice(vl, d) # 0
Get(vl, d) == vl[findDevice(vl, d)]

\* Mutant of pop: only looks among the devices that have the item valid.
pop_ValidOnly(vl, d) ==
    LET i  == SelectInSeq(vl, LAMBDA fv : d \in ToSet(fv.devs))
        fv == FileVersion(vl[i].ver, RemoveFirst(vl[i].devs, d), vl[i].invs)
    IN  CASE i = 0                              -> vl
          [] i # 0 /\ fv.devs \o fv.invs = <<>> -> RemoveAt(vl, i)
          [] OTHER                              -> ReplaceAt(vl, i, fv)

\* Without device d.
pop(vl, d) ==
    LET i  == findDevice(vl, d)
        fv == FileVersion(vl[i].ver, RemoveFirst(vl[i].devs, d), RemoveFirst(vl[i].invs, d))
    IN  CASE i = 0                              -> vl
          [] i # 0 /\ fv.devs \o fv.invs = <<>> -> RemoveAt(vl, i)
          [] OTHER                              -> ReplaceAt(vl, i, fv)

\* Mutant of PopChangesGlobal: forgets that another version takes over.
PopChangesGlobal_LastOnly(vl, d) ==
    Len(vl) = 1 /\ vl[1].devs \o vl[1].invs = <<d>>

\* Whether that takes away the global version: its last entry, or its last
\* valid device.
PopChangesGlobal(vl, d) ==
    LET i == findDevice(vl, d)
    IN  /\ i # 0 /\ i = findGlobal(vl)
        /\ \/ vl[i].devs \o vl[i].invs = <<d>>
           \/ vl[i].devs = <<d>>

\* f is to be chosen when it is in conflict with o.
WinsConflict(f, o) ==
    \/ ~f.inv /\ o.inv
    \/ /\ f.inv = o.inv
       /\ \/ ~f.ver.deleted /\ o.ver.deleted
          \/ /\ f.ver.deleted = o.ver.deleted
             /\ \/ f.ver.mod > o.ver.mod
                \/ /\ f.ver.mod = o.ver.mod
                   /\ Compare(f.ver.vec, o.ver.vec) = "ConcurrentGreater"

\* Mutant of shouldInsertBefore: an invalid version goes behind a valid one
\* even if it is newer.
shouldInsertBefore_ValidFirst(fv, f, files) ==
    IF IsInvalid(fv) # f.inv THEN IsInvalid(fv)
    ELSE \/ Compare(fv.ver.vec, f.ver.vec) = "Lesser"
         \/ /\ Concurrent(fv.ver.vec, f.ver.vec)
            /\ WinsConflict(f, files[FirstDevice(fv)])

\* f comes before the version fv; files[e] is the file on record of device e.
shouldInsertBefore(fv, f, files) ==
    \/ Compare(fv.ver.vec, f.ver.vec) = "Lesser"
    \/ /\ Concurrent(fv.ver.vec, f.ver.vec)
       /\ IF IsInvalid(fv) # f.inv THEN IsInvalid(fv)
                                   ELSE WinsConflict(f, files[FirstDevice(fv)])

\* With device d's file f: at the version it is, or in front of the first
\* version that it is to come before.
insert(vl, d, f, files) ==
    LET i == SelectInSeq(vl, LAMBDA fv : \/ Equal(fv.ver.vec, f.ver.vec)
                                         \/ shouldInsertBefore(fv, f, files))
    IN  CASE i = 0 -> Append(vl, newFileVersion(d, f))
          [] i # 0 /\ Equal(vl[i].ver.vec, f.ver.vec) ->
                ReplaceAt(vl, i, IF f.inv THEN [vl[i] EXCEPT !.invs = Append(@, d)]
                                          ELSE [vl[i] EXCEPT !.devs = Append(@, d)])
          [] OTHER -> InsertAt(vl, i, newFileVersion(d, f))

update(vl, d, f, files) == insert(pop(vl, d), d, f, files)

\* Mutant of UpdateChangesGlobal: the version alone is compared.
UpdateChangesGlobal_VersionOnly(vl, new) ==
    vl = <<>> \/ ~Equal(GetGlobal(vl).ver.vec, GetGlobal(new).ver.vec)

\* The global version is another one, or valid now, or invalid now.
UpdateChangesGlobal(vl, new) ==
    vl = <<>> \/ LET o == GetGlobal(vl)
                     g == GetGlobal(new)
                 IN  IsInvalid(o) # IsInvalid(g) \/ ~Equal(o.ver.vec, g.ver.vec)

\* The device d, with the version it has in vl, needs the global version g: it
\* is valid, has a version, is not a deletion of what d does not have, and is
\* not what d has or older.
Needs(g, vl, d) ==
    /\ ~IsInvalid(g) /\ ~IsEmpty(g.ver.vec)
    /\ g.ver.deleted => Has(vl, d)
    /\ ~(Has(vl, d) /\ GreaterEqual(Get(vl, d).ver.vec, g.ver.vec))

Need(vl, d) == vl # <<>> /\ Needs(GetGlobal(vl), vl, d)
=============================================================================
