--------------------------- MODULE IndexExchange ---------------------------
(***************************************************************************)
(* Delta index exchange of one folder, in one direction: device S (the     *)
(* sender) tells device R (the receiver) what its folder holds.            *)
(*                                                                         *)
(* S gives every change of an item the next sequence number of its local   *)
(* index, which is named by an index ID.  R keeps the items it was told,   *)
(* the ID they belong to, and the highest sequence number among them; it   *)
(* announces {ID, sequence} in its ClusterConfig and S sends only what is  *)
(* above it (lib/model/indexhandler.go).  R's side is lib/db: a receive is *)
(* a sequence of database operations and commits, with the metadata held   *)
(* in memory and written along with each commit, so a ClusterConfig that   *)
(* is generated meanwhile, or a crash, sees the state between two of them. *)
(*                                                                         *)
(* An entry with sequence number 0 stands for "no entry".  Values stand    *)
(* for what db.unchanged compares: the version and the invalid flag.       *)
(***************************************************************************)
EXTENDS Integers, Sequences, FiniteSets

CONSTANTS
    Files,        \* names of the items of the folder
    Vals,         \* what an index entry says of an item
    NoVal,        \* the value of an absent entry
    BatchSize,    \* most entries in one Index or IndexUpdate message
    CrashWindows, \* where R may crash in spite of an unsafe database state:
                  \* "drop" (between the two commits of FileSet.Drop) and
                  \* "blocklist" (a flush forced by a large block list)
    \* Bounds, for model checking:
    MaxSeq,       \* changes of S's index under one index ID
    MaxIndexID,   \* index IDs S has during a behaviour
    MaxConns,     \* connections made
    MaxResends    \* ClusterConfigs R sends on a connection after the first

ASSUME BoundsAssumption ==
    /\ {BatchSize, MaxSeq, MaxIndexID, MaxConns, MaxResends} \subseteq Nat
    /\ BatchSize > 0
ASSUME ValsAssumption == NoVal \notin Vals
ASSUME WindowsAssumption == CrashWindows \subseteq {"drop", "blocklist"}

VARIABLES
    local, localSeq, indexID,   \* S: its index, sequence counter and index ID
    sender,                     \* S: the index handler of the connection
    remote, diskSeq, remoteID,  \* R: what is on disk about S
    view, memSeq,               \* R: the same with what is not yet committed
    pc, msg, todo,              \* R: progress in handling a message
    up, conns,                  \* the connection
    toR,                        \* messages from S to R, in order
    claims, ccID, resends       \* ClusterConfigs from R to S

sVars == <<local, localSeq, indexID>>
rVars == <<remote, diskSeq, remoteID, view, memSeq, pc, msg, todo>>
claimVars == <<claims, ccID, resends>>
vars == <<sVars, sender, rVars, up, conns, toR, claimVars>>

----------------------------------------------------------------------------
Entry == [val : Vals \cup {NoVal}, seq : Nat]
NoEntry == [val |-> NoVal, seq |-> 0]
NoEntries == [f \in Files |-> NoEntry]

Larger(a, b) == IF a > b THEN a ELSE b

\* Messages from S to R.  An index message carries the entries of a snapshot
\* of S's index with since < sequence <= upto; "index" is a full Index.
ClusterConfigMsg(id) == [type |-> "cc", id |-> id]
IndexMsg(type, since, upto, snap) ==
    [type |-> type, since |-> since, upto |-> upto,
     ents |-> [f \in Files |-> IF since < snap[f].seq /\ snap[f].seq <= upto
                               THEN snap[f] ELSE NoEntry]]
NoMsg == [type |-> "none"]
Listed(m) == {f \in Files : m.ents[f].seq > 0}

NoCC == -1

SenderOff == [on |-> FALSE, prev |-> 0, round |-> FALSE, initial |-> FALSE,
              pos |-> 0, snap |-> NoEntries]
SenderAt(seq) == [SenderOff EXCEPT !.on = TRUE, !.prev = seq]

Init ==
    /\ local = NoEntries /\ localSeq = 0 /\ indexID = 1
    /\ sender = SenderOff
    /\ remote = NoEntries /\ diskSeq = 0 /\ remoteID = 0
    /\ view = NoEntries /\ memSeq = 0
    /\ pc = "idle" /\ msg = NoMsg /\ todo = {}
    /\ up = FALSE /\ conns = 0 /\ toR = <<>>
    /\ claims = {} /\ ccID = NoCC /\ resends = 0

----------------------------------------------------------------------------
(* S: the index and the index handler.                                     *)

\* An item changes, or only its local flags do (v is then its old value): it
\* gets the next sequence number.
LocalChange(f, v) ==
    /\ localSeq < MaxSeq
    /\ localSeq' = localSeq + 1
    /\ local' = [local EXCEPT ![f] = [val |-> v, seq |-> localSeq + 1]]
    /\ UNCHANGED <<indexID, sender, rVars, up, conns, toR, claimVars>>

\* Mutant: a new database under the old index ID.
ResetIndex_SameID ==
    /\ ~up
    /\ indexID < MaxIndexID
    /\ local' = NoEntries /\ localSeq' = 0
    /\ UNCHANGED <<indexID, sender, rVars, up, conns, toR, claimVars>>

\* S restarts with a new database, or with the delta index IDs dropped.
ResetIndex ==
    /\ ~up
    /\ indexID < MaxIndexID
    /\ indexID' = indexID + 1
    /\ \/ local' = NoEntries /\ localSeq' = 0
       \/ UNCHANGED <<local, localSeq>>
    /\ UNCHANGED <<sender, rVars, up, conns, toR, claimVars>>

\* Mutants: the sequence number of a claim is used for whatever index, and
\* S starts one entry early.
StartSequence_AnyID(c) == IF c.seq <= localSeq THEN c.seq ELSE 0
StartSequence_OneEarly(c) ==
    IF c.id = indexID /\ c.seq <= localSeq THEN c.seq - 1 ELSE 0

StartSequence(c) ==
    IF c.id = indexID /\ c.seq <= localSeq THEN c.seq ELSE 0

\* A ClusterConfig from R (re)starts the index handler; one that was sending
\* is stopped where it is.
StartSender(c) ==
    /\ up
    /\ claims' = claims \ {c}
    /\ sender' = SenderAt(StartSequence(c))
    /\ UNCHANGED <<sVars, rVars, up, conns, toR, ccID, resends>>

\* Mutant: an off-by-one in the comparison of sequence numbers.
StartRound_OffByOne ==
    /\ sender.on /\ ~sender.round
    /\ localSeq > sender.prev + 1
    /\ sender' = [sender EXCEPT !.round = TRUE, !.pos = sender.prev,
                                !.initial = (sender.prev = 0), !.snap = local]
    /\ UNCHANGED <<sVars, rVars, up, conns, toR, claimVars>>

StartRound ==
    /\ sender.on /\ ~sender.round
    /\ localSeq > sender.prev
    /\ sender' = [sender EXCEPT !.round = TRUE, !.pos = sender.prev,
                                !.initial = (sender.prev = 0), !.snap = local]
    /\ UNCHANGED <<sVars, rVars, up, conns, toR, claimVars>>

\* The next entries of the round's snapshot, by sequence number, go out in one
\* message; the last message of the round moves prevSequence.
SendBatch ==
    /\ sender.round
    /\ \E last \in Files :
        LET upto  == sender.snap[last].seq
            batch == IndexMsg(IF sender.initial THEN "index" ELSE "update",
                              sender.pos, upto, sender.snap)
        IN  /\ upto > sender.pos
            /\ Cardinality(Listed(batch)) <= BatchSize
            /\ toR' = Append(toR, batch)
            /\ sender' = IF \E f \in Files : sender.snap[f].seq > upto
                         THEN [sender EXCEPT !.pos = upto, !.initial = FALSE]
                         ELSE SenderAt(upto)
    /\ UNCHANGED <<sVars, rVars, up, conns, claimVars>>

----------------------------------------------------------------------------
(* The connection.                                                         *)

\* Both sides have finished with the previous connection.  Each promotes the
\* new one: it generates its ClusterConfig and then starts to read.
Connect ==
    /\ ~up /\ pc = "idle"
    /\ conns < MaxConns
    /\ up' = TRUE
    /\ conns' = conns + 1
    /\ toR' = <<ClusterConfigMsg(indexID)>>
    /\ claims' = {[n |-> 0, id |-> remoteID, seq |-> memSeq]}
    /\ ccID' = NoCC /\ resends' = 0
    /\ UNCHANGED <<sVars, sender, rVars>>

LoseConnection ==
    /\ up' = FALSE
    /\ toR' = <<>>
    /\ claims' = {} /\ ccID' = NoCC /\ resends' = 0
    /\ sender' = SenderOff

\* What is in flight is lost; R completes the message it is handling.
Disconnect ==
    /\ up
    /\ LoseConnection
    /\ UNCHANGED <<sVars, rVars, conns>>

\* A configuration change makes R generate another ClusterConfig: it reads the
\* index ID, then the sequence number, and is sent by a goroutine of its own.
ReadIndexID ==
    /\ up /\ ccID = NoCC
    /\ resends < MaxResends
    /\ ccID' = remoteID
    /\ resends' = resends + 1
    /\ UNCHANGED <<sVars, sender, rVars, up, conns, toR, claims>>

ReadMaxSequence ==
    /\ ccID # NoCC
    /\ claims' = claims \cup {[n |-> resends, id |-> ccID, seq |-> memSeq]}
    /\ ccID' = NoCC
    /\ UNCHANGED <<sVars, sender, rVars, up, conns, toR, resends>>

----------------------------------------------------------------------------
(* R: receiving.                                                           *)

\* The message loop takes the next message when it is done with the last one.
TakeMessage ==
    /\ up /\ pc = "idle"
    /\ toR # <<>>
    /\ toR' = Tail(toR)
    /\ UNCHANGED <<sVars, sender, remote, diskSeq, remoteID, view, memSeq, up,
                   conns, claimVars>>

\* An index ID other than the one on file: drop what R has from S.
ReceiveClusterConfig ==
    /\ TakeMessage
    /\ Head(toR).type = "cc"
    /\ \/ Head(toR).id = remoteID /\ UNCHANGED <<pc, msg>>
       \/ Head(toR).id # remoteID /\ pc' = "drop" /\ msg' = Head(toR)
    /\ UNCHANGED todo

ReceiveIndex ==
    /\ TakeMessage
    /\ Head(toR).type \in {"index", "update"}
    /\ pc' = IF Head(toR).type = "index" THEN "drop" ELSE "apply"
    /\ msg' = Head(toR)
    /\ todo' = Listed(Head(toR))

\* dropDeviceFolder deletes the files of S, and flushes now and then...
DropSome ==
    /\ pc = "drop"
    /\ \E D \in SUBSET Files :
        view' = [f \in Files |-> IF f \in D THEN NoEntry ELSE view[f]]
    /\ remote' = view' /\ diskSeq' = memSeq
    /\ UNCHANGED <<sVars, sender, remoteID, memSeq, pc, msg, todo, up, conns,
                   toR, claimVars>>

\* Mutant: the files stay when the sequence counter is reset.
DropFiles_Kept ==
    /\ pc = "drop"
    /\ pc' = "resetSeq"
    /\ UNCHANGED <<sVars, sender, remote, diskSeq, remoteID, view, memSeq, msg,
                   todo, up, conns, toR, claimVars>>

\* ... and commits.
DropFiles ==
    /\ pc = "drop"
    /\ view' = NoEntries /\ remote' = NoEntries /\ diskSeq' = memSeq
    /\ pc' = "resetSeq"
    /\ UNCHANGED <<sVars, sender, remoteID, memSeq, msg, todo, up, conns, toR,
                   claimVars>>

\* Mutant: the sequence counter survives the files.
ResetSequence_Kept ==
    /\ pc = "resetSeq"
    /\ pc' = IF msg.type = "cc" THEN "setID" ELSE "apply"
    /\ UNCHANGED <<sVars, sender, remote, diskSeq, remoteID, view, memSeq, msg,
                   todo, up, conns, toR, claimVars>>

\* resetAll, and the second commit of FileSet.Drop.
ResetSequence ==
    /\ pc = "resetSeq"
    /\ memSeq' = 0 /\ diskSeq' = 0
    /\ pc' = IF msg.type = "cc" THEN "setID" ELSE "apply"
    /\ UNCHANGED <<sVars, sender, remote, remoteID, view, msg, todo, up, conns,
                   toR, claimVars>>

Done == pc' = "idle" /\ msg' = NoMsg /\ todo' = {}

SetIndexID ==
    /\ pc = "setID"
    /\ remoteID' = msg.id
    /\ Done
    /\ UNCHANGED <<sVars, sender, remote, diskSeq, view, memSeq, up, conns, toR,
                   claimVars>>

IsNext(f) == f \in todo /\ \A g \in todo : msg.ents[f].seq <= msg.ents[g].seq
Unchanged(f) == view[f].val = msg.ents[f].val
Flush == remote' = view' /\ diskSeq' = memSeq'

\* Mutant: an unchanged file is counted too.
ApplyEntry_CountsUnchanged ==
    /\ pc = "apply"
    /\ \E f \in todo :
        /\ IsNext(f)
        /\ todo' = todo \ {f}
        /\ memSeq' = Larger(memSeq, msg.ents[f].seq)
        /\ \/ Unchanged(f) /\ UNCHANGED <<view, remote, diskSeq>>
           \/ /\ ~Unchanged(f)
              /\ view' = [view EXCEPT ![f] = msg.ents[f]]
              /\ Flush \/ UNCHANGED <<remote, diskSeq>>
    /\ UNCHANGED <<sVars, sender, remoteID, pc, msg, up, conns, toR, claimVars>>

\* One file of updateRemoteFiles, and the checkpoint after it.
ApplyEntry ==
    /\ pc = "apply"
    /\ \E f \in todo :
        /\ IsNext(f)
        /\ todo' = todo \ {f}
        /\ \/ Unchanged(f) /\ UNCHANGED <<view, memSeq, remote, diskSeq>>
           \/ /\ ~Unchanged(f)
              /\ view' = [view EXCEPT ![f] = msg.ents[f]]
              /\ memSeq' = Larger(memSeq, msg.ents[f].seq)
              /\ Flush \/ UNCHANGED <<remote, diskSeq>>
    /\ UNCHANGED <<sVars, sender, remoteID, pc, msg, up, conns, toR, claimVars>>

\* The metadata already counts the next file when its block list, which is
\* written first, fills the write batch and forces a flush.
FlushAtBlockList ==
    /\ "blocklist" \in CrashWindows
    /\ pc = "apply"
    /\ \E f \in todo : /\ IsNext(f) /\ ~Unchanged(f)
                       /\ memSeq' = Larger(memSeq, msg.ents[f].seq)
    /\ UNCHANGED view
    /\ Flush
    /\ UNCHANGED <<sVars, sender, remoteID, pc, msg, todo, up, conns, toR,
                   claimVars>>

CommitBatch ==
    /\ pc = "apply" /\ todo = {}
    /\ remote' = view /\ diskSeq' = memSeq
    /\ Done
    /\ UNCHANGED <<sVars, sender, remoteID, view, memSeq, up, conns, toR,
                   claimVars>>

\* R stops and starts again with what is on disk.
Crash ==
    /\ pc \in {"drop", "resetSeq"} /\ msg.type = "index"
       => "drop" \in CrashWindows
    /\ view' = remote /\ memSeq' = diskSeq
    /\ Done
    /\ LoseConnection
    /\ UNCHANGED <<sVars, remote, diskSeq, remoteID, conns>>

\* R starts with the delta index IDs dropped.
DropDeltaIndexIDs ==
    /\ ~up /\ pc = "idle"
    /\ remoteID # 0
    /\ remoteID' = 0
    /\ UNCHANGED <<sVars, sender, remote, diskSeq, view, memSeq, pc, msg, todo,
                   up, conns, toR, claimVars>>

----------------------------------------------------------------------------
SenderStep == StartRound \/ SendBatch \/ \E c \in claims : StartSender(c)
ReceiverStep ==
    \/ ReceiveClusterConfig \/ ReceiveIndex
    \/ DropFiles \/ ResetSequence \/ SetIndexID
    \/ ApplyEntry \/ CommitBatch
Environment ==
    \/ \E f \in Files, v \in Vals : LocalChange(f, v)
    \/ ResetIndex \/ Disconnect \/ ReadIndexID \/ DropSome
    \/ FlushAtBlockList \/ Crash \/ DropDeltaIndexIDs

Next == SenderStep \/ ReceiverStep \/ Connect \/ ReadMaxSequence \/ Environment

Spec == Init /\ [][Next]_vars

\* The index handler polls at least once a minute, the message loops run as
\* long as the connection is up, and the connection service redials.
FairSpec ==
    /\ Spec
    /\ WF_vars(SenderStep) /\ WF_vars(ReceiverStep)
    /\ WF_vars(Connect) /\ WF_vars(ReadMaxSequence)

----------------------------------------------------------------------------
Sender == [on : BOOLEAN, prev : Nat, round : BOOLEAN, initial : BOOLEAN,
           pos : Nat, snap : [Files -> Entry]]
Claim == [n : Nat, id : Nat, seq : Nat]

ClusterConfigMessage == [type : {"cc"}, id : Nat]
IndexMessage == [type : {"index", "update"}, since : Nat, upto : Nat,
                 ents : [Files -> Entry]]
Message == ClusterConfigMessage \cup IndexMessage

\* The messages R can be handling at each point of the program.
Handled(p) == CASE p = "idle"  -> {NoMsg}
                [] p = "setID" -> ClusterConfigMessage
                [] p = "apply" -> IndexMessage
                [] OTHER       -> Message

TypeOK ==
    /\ local \in [Files -> Entry] /\ localSeq \in Nat /\ indexID \in Nat \ {0}
    /\ sender \in Sender
    /\ remote \in [Files -> Entry] /\ diskSeq \in Nat /\ remoteID \in Nat
    /\ view \in [Files -> Entry] /\ memSeq \in Nat
    /\ pc \in {"idle", "drop", "resetSeq", "setID", "apply"}
    /\ msg \in Handled(pc)
    /\ todo \in SUBSET Files
    /\ up \in BOOLEAN /\ conns \in Nat
    /\ toR \in Seq(Message)
    /\ claims \in SUBSET Claim
    /\ ccID \in Nat \cup {NoCC} /\ resends \in Nat

\* r has what S's index says of the items numbered up to k.
Knows(r, k) ==
    \A f \in Files : local[f].seq \in 1..k => r[f].val = local[f].val

\* R's next claim, after a restart now, is one S may rely on: R has every
\* item that S will not send again (indexhandler.go, newIndexHandler).
DurableClaimSound == remoteID = indexID => Knows(remote, diskSeq)

Dropping == pc \in {"drop", "resetSeq"}

\* The same between messages and while one is applied: nothing that is
\* skipped on the word of a {index ID, sequence} pair is missing.
ClaimSound == ~Dropping => DurableClaimSound

\* The same when no message is being handled, as it must be on connecting: R
\* holds what the claim it would send says it holds.
RestingClaimSound == pc = "idle" => DurableClaimSound

\* The counter that FileSet.Sequence reports is the highest number stored, as
\* recalcMeta would find it.
SequenceMatchesFiles ==
    ~Dropping /\ remoteID = indexID =>
        /\ \A f \in Files : view[f].seq <= memSeq
        /\ memSeq > 0 => \E f \in Files : view[f].seq = memSeq

\* R never claims more of an index than S has: the full transfer of
\* newIndexHandler's safety check is never provoked by the exchange itself.
NeverAhead == remoteID = indexID => memSeq <= localSeq

\* An entry is only ever replaced by a later one of the same index, or dropped.
NoStaleEntry ==
    [][\A f \in Files : pc = "apply" => remote'[f].seq >= remote[f].seq]_vars

\* Once S's index stops changing R learns all of it, whatever was lost on the
\* way.
InSync == \A f \in Files : view[f].val = local[f].val
Converges == <>[](up => InSync)
----------------------------------------------------------------------------
(* The inductive invariants of the index exchange.  They follow the        *)
(* numbers along it: what R knows, the messages in flight, and where S     *)
(* continues fit together without a gap.  IInv is behind DurableClaimSound *)
(* for connections with one ClusterConfig from R (MaxResends = 0) and no   *)
(* flush at a block list; AnyInv is what is left of it with any crashes    *)
(* and resends, and is behind NeverAhead and AnyCrashSafe.                 *)

\* Different items have different numbers.
Distinct(e) == \A f, g \in Files : e[f].seq = e[g].seq /\ e[f].seq > 0 => f = g

\* S numbers every change anew.
IndexInv ==
    /\ \A f \in Files : local[f].seq <= localSeq
    /\ Distinct(local)

\* m has, with its present number, every item numbered in its interval that S
\* has not changed again since.
Complete(m) ==
    /\ m.since < m.upto /\ m.upto <= localSeq
    /\ m.type = "index" <=> m.since = 0
    /\ Distinct(m.ents)
    /\ \A f \in Files :
        /\ m.ents[f].seq > 0 => m.ents[f].seq \in m.since + 1 .. m.upto
        /\ m.ents[f].seq <= local[f].seq
        /\ local[f].seq \in m.since + 1 .. m.upto => m.ents[f] = local[f]

IsIndex(m) == m.type \in {"index", "update"}

\* Where S goes on sending.
SenderLevel == IF sender.round THEN sender.pos ELSE sender.prev

SenderInv ==
    /\ ~up => ~sender.on
    /\ ~sender.on => sender = SenderOff
    /\ SenderLevel <= localSeq
    /\ sender.round =>
        /\ sender.initial <=> sender.pos = 0
        /\ Distinct(sender.snap)
        /\ \A f \in Files : sender.snap[f].seq <= local[f].seq
        /\ \A f, g \in Files :
            local[f].seq <= sender.snap[g].seq => sender.snap[f] = local[f]

\* The messages in flight: the ClusterConfig first, then intervals that follow
\* each other up to where S is.
ChannelInv ==
    /\ ~up => toR = <<>>
    /\ \A i \in 1..Len(toR) :
        /\ toR[i].type = "cc" => i = 1 /\ toR[i].id = indexID
        /\ IsIndex(toR[i]) => sender.on /\ Complete(toR[i])
        /\ IsIndex(toR[i]) /\ i < Len(toR) => toR[i + 1].since = toR[i].upto
        /\ IsIndex(toR[i]) /\ i = Len(toR) => toR[i].upto = SenderLevel

\* The number after which the next index message that R takes starts.
NextSince ==
    IF \E i \in 1..Len(toR) : IsIndex(toR[i])
    THEN IF IsIndex(toR[1]) THEN toR[1].since ELSE toR[2].since
    ELSE SenderLevel

Handling == pc # "idle" /\ IsIndex(msg)

\* What the next index message builds on is there.
ReadyInv ==
    sender.on =>
        \/ Handling /\ NextSince = msg.upto
        \/ ~Handling /\ remoteID = indexID /\ Knows(view, NextSince)
                     /\ memSeq <= NextSince
        \/ ~Handling /\ remoteID # indexID /\ NextSince = 0

\* A claim in flight is what R still holds, or is for another index.
ClaimInv ==
    /\ ~up => claims = {}
    /\ ccID = NoCC
    /\ \A c, d \in claims : c = d
    /\ \A c \in claims :
        /\ ~sender.on /\ ~Handling
        /\ c.id = indexID => remoteID = indexID /\ c.seq = memSeq
        /\ c.id # indexID /\ remoteID = indexID => memSeq = 0

\* The handling of a message, step by step.
HandlingInv ==
    /\ remoteID <= indexID
    /\ pc \in {"drop", "resetSeq"} => msg.type # "update"
    /\ msg.type = "cc" => /\ remoteID < msg.id /\ msg.id <= indexID
                          /\ up => msg.id = indexID
    /\ Handling => /\ up => remoteID = indexID /\ sender.on
                   /\ remoteID = indexID => Complete(msg)
                   /\ \A i \in 1..Len(toR) : IsIndex(toR[i])
    /\ up /\ pc = "idle" /\ (\A i \in 1..Len(toR) : IsIndex(toR[i]))
       => remoteID = indexID
    /\ pc \in {"drop", "resetSeq"} /\ msg.type = "index" => todo = Listed(msg)
    /\ pc \in {"resetSeq", "setID"} => view = NoEntries
    /\ pc = "setID" => memSeq = 0

\* What R has, in memory and on disk.
StoreInv ==
    /\ pc # "apply" => remote = view /\ diskSeq = memSeq
    /\ remoteID = indexID =>
        /\ diskSeq <= memSeq /\ memSeq <= localSeq
        /\ Knows(remote, diskSeq)
        /\ pc \in {"drop", "resetSeq"} => memSeq = 0
        /\ pc = "apply" =>
            /\ memSeq <= msg.upto
            /\ todo \subseteq Listed(msg)
            /\ \A f \in todo : msg.ents[f].seq > memSeq
            /\ \A f \in Files \ todo :
                local[f].seq \in 1..msg.upto => view[f].val = local[f].val

IInv ==
    /\ TypeOK
    /\ IndexInv /\ SenderInv /\ ChannelInv /\ ReadyInv /\ ClaimInv
    /\ HandlingInv /\ StoreInv
----------------------------------------------------------------------------
(* The inductive invariant behind NeverAhead and NoStaleEntry, whatever     *)
(* crashes and however many ClusterConfigs R sends. It does not say that R  *)
(* misses nothing, only that numbers grow on their way from S to R's disk.  *)

\* What has the numbers of e can still be followed by what S sends: by the
\* messages on their way, in a round, and later.
Before(e, m) == \A f \in Files : m.ents[f].seq = 0 \/ e[f].seq <= m.ents[f].seq
Behind(e) ==
    /\ \A f \in Files : e[f].seq <= local[f].seq
    /\ sender.round => \A f \in Files : e[f].seq <= sender.snap[f].seq

AnySender ==
    /\ \A f \in Files : local[f].seq <= localSeq
    /\ ~up => sender = SenderOff /\ toR = <<>>
    /\ sender.round => \A f \in Files : sender.snap[f].seq <= local[f].seq

AnyChannel ==
    \A i \in 1..Len(toR) :
        /\ toR[i].type = "cc" => i = 1 /\ toR[i].id = indexID
        /\ IsIndex(toR[i]) =>
            /\ Behind(toR[i].ents)
            /\ \A j \in 1..Len(toR) : i < j => Before(toR[i].ents, toR[j])

AnyHandling ==
    /\ remoteID <= indexID
    /\ pc # "idle" => \A i \in 1..Len(toR) : IsIndex(toR[i])
    /\ msg.type = "cc" => msg.id <= indexID /\ (up => msg.id = indexID)
    /\ up /\ (pc = "idle" => \A i \in 1..Len(toR) : IsIndex(toR[i])) /\ (pc # "idle" => Handling)
       => remoteID = indexID
    /\ Handling /\ remoteID = indexID =>
        /\ Behind(msg.ents)
        /\ \A i \in 1..Len(toR) : Before(msg.ents, toR[i])

AnyStore ==
    /\ remoteID = indexID =>
        /\ Behind(view)
        /\ \A i \in 1..Len(toR) : IsIndex(toR[i]) => Before(view, toR[i])
        /\ memSeq <= localSeq /\ diskSeq <= localSeq
    /\ pc # "apply" => remote = view
    /\ pc = "apply" =>
        /\ \A f \in Files : remote[f].seq <= view[f].seq
        /\ \A f \in todo : view[f].seq <= msg.ents[f].seq
    /\ pc \in {"resetSeq", "setID"} => view = NoEntries
    /\ pc = "setID" => memSeq = 0 /\ diskSeq = 0

AnyInv == TypeOK /\ AnySender /\ AnyChannel /\ AnyHandling /\ AnyStore
=============================================================================
