--------------------------- MODULE DownloadProgress ---------------------------
(***************************************************************************)
(* What a device tells another of the blocks in its temporary files:        *)
(* pullers, the progress emitter with what it has sent (progressemitter.go, *)
(* sentdownloadstate.go), and the receiver (devicedownloadstate.go), over   *)
(* connections that come and go.                                            *)
(***************************************************************************)
EXTENDS Naturals, Sequences, SequencesExt, FiniteSets

CONSTANTS
  Pullers,        \* shared puller states, each for one attempt at one file
  FileOf, VersionOf,
  Blocks,
  ReadApart,      \* whether blocks may arrive between the two reads of a puller
  None,
  OthersRemain,   \* whether other connections to the device remain when this one is lost
  MaxReconnects   \* bound on the connections after the first

VARIABLES
  puller,         \* [Pullers -> state, blocks, and the times of the puller]
  clock,
  timer,          \* the timer of the emitter: "off", "set" or "due"
  looked,         \* what Available returned in this round, or nothing
  lastUpdate, lastCount,
  sent,           \* sentFolderDownloadState: [files -> entry or nothing]
  channel,        \* updates on their way
  remote,         \* deviceFolderDownloadState of the receiver
  connected, reconnects

vars == <<puller, clock, timer, looked, lastUpdate, lastCount, sent, channel, remote, connected, reconnects>>
emitter == <<timer, looked, lastUpdate, lastCount, sent>>
link == <<channel, remote, connected, reconnects>>

Pulled == {FileOf[p] : p \in Pullers}
Registered == {p \in Pullers : puller[p].at = "registered"}
Forget(f, e) == [type |-> "forget", file |-> f, version |-> e.version, blocks |-> {}]
AppendBlocks(f, v, b) == [type |-> "append", file |-> f, version |-> v, blocks |-> b]

Init ==
  /\ puller = [p \in Pullers |-> [at |-> "new", blocks |-> {}, created |-> 0, updated |-> 0, available |-> 0]]
  /\ clock = 1
  /\ timer = "set"
  /\ looked = None
  /\ lastUpdate = 0 /\ lastCount = 0
  /\ sent = [f \in Pulled |-> None]
  /\ channel = <<>>
  /\ remote = [f \in Pulled |-> None]
  /\ connected = TRUE
  /\ reconnects = 0

-----------------------------------------------------------------------------
(* The puller *)

\* newSharedPullerState, perhaps with blocks reused from an older attempt; files are
\* handled one attempt at a time.
Create(p) ==
  /\ puller[p].at = "new"
  /\ \A q \in Pullers : FileOf[q] = FileOf[p] => puller[q].at \in {"new", "done"}
  /\ \E b \in SUBSET Blocks :
       puller' = [puller EXCEPT ![p] = [at |-> "created", blocks |-> b, created |-> clock,
                                         updated |-> clock, available |-> clock]]
  /\ clock' = clock + 1
  /\ UNCHANGED <<emitter, link>>

Register(p) ==
  /\ looked = None
  /\ puller[p].at = "created"
  /\ puller' = [puller EXCEPT ![p].at = "registered"]
  /\ timer' = IF Registered = {} THEN "set" ELSE timer
  /\ UNCHANGED <<clock, looked, lastUpdate, lastCount, sent, link>>

\* copyDone and pullDone: another block is available.
BlockDone(p) ==
  /\ puller[p].at = "registered"
  /\ looked # None => ReadApart
  /\ \E b \in Blocks \ puller[p].blocks :
       puller' = [puller EXCEPT ![p].blocks = @ \cup {b}, ![p].updated = clock, ![p].available = clock]
  /\ clock' = clock + 1
  /\ UNCHANGED <<emitter, link>>

Deregister(p) ==
  /\ looked = None
  /\ puller[p].at = "registered"
  /\ puller' = [puller EXCEPT ![p].at = "done"]
  /\ UNCHANGED <<clock, emitter, link>>

-----------------------------------------------------------------------------
(* The emitter *)

TimerExpires ==
  /\ timer = "set" /\ looked = None
  /\ timer' = "due"
  /\ UNCHANGED <<puller, clock, looked, lastUpdate, lastCount, sent, link>>

Later(a, S) == CHOOSE m \in S \cup {a} : \A x \in S \cup {a} : m >= x

\* Mutant: only new times of pullers count.
AnythingNew_Times(last, count) == last # lastUpdate
AnythingNew(last, count) == last # lastUpdate \/ count # lastCount

\* The timer has fired: if anything is new, the blocks of the pullers are read.
Look ==
  /\ timer = "due" /\ looked = None
  /\ timer' = IF Registered = {} THEN "off" ELSE "set"
  /\ LET last == Later(lastUpdate, {puller[p].updated : p \in Registered})
         count == Cardinality(Registered)
     IN  IF AnythingNew(last, count)
         THEN /\ lastUpdate' = last
              /\ lastCount' = count
              /\ looked' = [p \in Registered |-> puller[p].blocks]
         ELSE UNCHANGED <<lastUpdate, lastCount, looked>>
  /\ UNCHANGED <<puller, clock, sent, link>>

EntryOf(p) == [version |-> VersionOf[p], blocks |-> looked[p], created |-> puller[p].created,
               updated |-> puller[p].available]

\* Mutant: a puller of the same version is taken for the one before it.
Restarted_Version(p) == sent[FileOf[p]].version # VersionOf[p]
\* Another version, or another attempt at the same.
Restarted(p) ==
  LET e == sent[FileOf[p]] IN e.version # VersionOf[p] \/ e.created # puller[p].created

\* sentFolderDownloadState.update, for one file with a puller.
UpdatesFor(p) ==
  LET f == FileOf[p] e == sent[f]
  IN  IF e = None
      THEN IF looked[p] = {} THEN <<>> ELSE <<AppendBlocks(f, VersionOf[p], looked[p])>>
      ELSE IF e.updated = puller[p].available /\ e.version = VersionOf[p] THEN <<>>
      ELSE IF Restarted(p)
      THEN <<Forget(f, e), AppendBlocks(f, VersionOf[p], looked[p])>>
      ELSE IF looked[p] \ e.blocks = {} THEN <<>>
      ELSE <<AppendBlocks(f, e.version, looked[p] \ e.blocks)>>
SentAfter(f) ==
  IF \E p \in DOMAIN looked : FileOf[p] = f
  THEN LET p == CHOOSE q \in DOMAIN looked : FileOf[q] = f
       IN  IF sent[f] = None /\ looked[p] = {} THEN None
           ELSE IF sent[f] # None /\ sent[f].updated = puller[p].available
                   /\ sent[f].version = VersionOf[p] THEN sent[f]
           ELSE IF sent[f] # None /\ ~Restarted(p)
           THEN [sent[f] EXCEPT !.blocks = @ \cup looked[p], !.updated = puller[p].available]
           ELSE EntryOf(p)
  ELSE None

\* Mutant: files whose puller is gone are dropped, and nothing is said of them.
Gone_Silent == <<>>
\* Pulled that are sent and whose puller is gone.
Gone == LET files == {f \in Pulled : sent[f] # None /\ \A p \in DOMAIN looked : FileOf[p] # f}
        IN  SetToSeq({Forget(f, sent[f]) : f \in files})

\* computeProgressUpdates: without a connection what has been sent is forgotten.
Emit ==
  /\ looked # None
  /\ looked' = None
  /\ IF connected
     THEN /\ sent' = [f \in Pulled |-> SentAfter(f)]
          /\ channel' = channel \o FlattenSeq(SetToSeq({UpdatesFor(p) : p \in DOMAIN looked})) \o Gone
     ELSE /\ sent' = [f \in Pulled |-> None]
          /\ UNCHANGED channel
  /\ UNCHANGED <<puller, clock, timer, lastUpdate, lastCount, remote, connected, reconnects>>

-----------------------------------------------------------------------------
(* The connection and the receiver *)

\* Mutant: blocks are added whatever their version.
Applied_AnyVersion(e, u) ==
  IF u.type = "forget" THEN IF e # None /\ e.version = u.version THEN None ELSE e
  ELSE IF e = None THEN [version |-> u.version, blocks |-> u.blocks]
  ELSE [e EXCEPT !.blocks = @ \cup u.blocks, !.version = u.version]
\* deviceFolderDownloadState.Update.
Applied(e, u) ==
  IF u.type = "forget" THEN IF e # None /\ e.version = u.version THEN None ELSE e
  ELSE IF e = None \/ e.version # u.version THEN [version |-> u.version, blocks |-> u.blocks]
  ELSE [e EXCEPT !.blocks = @ \cup u.blocks]

Receive ==
  /\ channel # <<>>
  /\ LET u == Head(channel) IN remote' = [remote EXCEPT ![u.file] = Applied(@, u)]
  /\ channel' = Tail(channel)
  /\ UNCHANGED <<puller, clock, emitter, connected, reconnects>>

\* Closed: messages are lost, and the receiver forgets what it was told once no
\* connection to the device remains.
Disconnect ==
  /\ connected
  /\ reconnects < MaxReconnects
  /\ looked = None
  /\ connected' = FALSE
  /\ channel' = <<>>
  /\ remote' = IF OthersRemain THEN remote ELSE [f \in Pulled |-> None]
  /\ UNCHANGED <<puller, clock, emitter, reconnects>>
Connect ==
  /\ ~connected
  /\ looked = None
  /\ connected' = TRUE
  /\ reconnects' = reconnects + 1
  /\ UNCHANGED <<puller, clock, emitter, channel, remote>>

PullerStep(p) == Create(p) \/ Register(p) \/ BlockDone(p) \/ Deregister(p)
Next ==
  \/ \E p \in Pullers : PullerStep(p)
  \/ TimerExpires \/ Look \/ Emit
  \/ Receive \/ Disconnect \/ Connect

Spec == Init /\ [][Next]_vars

\* The emitter and the receiver run, and a connection is made again.
EmitterRuns == WF_vars(TimerExpires) /\ WF_vars(Look) /\ WF_vars(Emit) /\ WF_vars(Receive) /\ WF_vars(Connect)
\* Pullers wait for the lock of the emitter, which is free again and again, and end.
FairSpec == Spec /\ EmitterRuns /\ SF_vars(\E p \in Pullers : PullerStep(p))

-----------------------------------------------------------------------------
(* Properties *)

TypeOK ==
  /\ \A f \in Pulled : sent[f] # None => sent[f].blocks \subseteq Blocks
  /\ looked # None => DOMAIN looked = Registered

\* What the receiver believes once it has heard of an update.
Heard(beliefs, u) == [beliefs EXCEPT ![u.file] = Applied(@, u)]

\* What is said on the way, and arrives, never exceeds what the emitter has on record: a
\* message that is lost or late cannot leave the receiver believing in other blocks.
BeliefWithinSent ==
  LET view == FoldLeft(Heard, remote, channel)
  IN  connected => \A f \in Pulled : view[f] # None =>
        sent[f] # None /\ view[f].version = sent[f].version /\ view[f].blocks \subseteq sent[f].blocks

\* What is on record as sent is in the temporary file of the attempt it was sent for.
SentIsThere ==
  \A f \in Pulled : sent[f] # None =>
    \E p \in Pullers : /\ FileOf[p] = f /\ VersionOf[p] = sent[f].version
                       /\ puller[p].created = sent[f].created /\ sent[f].blocks \subseteq puller[p].blocks

\* A receiver does not go on believing in blocks of a file that is no longer pulled.
ForgottenInTheEnd == <>[](\A f \in Pulled : remote[f] = None)

\* The receiver learns of every block that is available, if the puller stops there.
LearnsAll ==
  \A p \in Pullers : puller[p].at = "registered" /\ puller[p].blocks = Blocks ~>
    \/ puller[p].at # "registered"
    \/ remote[FileOf[p]] = [version |-> VersionOf[p], blocks |-> Blocks]
=============================================================================
