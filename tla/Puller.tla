-------------------------------- MODULE Puller --------------------------------
(***************************************************************************)
(* The puller of a folder (lib/model/folder_sendrecv.go,                    *)
(* sharedpullerstate.go): iterations that take what the database says is    *)
(* needed through a pipeline of routines - the main one, copiers, the       *)
(* puller with a routine per block, the finisher and the database updater - *)
(* connected by unbuffered channels, that share a state per file.           *)
(***************************************************************************)
EXTENDS JobQueue

CONSTANTS
  Files,        \* files to get
  Shortcuts,    \* items that are handled without blocks: metadata, directories, symlinks
  Deletions,    \* files to delete
  NumBlocks,    \* number of blocks of a file, at least one
  Zeros,        \* the blocks of all zeroes
  Copiers,      \* the copier routines
  Permits,      \* the pulls (at least one) allowed at a time (PullerMaxPendingKiB)
  MaxTries,     \* bound on the iterations
  LeftOvers,    \* the temporary files there can be to begin with: sets of good blocks
  TruncateFails,\* whether extending a temporary file to its size can fail
  NoFile        \* no file

VARIABLES
  main,     \* where pullerIteration is, or "idle" between pulls
  tries,    \* iterations so far
  queue,    \* the job queue
  pending,  \* needed items that processNeeded has not come to
  state,    \* the shared state of each file
  temp,     \* the temporary files: whether there is one, and its good blocks
  copier,   \* each copier: where it is, its file, its remaining blocks
  puller,   \* the puller routine: where it is, and its file and block
  pulls,    \* the routines of pullBlock
  finisher, \* where it is, and its file
  updater,  \* whether it runs, and its batch
  disk,     \* the items as they are on disk: "old", "new", or "torn" if blocks are bad
  recorded, \* the items the database has as they are needed
  failed,   \* items with an error (tempPullErrors)
  stopped   \* the folder's context is cancelled

vars == <<main, tries, queue, pending, state, temp, copier, puller, pulls, finisher,
          updater, disk, recorded, failed, stopped>>

Blocks == 1..NumBlocks
Items == Files \cup Shortcuts \cup Deletions
NoBlock == 0
Unused == [on |-> FALSE, err |-> FALSE, copyNeeded |-> 0, pullNeeded |-> 0,
           closed |-> FALSE, writer |-> FALSE, reused |-> FALSE]
IdleCopier == [at |-> "idle", file |-> NoFile, todo |-> {}]
IdlePuller == [at |-> "idle", file |-> NoFile, block |-> NoBlock]
IdleFinisher == [at |-> "idle", file |-> NoFile]

Init ==
  /\ main = "idle"
  /\ tries = 0
  /\ queue = Empty
  /\ pending = {}
  /\ state = [f \in Files |-> Unused]
  /\ temp \in [Files -> {[exists |-> FALSE, good |-> {}]}
                        \cup {[exists |-> TRUE, good |-> g] : g \in LeftOvers}]
  /\ copier = [c \in Copiers |-> [IdleCopier EXCEPT !.at = "off"]]
  /\ puller = [IdlePuller EXCEPT !.at = "off"]
  /\ pulls = [f \in Files |-> [b \in Blocks |-> "none"]]
  /\ finisher = [IdleFinisher EXCEPT !.at = "off"]
  /\ updater = [on |-> FALSE, batch |-> {}]
  /\ disk = [i \in Items |-> "old"]
  /\ recorded = {}
  /\ failed = {}
  /\ stopped = FALSE

\* Routines of pullBlock that are on their way, and permits in use.
Running == {p \in Files \X Blocks : pulls[p[1]][p[2]] # "none"}

-----------------------------------------------------------------------------
(* The main routine *)

BeginIteration ==
  /\ main = "idle"
  /\ ~stopped
  /\ tries < MaxTries
  /\ tries' = tries + 1
  /\ main' = "need"
  /\ pending' = Items \ recorded
  /\ copier' = [c \in Copiers |-> IdleCopier]
  /\ puller' = IdlePuller
  /\ finisher' = IdleFinisher
  /\ updater' = [on |-> TRUE, batch |-> {}]
  /\ state' = [f \in Files |-> Unused]
  /\ failed' = {}
  /\ UNCHANGED <<queue, temp, pulls, disk, recorded, stopped>>

\* WithNeed: files go into the queue, items that need no blocks are handled at once,
\* deletions are left for later.
NeedFile(f) ==
  /\ main = "need"
  /\ f \in pending \cap Files
  /\ queue' = Push(queue, f)
  /\ pending' = pending \ {f}
  /\ UNCHANGED <<main, tries, state, temp, copier, puller, pulls, finisher, updater,
                 disk, recorded, failed, stopped>>

\* Handing a job to the updater, which takes it unless it has ended.
Record(i) == updater.on /\ updater' = [updater EXCEPT !.batch = @ \cup {i}]

NeedShortcut(i) ==
  /\ main = "need"
  /\ i \in pending \cap Shortcuts
  /\ pending' = pending \ {i}
  /\ \/ disk' = [disk EXCEPT ![i] = "new"] /\ Record(i) /\ UNCHANGED failed
     \/ failed' = failed \cup {i} /\ UNCHANGED <<disk, updater>>
  /\ UNCHANGED <<main, tries, queue, state, temp, copier, puller, pulls, finisher,
                 recorded, stopped>>

\* The queue is put in the configured order, any one.
ProcessQueue ==
  /\ main = "need"
  /\ \/ pending \subseteq Deletions /\ ~stopped /\ main' = "queue"
     \/ stopped /\ main' = "closeCopy"
  /\ UNCHANGED <<tries, queue, pending, state, temp, copier, puller, pulls, finisher,
                 updater, disk, recorded, failed, stopped>>

PopFile ==
  /\ main = "queue"
  /\ ~stopped
  /\ CanPop(queue)
  /\ queue' = Pop(queue)
  /\ main' = "file"
  /\ UNCHANGED <<tries, pending, state, temp, copier, puller, pulls, finisher, updater,
                 disk, recorded, failed, stopped>>

Popped == queue.progress[Len(queue.progress)]

\* Mutant: a file that cannot be pulled stays in progress.
Abandon_InProgress(q, f) == q
Abandon(q, f) == Done(q, f)

\* The file cannot be pulled: it has changed type, its parent is not there, or nobody
\* who has it is connected.
GiveUpFile ==
  /\ main = "file"
  /\ main' = "queue"
  /\ queue' = Abandon(queue, Popped)
  /\ failed' = failed \cup {Popped}
  /\ UNCHANGED <<tries, pending, state, temp, copier, puller, pulls, finisher, updater,
                 disk, recorded, stopped>>

\* renameFile: a file that is to be deleted and has the blocks of this one becomes it.
RenameFile(d) ==
  /\ main = "file"
  /\ d \in pending \cap Deletions
  /\ updater.on
  /\ disk' = [disk EXCEPT ![Popped] = "new", ![d] = "new"]
  /\ updater' = [updater EXCEPT !.batch = @ \cup {Popped, d}]
  /\ pending' = pending \ {d}
  /\ queue' = Done(queue, Popped)
  /\ main' = "queue"
  /\ UNCHANGED <<tries, state, temp, copier, puller, pulls, finisher, recorded, failed,
                 stopped>>

\* handleFile: blocks that are good in the temporary file are reused, and it is removed,
\* or tried to, if there are none.
Reused(f) == IF temp[f].exists THEN temp[f].good ELSE {}

HandleFile(c) ==
  /\ main = "file"
  /\ copier[c].at = "idle"
  /\ main' = "queue"
  /\ LET f == Popped
         need == Blocks \ Reused(f)
     IN  /\ state' = [state EXCEPT ![f] =
              [Unused EXCEPT !.on = TRUE, !.copyNeeded = Cardinality(need),
                             !.reused = (Reused(f) # {})]]
         /\ copier' = [copier EXCEPT ![c] = [at |-> "start", file |-> f, todo |-> need]]
         /\ \/ temp' = IF Reused(f) = {} THEN [temp EXCEPT ![f].exists = FALSE] ELSE temp
            \/ UNCHANGED temp
  /\ UNCHANGED <<tries, queue, pending, puller, pulls, finisher, updater, disk, recorded,
                 failed, stopped>>

CloseCopyChan ==
  /\ main = "queue"
  /\ stopped \/ ~CanPop(queue)
  /\ main' = "closeCopy"
  /\ UNCHANGED <<tries, queue, pending, state, temp, copier, puller, pulls, finisher,
                 updater, disk, recorded, failed, stopped>>

\* close(copyChan), copyWg.Wait(), close(pullChan).
CopiersDone == \A c \in Copiers : copier[c].at = "idle"
ClosePullChan ==
  /\ main = "closeCopy"
  /\ CopiersDone
  /\ copier' = [c \in Copiers |-> [IdleCopier EXCEPT !.at = "off"]]
  /\ main' = "closePull"
  /\ UNCHANGED <<tries, queue, pending, state, temp, puller, pulls, finisher, updater,
                 disk, recorded, failed, stopped>>

\* Mutant: the puller does not wait for the blocks that are being pulled.
PullsDone_Puller == puller.at = "idle"
\* pullWg.Wait(), where the puller waits for its routines, and close(finisherChan).
PullsDone == puller.at = "idle" /\ Running = {}
CloseFinisherChan ==
  /\ main = "closePull"
  /\ PullsDone
  /\ puller' = [IdlePuller EXCEPT !.at = "off"]
  /\ main' = "closeFinisher"
  /\ UNCHANGED <<tries, queue, pending, state, temp, copier, pulls, finisher, updater,
                 disk, recorded, failed, stopped>>

\* doneWg.Wait(), and on to the deletions.
FinisherDone ==
  /\ main = "closeFinisher"
  /\ finisher.at = "idle"
  /\ finisher' = [IdleFinisher EXCEPT !.at = "off"]
  /\ main' = "delete"
  /\ UNCHANGED <<tries, queue, pending, state, temp, copier, puller, pulls, updater,
                 disk, recorded, failed, stopped>>

\* processDeletions: a file that has changed is not deleted.
DeleteFile(i) ==
  /\ main = "delete"
  /\ ~stopped
  /\ i \in pending \cap Deletions
  /\ pending' = pending \ {i}
  /\ \/ disk' = [disk EXCEPT ![i] = "new"] /\ Record(i) /\ UNCHANGED failed
     \/ failed' = failed \cup {i} /\ UNCHANGED <<disk, updater>>
  /\ UNCHANGED <<main, tries, queue, state, temp, copier, puller, pulls, finisher,
                 recorded, stopped>>

\* Mutant: the updater ends without writing what it has collected.
LastBatch_Lost == recorded
LastBatch == recorded \cup updater.batch

\* close(dbUpdateChan), updateWg.Wait(): the rest of the batch is written.
EndIteration ==
  /\ main = "delete"
  /\ stopped \/ pending = {}
  /\ recorded' = LastBatch
  /\ updater' = [on |-> FALSE, batch |-> {}]
  /\ queue' = Empty
  /\ pending' = {}
  /\ main' = "idle"
  /\ UNCHANGED <<tries, state, temp, copier, puller, pulls, finisher, disk, failed,
                 stopped>>

-----------------------------------------------------------------------------
(* Copiers *)

Fail(s) == [s EXCEPT !.err = TRUE]

\* tempFile: the temporary file is opened, or created and extended to its size.
OpenTemp(f) ==
  LET fresh == ~state[f].reused
  IN  /\ fresh => ~temp[f].exists
      /\ state' = [state EXCEPT ![f].writer = TRUE]
      /\ temp' = IF ~fresh THEN temp
                 ELSE [temp EXCEPT ![f] = [exists |-> TRUE, good |-> Zeros]]

\* Extending fails: then a temporary file with blocks to reuse is removed, and a fresh
\* one is used as it is.
OpenShortTemp(f) ==
  /\ TruncateFails
  /\ ~state[f].reused
  /\ ~temp[f].exists
  /\ state' = [state EXCEPT ![f].writer = TRUE]
  /\ temp' = [temp EXCEPT ![f] = [exists |-> TRUE, good |-> {}]]
OpenFails(f) ==
  /\ state' = [state EXCEPT ![f] = Fail(@)]
  /\ \/ UNCHANGED temp
     \/ /\ TruncateFails /\ state[f].reused
        /\ temp' = [temp EXCEPT ![f] = [exists |-> FALSE, good |-> {}]]

StartCopy(c) ==
  /\ copier[c].at = "start"
  /\ LET f == copier[c].file
     IN  \/ OpenTemp(f) /\ copier' = [copier EXCEPT ![c].at = "blocks"]
         \/ OpenShortTemp(f) /\ copier' = [copier EXCEPT ![c].at = "blocks"]
         \/ OpenFails(f) /\ copier' = [copier EXCEPT ![c].at = "out"]
  /\ UNCHANGED <<main, tries, queue, pending, puller, pulls, finisher, updater, disk,
                 recorded, failed, stopped>>

\* Blocks that are written become good, and with them zeroes that come before.
Written(f, b) == [temp EXCEPT ![f].good = @ \cup {b} \cup {z \in Zeros : z < b}]

\* The blocks of a file come one after the other.
NextBlock(c) == CHOOSE b \in copier[c].todo : \A x \in copier[c].todo : b <= x

\* Mutant: the block is counted as copied when its file has been found.
CopyFails_Counted(f) ==
  state' = [state EXCEPT ![f].copyNeeded = @ - 1]
CopyFails(f) == state' = [state EXCEPT ![f] = Fail(@)]

\* A block is skipped, found in some local file and written, or the write fails.  A
\* copier that finds the file failed leaves it.
CopyBlock(c) ==
  /\ copier[c].at = "blocks"
  /\ copier[c].todo # {}
  /\ LET f == copier[c].file
         b == NextBlock(c)
     IN  IF stopped
         THEN CopyFails(f) /\ copier' = [copier EXCEPT ![c].at = "out"] /\ UNCHANGED temp
         ELSE \/ /\ b \in Zeros /\ ~state[f].reused
                 /\ state' = [state EXCEPT ![f].copyNeeded = @ - 1]
                 /\ copier' = [copier EXCEPT ![c].todo = @ \ {b}]
                 /\ UNCHANGED temp
              \/ /\ b \notin Zeros \/ state[f].reused
                 /\ ~state[f].closed
                 /\ temp' = Written(f, b)
                 /\ state' = [state EXCEPT ![f].copyNeeded = @ - 1]
                 /\ copier' = [copier EXCEPT ![c].todo = @ \ {b}]
                 /\ ~state[f].err
              \/ /\ b \notin Zeros \/ state[f].reused
                 /\ CopyFails(f)
                 /\ copier' = [copier EXCEPT ![c].at = "out"]
                 /\ \/ UNCHANGED temp
                    \/ state[f].err /\ ~state[f].closed /\ temp' = Written(f, b)
  /\ UNCHANGED <<main, tries, queue, pending, puller, pulls, finisher, updater, disk,
                 recorded, failed, stopped>>

\* Mutants: the block is counted as a pull and still as a copy, or not at all.
PullStarted_Uncounted(s) == [s EXCEPT !.copyNeeded = @ - 1]
PullStarted_Twice(s) == [s EXCEPT !.pullNeeded = @ + 1]
PullStarted(s) == [s EXCEPT !.copyNeeded = @ - 1, !.pullNeeded = @ + 1]

\* A block that is not found goes to the puller, unless the file has failed.
BeginPull(c) ==
  /\ copier[c].at = "blocks"
  /\ copier[c].todo # {}
  /\ ~stopped
  /\ LET f == copier[c].file
         b == NextBlock(c)
     IN  /\ b \notin Zeros \/ state[f].reused
         /\ ~state[f].err
         /\ state' = [state EXCEPT ![f] = PullStarted(@)]
         /\ copier' = [copier EXCEPT ![c].at = "pull"]
  /\ UNCHANGED <<main, tries, queue, pending, temp, puller, pulls, finisher, updater,
                 disk, recorded, failed, stopped>>

SendPull(c) ==
  /\ copier[c].at = "pull"
  /\ puller.at = "idle"
  /\ LET b == NextBlock(c)
     IN  /\ puller' = [at |-> "take", file |-> copier[c].file, block |-> b]
         /\ copier' = [copier EXCEPT ![c].at = "blocks", ![c].todo = @ \ {b}]
  /\ UNCHANGED <<main, tries, queue, pending, state, temp, pulls, finisher, updater,
                 disk, recorded, failed, stopped>>

CopierDone(c) ==
  /\ copier[c].at = "blocks"
  /\ copier[c].todo = {}
  /\ copier' = [copier EXCEPT ![c].at = "out"]
  /\ UNCHANGED <<main, tries, queue, pending, state, temp, puller, pulls, finisher,
                 updater, disk, recorded, failed, stopped>>

-----------------------------------------------------------------------------
(* Puller *)

\* Mutant: a pull that has failed keeps its permit.
PermitsInUse_Kept ==
  Cardinality(Running) + Cardinality({f \in Files : state[f].err /\ state[f].closed})
PermitsInUse == Cardinality(Running)

\* The puller passes a failed file on, or waits for a permit and starts a routine.
StartPull ==
  /\ puller.at = "take"
  /\ LET f == puller.file
         b == puller.block
     IN  \/ /\ ~state[f].err
            /\ PermitsInUse < Permits
            /\ pulls' = [pulls EXCEPT ![f][b] = "request"]
            /\ puller' = IdlePuller
            /\ UNCHANGED state
         \/ /\ state[f].err \/ stopped
            /\ state' = [state EXCEPT ![f] = Fail(@)]
            /\ puller' = [puller EXCEPT !.at = "out"]
            /\ UNCHANGED pulls
  /\ UNCHANGED <<main, tries, queue, pending, temp, copier, finisher, updater, disk,
                 recorded, failed, stopped>>

\* Mutant: a pull that has failed is counted too, and the error forgotten.
PullFailed_Counted(s) == [s EXCEPT !.pullNeeded = @ - 1]
PullFailed(s) == Fail(s)

\* pullBlock: the block comes from one of the devices and is written, which fails on a
\* file that has been closed, or none has it.
PullBlock(f, b) ==
  /\ pulls[f][b] = "request"
  /\ pulls' = [pulls EXCEPT ![f][b] = "out"]
  /\ \/ /\ ~state[f].closed
        /\ temp' = Written(f, b)
        /\ state' = [state EXCEPT ![f].pullNeeded = @ - 1]
     \/ /\ state' = [state EXCEPT ![f] = PullFailed(@)]
        /\ UNCHANGED temp
  /\ UNCHANGED <<main, tries, queue, pending, copier, puller, finisher, updater, disk,
                 recorded, failed, stopped>>

-----------------------------------------------------------------------------
(* Finisher and database updater *)

\* Mutant: errors do not count, a file with one is closed when no work is left.
MayClose_NoError(s) == s.pullNeeded + s.copyNeeded = 0
MayClose(s) == s.err \/ s.pullNeeded + s.copyNeeded = 0

\* finalClose: the first who comes with nothing left to do, or an error, closes the file.
FinalClose(f) ==
  IF state[f].closed \/ ~MayClose(state[f])
  THEN UNCHANGED <<state, finisher, queue, failed>>
  ELSE /\ state' = [state EXCEPT ![f].closed = TRUE, ![f].writer = FALSE]
       /\ queue' = Done(queue, f)
       /\ IF state[f].err
          THEN failed' = failed \cup {f} /\ UNCHANGED finisher
          ELSE finisher' = [at |-> "finish", file |-> f] /\ UNCHANGED failed

ReceiveFromCopier(c) ==
  /\ copier[c].at = "out"
  /\ finisher.at = "idle"
  /\ FinalClose(copier[c].file)
  /\ copier' = [copier EXCEPT ![c] = IdleCopier]
  /\ UNCHANGED <<main, tries, pending, temp, puller, pulls, updater, disk, recorded,
                 stopped>>

ReceiveFromPuller ==
  /\ puller.at = "out"
  /\ finisher.at = "idle"
  /\ FinalClose(puller.file)
  /\ puller' = IdlePuller
  /\ UNCHANGED <<main, tries, pending, temp, copier, pulls, updater, disk, recorded,
                 stopped>>

ReceiveFromPull(f, b) ==
  /\ pulls[f][b] = "out"
  /\ finisher.at = "idle"
  /\ FinalClose(f)
  /\ pulls' = [pulls EXCEPT ![f][b] = "none"]
  /\ UNCHANGED <<main, tries, pending, temp, copier, puller, updater, disk, recorded,
                 stopped>>

\* performFinish: the temporary file takes the place of the old one, or is left for
\* another try if that is not as the database has it.
Finish ==
  /\ finisher.at = "finish"
  /\ LET f == finisher.file
     IN  \/ /\ disk' = [disk EXCEPT ![f] = IF temp[f].good = Blocks THEN "new" ELSE "torn"]
            /\ temp' = [temp EXCEPT ![f] = [exists |-> FALSE, good |-> {}]]
            /\ finisher' = [finisher EXCEPT !.at = "record"]
            /\ UNCHANGED failed
         \/ /\ failed' = failed \cup {f}
            /\ finisher' = IdleFinisher
            /\ UNCHANGED <<disk, temp>>
  /\ UNCHANGED <<main, tries, queue, pending, state, copier, puller, pulls, updater,
                 recorded, stopped>>

FinishRecord ==
  /\ finisher.at = "record"
  /\ Record(finisher.file)
  /\ finisher' = IdleFinisher
  /\ UNCHANGED <<main, tries, queue, pending, state, temp, copier, puller, pulls, disk,
                 recorded, failed, stopped>>

Flush ==
  /\ updater.batch # {}
  /\ recorded' = recorded \cup updater.batch
  /\ updater' = [updater EXCEPT !.batch = {}]
  /\ UNCHANGED <<main, tries, queue, pending, state, temp, copier, puller, pulls,
                 finisher, disk, failed, stopped>>

-----------------------------------------------------------------------------
(* From outside *)

MoveToFront(f) ==
  /\ queue' = BringToFront(queue, f)
  /\ queue' # queue
  /\ UNCHANGED <<main, tries, pending, state, temp, copier, puller, pulls, finisher,
                 updater, disk, recorded, failed, stopped>>

Stop ==
  /\ ~stopped
  /\ stopped' = TRUE
  /\ UNCHANGED <<main, tries, queue, pending, state, temp, copier, puller, pulls,
                 finisher, updater, disk, recorded, failed>>

Main == \/ BeginIteration \/ ProcessQueue \/ PopFile \/ GiveUpFile \/ CloseCopyChan
        \/ ClosePullChan \/ CloseFinisherChan \/ FinisherDone \/ EndIteration
        \/ \E f \in Files : NeedFile(f)
        \/ \E i \in Shortcuts : NeedShortcut(i)
        \/ \E i \in Deletions : DeleteFile(i) \/ RenameFile(i)
        \/ \E c \in Copiers : HandleFile(c)
Copy(c) == StartCopy(c) \/ CopyBlock(c) \/ BeginPull(c) \/ SendPull(c) \/ CopierDone(c)
           \/ ReceiveFromCopier(c)
Pull == StartPull \/ ReceiveFromPuller
PullOne(f, b) == PullBlock(f, b) \/ ReceiveFromPull(f, b)
Next == \/ Main \/ Pull \/ Finish \/ FinishRecord \/ Flush \/ Stop
        \/ \E c \in Copiers : Copy(c)
        \/ \E f \in Files : MoveToFront(f)
        \/ \E f \in Files, b \in Blocks : PullOne(f, b)

Spec == Init /\ [][Next]_vars

\* The routines run, and each request comes back with a result.
FairSpec ==
  /\ Spec
  /\ WF_vars(Main) /\ WF_vars(Pull) /\ WF_vars(Finish \/ FinishRecord)
  /\ \A c \in Copiers : WF_vars(Copy(c))
  /\ \A f \in Files, b \in Blocks : WF_vars(PullOne(f, b))

-----------------------------------------------------------------------------
(* Properties *)

TypeOK ==
  /\ main \in {"idle", "need", "queue", "file", "closeCopy", "closePull", "closeFinisher",
               "delete"}
  /\ tries \in 0..MaxTries
  /\ pending \subseteq Items
  /\ state \in [Files -> [on : BOOLEAN, err : BOOLEAN, copyNeeded : 0..NumBlocks,
                          pullNeeded : 0..NumBlocks, closed : BOOLEAN, writer : BOOLEAN,
                          reused : BOOLEAN]]
  /\ temp \in [Files -> [exists : BOOLEAN, good : SUBSET Blocks]]
  /\ disk \in [Items -> {"old", "new", "torn"}]
  /\ recorded \cup failed \cup updater.batch \subseteq Items

\* A file takes its place only with all its blocks.
NoTornFile == \A i \in Items : disk[i] # "torn"

\* The counters of a file without an error are the blocks that its copier has yet to
\* handle, and those on their way through the puller: they come to zero when the last
\* one is done, and not before.
Copying(f) == UNION {copier[c].todo : c \in {x \in Copiers : copier[x].file = f}}
Handed(f) == {copier[c].file : c \in {x \in Copiers : copier[x].at = "pull"}} \cap {f}
CountersMatchWork ==
  \A f \in Files :
    state[f].on /\ ~state[f].err =>
      /\ state[f].copyNeeded = Cardinality(Copying(f)) - Cardinality(Handed(f))
      /\ state[f].pullNeeded = Cardinality(Handed(f))
           + Cardinality({b \in Blocks : pulls[f][b] = "request"})
           + (IF puller.file = f THEN 1 ELSE 0)

\* When the pipeline has run dry every file that went into it has been closed, and
\* nothing is in progress: the one who comes last to the finisher closes the file.
AllClosed ==
  main \in {"closeFinisher", "delete"} /\ finisher.at \in {"idle", "off"} =>
    /\ \A f \in Files : state[f].on => state[f].closed
    /\ queue.progress = <<>>

\* Nothing is written to a temporary file that no longer belongs to an open state, and
\* no routine of one iteration is left in the next.
NoStrayWriter ==
  main \in {"idle", "need", "delete"} => Running = {} /\ \A f \in Files : ~state[f].writer

\* The routines that share the state of a file agree on who is done with it: its counters
\* are the work that is left, it is closed when that is done, and nobody writes after it.
SharedStateRight == CountersMatchWork /\ AllClosed /\ NoStrayWriter

\* Each item is new on disk before the database has it; between iterations the database
\* has each item that is new.
DatabaseFollowsDisk ==
  /\ recorded \cup updater.batch \subseteq {i \in Items : disk[i] = "new"}
  /\ main = "idle" => \A i \in Items : disk[i] = "new" => i \in recorded

\* No item is both done and failed in one iteration.
DoneOrFailed == failed \cap {i \in Items : disk[i] # "old"} = {}

\* Whatever is brought to the front meanwhile, each needed file is in the queue exactly
\* once, or in progress, or has been closed or given up (the order of the queue is
\* changed from outside while the main routine pops it).
NoFileLost ==
  main \in {"queue", "file"} =>
    \A f \in Files \ (recorded \cup failed) :
      \/ state[f].closed \/ f \in updater.batch
      \/ Cardinality({i \in DOMAIN queue.queued : queue.queued[i] = f})
           + Cardinality({i \in DOMAIN queue.progress : queue.progress[i] = f}) = 1

\* The pages of the queue that the user sees are the slices of what is in progress and
\* what is queued after it, without a file left out or shown twice on a page boundary; a
\* page that is larger than all of it, or after the last one, is one too.
PagesCover ==
  LET all == queue.progress \o queue.queued
      someMore == 1..(Len(all) + 1)
  IN  \A perpage \in someMore, page \in someMore :
        LET jobs == Jobs(queue, page, perpage)
            skip == (page - 1) * perpage
        IN  jobs.progress \o jobs.queued
              = SubSeq(all, skip + 1,
                       IF skip + perpage < Len(all) THEN skip + perpage ELSE Len(all))

\* No file is lost from the queue, or from what is shown of it, or comes out of it twice.
QueueRight == NoFileLost /\ PagesCover /\ DoneOrFailed

\* An iteration comes to its end, whatever fails.
IterationEnds == (main # "idle") ~> (main = "idle")
=============================================================================
