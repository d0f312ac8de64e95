----------------------------- MODULE IndexRegistry -----------------------------
(***************************************************************************)
(* The registry of index handlers of one connection, for one folder         *)
(* (indexhandler.go), driven from two sides: by the ClusterConfigs of the    *)
(* remote (model.go, ccHandleFolders), and by the commit of configurations   *)
(* in which the folder is added, paused, unshared or removed.                *)
(***************************************************************************)
EXTENDS Naturals, Sequences

CONSTANTS
  Local,       \* what the configuration may say of the folder, a subset of Configurations
  None,
  MaxChanges,  \* bound on the changes of the configuration here
  MaxRemote    \* bound on the changes of the remote

\* The folder and whether the device has it: "ignored" is without the folder, and
\* what the device offers is not wanted.
Configurations == {"none", "ignored", "shared", "paused", "unshared", "unsharedPaused"}
ASSUME LocalAssumption == Local \subseteq Configurations
ASSUME NoneAssumption ==
  None \notin Nat \cup [info : Nat, incarnation : Nat, paused : BOOLEAN] \cup [op : {"add", "remove"}, info : Nat]
Absent == {"none", "ignored"}
PausedHere == {"paused", "unsharedPaused"}

VARIABLES
  config,      \* the configuration that the wrapper has
  committed,   \* the one the model has acted on
  dropping,    \* a removed folder that is about to be dropped from the database
  registry,    \* indexHandlerRegistry: folderState, startInfo, handler
  incarnation, \* of the folder in the database
  remote,      \* the folder at the other side: "absent", "paused" or "running"
  inbox,       \* its ClusterConfigs on their way
  info,        \* number of the last one
  decided,     \* what the ClusterConfig in hand asks of the registry, or nothing
  indexDue,    \* whether the other side may send an index
  left,        \* in this connection the device was out of the folder, or its offer was ignored
  changes, remoteChanges

vars == <<config, committed, dropping, registry, incarnation, remote, inbox, info, decided, indexDue,
          left, changes, remoteChanges>>

-----------------------------------------------------------------------------
(* The registry: every operation runs under its mutex *)

NoRegistry == [folderState |-> None, startInfo |-> None, handler |-> None]
Handler(n, inc) == [info |-> n, incarnation |-> inc, paused |-> FALSE]

\* startLocked.
Started(r, n) == [r EXCEPT !.startInfo = None, !.handler = Handler(n, r.folderState)]

\* Mutant: what the ClusterConfig said is not kept for a folder that does not run.
WithIndexInfo_NotKept(r, n) == IF r.folderState = None THEN [r EXCEPT !.handler = None] ELSE Started(r, n)
\* Mutant: a handler that is paused stays beside the information that waits.
WithIndexInfo_HandlerKept(r, n) ==
  IF r.folderState = None THEN [r EXCEPT !.startInfo = n] ELSE Started(r, n)
\* AddIndexInfo.
WithIndexInfo(r, n) ==
  IF r.folderState = None THEN [r EXCEPT !.handler = None, !.startInfo = n] ELSE Started(r, n)

\* Remove; what is known of the folder's state stays.
Removed(r) == [r EXCEPT !.handler = None, !.startInfo = None]

\* Mutant: the state of the folder is kept, as for a restart.
Paused_Kept(r) == IF r.handler = None THEN r ELSE [r EXCEPT !.handler.paused = TRUE]
\* folderPausedLocked.
Paused(r) ==
  LET s == [r EXCEPT !.folderState = None]
  IN  IF r.handler = None THEN s ELSE [s EXCEPT !.handler.paused = TRUE]

\* Mutant: a handler that is paused goes on, and new information waits.
Running_ResumeFirst(r, inc) ==
  LET s == [r EXCEPT !.folderState = inc]
  IN  IF r.handler # None THEN [s EXCEPT !.handler.paused = FALSE, !.handler.incarnation = inc] ELSE s
\* folderRunningLocked.
Running(r, inc) ==
  LET s == [r EXCEPT !.folderState = inc]
  IN  IF r.startInfo # None THEN Started(s, r.startInfo)
      ELSE IF r.handler # None
      THEN [s EXCEPT !.handler.paused = FALSE, !.handler.incarnation = inc]
      ELSE s

\* RegisterFolderState.
Registered(r, c) ==
  IF c \notin {"shared", "paused"} THEN Removed(r)
  ELSE IF c = "paused" THEN Paused(r)
  ELSE Running(r, incarnation)

-----------------------------------------------------------------------------
Init ==
  /\ config \in Local /\ committed = config
  /\ dropping = FALSE
  /\ incarnation = 0
  /\ registry = IF config \in Absent THEN NoRegistry ELSE Registered(NoRegistry, config)
  /\ remote \in {"absent", "paused", "running"}
  /\ info = 1
  /\ inbox = <<[folder |-> remote, info |-> 1]>>
  /\ decided = None
  /\ indexDue = FALSE
  /\ left = FALSE
  /\ changes = 0 /\ remoteChanges = 0

\* The wrapper has a new configuration; it waits with the next until this one is committed.
Change(c) ==
  /\ config = committed /\ ~dropping
  /\ changes < MaxChanges
  /\ c # config
  /\ config' = c
  /\ changes' = changes + 1
  /\ UNCHANGED <<committed, dropping, registry, incarnation, remote, inbox, info, decided, indexDue, left, remoteChanges>>

\* What the model's CommitConfiguration does with the folder: a folder that is added
\* and paused, and one that stays paused, is passed over.
Committed(r) ==
  IF config \in Absent THEN IF committed \in Absent THEN r ELSE Removed(r)
  ELSE IF config \in PausedHere /\ committed \in Absent \cup PausedHere THEN r
  ELSE Registered(r, config)

\* CommitConfiguration, which ends with a ClusterConfig to the other side: its handler
\* starts anew and sends an index, if there is anything to send.
Commit ==
  /\ committed # config /\ ~dropping
  /\ registry' = Committed(registry)
  /\ IF config \in Absent /\ committed \notin Absent
     THEN /\ dropping' = TRUE
          /\ UNCHANGED <<committed, indexDue>>
     ELSE /\ committed' = config
          /\ indexDue' = (config = "shared" /\ remote = "running")
          /\ UNCHANGED dropping
  /\ left' = (left \/ config \notin {"shared", "paused"})
  /\ UNCHANGED <<config, incarnation, remote, inbox, info, decided, changes, remoteChanges>>

\* removeFolder drops the folder from the database last.
DropFolder ==
  /\ dropping
  /\ dropping' = FALSE
  /\ committed' = config
  /\ incarnation' = incarnation + 1
  /\ indexDue' = FALSE
  /\ UNCHANGED <<config, registry, remote, inbox, info, decided, left, changes, remoteChanges>>

-----------------------------------------------------------------------------
\* The other side changes the folder, or something else, and sends a ClusterConfig.
RemoteChanges(f) ==
  /\ remoteChanges < MaxRemote
  /\ remote' = f
  /\ info' = info + 1
  /\ inbox' = Append(inbox, [folder |-> f, info |-> info + 1])
  /\ indexDue' = (f = "running" /\ committed = "shared")
  /\ remoteChanges' = remoteChanges + 1
  /\ UNCHANGED <<config, committed, dropping, registry, incarnation, decided, left, changes>>

\* ccHandleFolders looks at the folder in the message and in the configuration...
HandleClusterConfig ==
  /\ decided = None /\ inbox # <<>>
  /\ inbox' = Tail(inbox)
  /\ decided' = IF Head(inbox).folder = "running" /\ config # "ignored"
                THEN [op |-> "add", info |-> Head(inbox).info]
                ELSE [op |-> "remove", info |-> Head(inbox).info]
  /\ left' = (left \/ (Head(inbox).folder = "running" /\ config = "ignored"))
  /\ UNCHANGED <<config, committed, dropping, registry, incarnation, remote, info, indexDue, changes, remoteChanges>>

\* ... and then tells the registry.
ApplyClusterConfig ==
  /\ decided # None
  /\ registry' = IF decided.op = "add" THEN WithIndexInfo(registry, decided.info) ELSE Removed(registry)
  /\ decided' = None
  /\ UNCHANGED <<config, committed, dropping, incarnation, remote, inbox, info, indexDue, left, changes, remoteChanges>>

\* handleIndex and ReceiveIndex.
Accepts ==
  /\ config = "shared"
  /\ registry.handler # None /\ ~registry.handler.paused

\* An index that is accepted, or an error, with which the connection ends: the next one
\* starts with a new registry, in which every folder is registered, and a ClusterConfig.
IndexArrives ==
  /\ indexDue /\ decided = None
  /\ IF Accepts
     THEN /\ indexDue' = FALSE
          /\ UNCHANGED <<registry, inbox, info, left>>
     ELSE /\ registry' = IF committed \in Absent \/ dropping THEN NoRegistry
                         ELSE Registered(NoRegistry, committed)
          /\ info' = info + 1
          /\ inbox' = <<[folder |-> remote, info |-> info + 1]>>
          /\ indexDue' = FALSE
          /\ left' = FALSE
  /\ UNCHANGED <<config, committed, dropping, incarnation, remote, decided, changes, remoteChanges>>

Next ==
  \/ \E c \in Local : Change(c)
  \/ Commit \/ DropFolder
  \/ \E f \in {"absent", "paused", "running"} : RemoteChanges(f)
  \/ HandleClusterConfig \/ ApplyClusterConfig \/ IndexArrives

Spec == Init /\ [][Next]_vars

-----------------------------------------------------------------------------
(* Properties *)

Numbers == 0 .. (1 + MaxRemote + MaxChanges + MaxRemote + 1)
TypeOK ==
  /\ config \in Local /\ committed \in Local
  /\ registry.folderState \in {None} \cup (0 .. MaxChanges)
  /\ registry.startInfo \in {None} \cup Numbers
  /\ registry.handler # None => registry.handler.info \in Numbers
  /\ info \in Numbers

\* Nothing is under way.
Settled == config = committed /\ ~dropping /\ inbox = <<>> /\ decided = None

\* Information that waits for a folder to run is never beside a handler that runs with
\* other information.
WaitsOrRuns == registry.startInfo # None => registry.handler = None

\* A handler that runs, or will, does so with the information of the last ClusterConfig,
\* not with that of an earlier one.
LatestInformation ==
  inbox = <<>> /\ decided = None =>
    /\ registry.startInfo # None => registry.startInfo = info
    /\ registry.handler # None => registry.handler.info = info

\* However the pauses and changes of the two sides come together, the handler runs in
\* the end when both sides want it, if the device did not leave the folder meanwhile.
StartsWhenShared ==
  Settled /\ ~left /\ config = "shared" /\ remote = "running" =>
    registry.handler # None /\ ~registry.handler.paused

\* An index handler runs only for a folder that is shared with the device and not
\* paused, on the database that the folder has now, if the device did not leave it meanwhile.
RunsOnlyIfShared ==
  Settled /\ ~left /\ registry.handler # None /\ ~registry.handler.paused =>
    /\ config = "shared" /\ remote = "running"
    /\ registry.handler.incarnation = incarnation

\* The handlers follow the last ClusterConfig and the configuration.
HandlersFollow == LatestInformation /\ StartsWhenShared /\ RunsOnlyIfShared

\* The same without that condition does not hold: the registry keeps what it knows of the
\* folder when the device leaves, and starts a handler when it is offered again.
RunsOnlyIfSharedEver == 
  Settled /\ registry.handler # None /\ ~registry.handler.paused => config = "shared"
StartsWhenSharedEver ==
  Settled /\ config = "shared" /\ remote = "running" => registry.handler # None
=============================================================================
